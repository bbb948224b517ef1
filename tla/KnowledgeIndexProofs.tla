------------------------ MODULE KnowledgeIndexProofs ------------------------
(***************************************************************************)
(* What the index promises of any number of notes, with any contents and   *)
(* identities.  An identity is given to one path after the other, so the   *)
(* proofs that concern identities go by induction over the paths; the      *)
(* library's induction theorems take an operator as a parameter, so the    *)
(* principle is stated here for sets, and follows from WFMin.              *)
(***************************************************************************)
EXTENDS KnowledgeIndex, FiniteSetTheorems, SequenceTheorems, WellFoundedInduction, TLAPS

LEMMA LeastOfNaturals ==
    ASSUME NEW T \in SUBSET Nat, T # {}
    PROVE  \E x \in T : \A y \in T : x =< y
<1> DEFINE R == StrictSubsetOrdering(Nat)
           F == FiniteSubsetsOf(Nat)
           D == {1 .. n : n \in T}
<1>1. IsWellFoundedOn(R, F)
    BY FS_StrictSubsetOrderingWellFounded
<1>2. \A n \in Nat : 1 .. n \in F
    BY FS_Interval DEF FiniteSubsetsOf
<1>3. D \subseteq F /\ D # {}
    BY <1>2
<1>4. \E U \in D : \A V \in D : <<V, U>> \notin R
    <2> HIDE DEF R, F, D
    <2> QED
        BY <1>1, <1>3, WFMin
<1>5. PICK x \in T : \A V \in D : <<V, 1 .. x>> \notin R
    BY <1>4
<1>6. ASSUME NEW y \in T PROVE x =< y
    <2>1. <<1 .. y, 1 .. x>> \notin R
        BY <1>5
    <2>2. SUFFICES ASSUME y < x PROVE FALSE
        OBVIOUS
    <2>3. 1 .. y \subseteq 1 .. x /\ x \in 1 .. x /\ x \notin 1 .. y
        BY <2>2
    <2>4. 1 .. y # 1 .. x
        BY <2>3
    <2>5. 1 .. y \in SUBSET Nat /\ 1 .. x \in SUBSET Nat
        OBVIOUS
    <2> QED
        BY <2>1, <2>3, <2>4, <2>5 DEF StrictSubsetOrdering
<1> QED
    BY <1>6

\* What holds of 0, and of n + 1 where it holds of n, holds of every number.
LEMMA SetInduction ==
    ASSUME NEW S \in SUBSET Nat, 0 \in S, \A n \in S : n + 1 \in S
    PROVE  S = Nat
<1> SUFFICES ASSUME Nat \ S # {} PROVE FALSE
    OBVIOUS
<1>1. PICK n \in Nat \ S : \A m \in Nat \ S : n =< m
    BY LeastOfNaturals, Zenon
<1>2. n - 1 \in Nat /\ n - 1 \notin Nat \ S
    BY <1>1
<1> QED
    BY <1>1, <1>2

-----------------------------------------------------------------------------
(* Identities.                                                             *)

LEMMA DeclaredIsName == ASSUME NEW c \in Content PROVE DeclaredId[c] \in Name \ {Empty}
<1> DEFINE t == DeclaredId[c]
<1>1. Len(t) \in Nat /\ t = [i \in 1 .. Len(t) |-> t[i]] /\ t # Empty
    BY IndexAssumption DEF IsText
<1>2. \A i \in 1 .. Len(t) : t[i] \in Symbol
    <2>1. \A i \in 1 .. Len(t) : t[i] \in Range(t)
        <3> HIDE DEF t
        <3> QED
            BY <1>1 DEF Range
    <2> QED
        BY <2>1 DEF Symbol, Letters
<1> HIDE DEF t
<1>3. t \in [1 .. Len(t) -> Symbol]
    BY <1>1, <1>2
<1>4. t \in Seq(Symbol)
    BY <1>1, <1>3, SeqDef
<1> QED
    BY <1>1, <1>4 DEF Name, t

LEMMA NumbersApart ==
    ASSUME NEW base \in Name, NEW m \in Nat, NEW n \in Nat
    PROVE  /\ base \o <<n>> \in Name \ {Empty}
           /\ base \o <<m>> = base \o <<n>> => m = n
<1>0. m \in Symbol /\ n \in Symbol
    BY DEF Symbol
<1>1. base \in Seq(Symbol) /\ <<m>> \in Seq(Symbol) /\ <<n>> \in Seq(Symbol)
    BY <1>0 DEF Name
<1>2. /\ base \o <<n>> \in Seq(Symbol)
      /\ Len(base \o <<n>>) = Len(base) + 1 /\ Len(base) \in Nat
      /\ (base \o <<n>>)[Len(base) + 1] = n
      /\ (base \o <<m>>)[Len(base) + 1] = m
    BY <1>1, ConcatProperties, LenProperties
<1>3. base \o <<n>> # Empty
    BY <1>2, EmptySeq DEF Empty
<1> QED
    BY <1>2, <1>3 DEF Name

\* There is a free suffix among one more than there are identities taken.
LEMMA FirstFreeIsFree ==
    ASSUME NEW base \in Name, NEW taken, IsFiniteSet(taken)
    PROVE  \E n \in Nat : FirstFree(base, taken) = base \o <<n>> /\ base \o <<n>> \notin taken
<1> DEFINE C == Cardinality(taken)
           T == {n \in 0 .. C : base \o <<n>> \notin taken}
<1>1. C \in Nat
    BY FS_CardinalityType
<1>2. T # {}
    <2> SUFFICES ASSUME T = {} PROVE FALSE
        OBVIOUS
    <2> DEFINE f == [n \in 0 .. C |-> base \o <<n>>]
    <2>1. \A n \in 0 .. C : f[n] = base \o <<n>> /\ f[n] \in taken
        OBVIOUS
    <2>2. \A m, n \in 0 .. C : f[m] = f[n] => m = n
        BY <1>1, <2>1, NumbersApart
    <2>3. f \in Injection(0 .. C, taken)
        BY <2>1, <2>2 DEF Injection, IsInjective
    <2>4. Cardinality(0 .. C) =< C
        BY <2>3, FS_Injection
    <2>5. Cardinality(0 .. C) = C + 1
        BY <1>1, FS_Interval
    <2> QED
        BY <1>1, <2>4, <2>5
<1>3. T \in SUBSET Nat
    BY <1>1
<1>4. PICK x \in T : \A y \in T : x =< y
    BY <1>2, <1>3, LeastOfNaturals
<1> DEFINE Free(n) == /\ base \o <<n>> \notin taken
                      /\ \A k \in 0 .. n - 1 : base \o <<k>> \in taken
           n == CHOOSE n \in 0 .. C : Free(n)
<1>5. x \in 0 .. C /\ Free(x)
    BY <1>1, <1>4
<1>6. n \in 0 .. C /\ Free(n)
    <2> HIDE DEF Free
    <2> QED
        BY <1>5
<1>7. FirstFree(base, taken) = base \o <<n>>
    BY DEF FirstFree
<1>8. n \in Nat /\ base \o <<n>> \notin taken
    BY <1>1, <1>6
<1> HIDE DEF n
<1> QED
    BY <1>7, <1>8

\* The identity of one path, given those of the paths before.
Before(declared, owner, p) == {q \in DOMAIN declared : q < p /\ owner[q] # q}
Given(declared, owner, desired, p) ==
    IF owner[p] = p THEN declared[p]
    ELSE FirstFree(declared[p] \o <<Digest[p]>>,
                   Range(declared) \cup {desired[q] : q \in Before(declared, owner, p)})

\* The recursion has a solution: it is extended from one path to the next.
LEMMA IdentitiesGiven ==
    ASSUME NEW declared, NEW owner, DOMAIN declared \subseteq Path
    PROVE  Identities(declared, owner)
               = [p \in DOMAIN declared |-> Given(declared, owner, Identities(declared, owner), p)]
<1> DEFINE D == DOMAIN declared
           G(f, p) == Given(declared, owner, f, p)
           Part(n) == {p \in D : p < n}
           S == {n \in Nat : \E f : f = [p \in Part(n) |-> G(f, p)]}
<1>1. D \subseteq Nat /\ Path \subseteq Nat
    BY IndexAssumption, FS_CardinalityType
<1>2. 0 \in S
    <2>1. Part(0) = {}
        BY <1>1
    <2>2. [p \in {} |-> 0] = [p \in Part(0) |-> G([q \in {} |-> 0], p)]
        BY <2>1
    <2> QED
        BY <2>2
<1>3. ASSUME NEW n \in S PROVE n + 1 \in S
    <2>1. n \in Nat
        OBVIOUS
    <2>2. PICK f : f = [p \in Part(n) |-> G(f, p)]
        OBVIOUS
    <2> DEFINE g == [p \in Part(n + 1) |-> G(f, p)]
    <2>3. \A p \in Part(n) : g[p] = f[p] /\ p \in Part(n + 1)
        BY <1>1, <2>1, <2>2
    <2>4. ASSUME NEW p \in Part(n + 1) PROVE G(g, p) = G(f, p)
        <3>1. \A q \in Before(declared, owner, p) : q \in Part(n)
            BY <1>1, <2>1 DEF Before
        <3>2. {g[q] : q \in Before(declared, owner, p)} = {f[q] : q \in Before(declared, owner, p)}
            <4> HIDE DEF g, Part
            <4> QED
                BY <2>3, <3>1
        <3> HIDE DEF g
        <3> QED
            BY <3>2 DEF Given
    <2>5. g = [p \in Part(n + 1) |-> G(g, p)]
        <3> HIDE DEF G
        <3> QED
            BY <2>4
    <2> HIDE DEF g
    <2> QED
        BY <2>1, <2>5
<1>4. S = Nat
    <2> HIDE DEF S
    <2>1. S \in SUBSET Nat
        BY DEF S
    <2> QED
        BY <1>2, <1>3, <2>1, SetInduction
<1>5. Cardinality(Path) + 1 \in S /\ Part(Cardinality(Path) + 1) = D
    <2>1. Cardinality(Path) \in Nat
        BY IndexAssumption, FS_CardinalityType
    <2>2. \A p \in D : p < Cardinality(Path) + 1
        BY <1>1, <2>1, IndexAssumption
    <2>3. Cardinality(Path) + 1 \in S
        <3> HIDE DEF S
        <3> QED
            BY <1>4, <2>1
    <2> QED
        BY <2>2, <2>3
<1>6. \E f : f = [p \in D |-> G(f, p)]
    <2> HIDE DEF G
    <2> QED
        BY <1>5
<1>7. Identities(declared, owner) = CHOOSE f : f = [p \in D |-> G(f, p)]
    BY DEF Identities, Given, Before
<1> HIDE DEF G
<1>8. Identities(declared, owner) = [p \in D |-> G(Identities(declared, owner), p)]
    BY <1>6, <1>7
<1> QED
    BY <1>8 DEF G

\* Names are given to every path, and no name to two.
LEMMA IdentitiesApart ==
    ASSUME NEW declared, NEW owner, DOMAIN declared \subseteq Path,
           \A p \in DOMAIN declared : declared[p] \in Name \ {Empty},
           \A p \in DOMAIN declared : owner[p] \in DOMAIN declared /\ declared[owner[p]] = declared[p],
           \A p, q \in DOMAIN declared : declared[p] = declared[q] => owner[p] = owner[q]
    PROVE  LET desired == Identities(declared, owner) IN
           /\ \A p \in DOMAIN declared :
                 /\ desired[p] \in Name \ {Empty}
                 /\ owner[p] = p => desired[p] = declared[p]
                 /\ owner[p] # p => \A q \in DOMAIN declared : desired[p] # declared[q]
                 /\ owner[p] # p => \E n \in Nat : desired[p] = (declared[p] \o <<Digest[p]>>) \o <<n>>
           /\ \A p, q \in DOMAIN declared : p # q => desired[p] # desired[q]
<1> DEFINE D == DOMAIN declared
           desired == Identities(declared, owner)
           Taken(p) == Range(declared) \cup {desired[q] : q \in Before(declared, owner, p)}
           Base(p) == declared[p] \o <<Digest[p]>>
<1>1. D \subseteq Nat /\ IsFiniteSet(D)
    BY IndexAssumption, FS_CardinalityType, FS_Subset
<1>2. \A p \in D : desired[p] = IF owner[p] = p THEN declared[p] ELSE FirstFree(Base(p), Taken(p))
    <2>1. desired = [p \in D |-> Given(declared, owner, desired, p)]
        BY IdentitiesGiven
    <2> HIDE DEF desired
    <2> QED
        BY <2>1 DEF Given
<1> HIDE DEF desired
<1>3. \A p \in D : IsFiniteSet(Taken(p))
    <2> TAKE p \in D
    <2> DEFINE d == [q \in D |-> declared[q]]
               B == Before(declared, owner, p)
               e == [q \in B |-> desired[q]]
    <2>1. d \in Surjection(D, Range(declared))
        BY DEF Surjection, Range
    <2>2. B \subseteq D /\ IsFiniteSet(B)
        BY <1>1, FS_Subset DEF Before
    <2>3. e \in Surjection(B, {desired[q] : q \in B})
        BY DEF Surjection
    <2>4. IsFiniteSet(Range(declared)) /\ IsFiniteSet({desired[q] : q \in B})
        <3> HIDE DEF B, d, e, D
        <3> QED
            BY <1>1, <2>1, <2>2, <2>3, FS_Surjection
    <2> QED
        BY <2>4, FS_Union
<1>4. \A p \in D : Base(p) \in Name
    <2> TAKE p \in D
    <2>1. Digest[p] \in Digests
        BY IndexAssumption DEF Digests
    <2>2. Digest[p] \in Symbol
        BY <2>1 DEF Symbol
    <2>3. declared[p] \in Seq(Symbol) /\ <<Digest[p]>> \in Seq(Symbol)
        BY <2>2 DEF Name
    <2> QED
        BY <2>3, ConcatProperties DEF Name
<1>5. ASSUME NEW p \in D, owner[p] # p
      PROVE  /\ desired[p] \in Name \ {Empty} /\ desired[p] \notin Taken(p)
             /\ \E n \in Nat : desired[p] = Base(p) \o <<n>>
    <2>1. desired[p] = FirstFree(Base(p), Taken(p)) /\ Base(p) \in Name /\ IsFiniteSet(Taken(p))
        BY <1>2, <1>3, <1>4, <1>5
    <2> HIDE DEF Base, Taken
    <2>2. PICK n \in Nat : FirstFree(Base(p), Taken(p)) = Base(p) \o <<n>> /\ Base(p) \o <<n>> \notin Taken(p)
        BY <2>1, FirstFreeIsFree
    <2>3. Base(p) \o <<n>> \in Name \ {Empty}
        BY <2>1, NumbersApart
    <2>4. desired[p] = Base(p) \o <<n>>
        BY <2>1, <2>2
    <2> QED
        BY <2>2, <2>3, <2>4
<1>6. ASSUME NEW p \in D, owner[p] # p, NEW q \in D
      PROVE  desired[p] # declared[q] /\ (owner[q] # q /\ q < p => desired[p] # desired[q])
    <2>1. desired[p] \notin Taken(p)
        BY <1>5, <1>6
    <2>2. declared[q] \in Range(declared)
        BY DEF Range
    <2>3. owner[q] # q /\ q < p => q \in Before(declared, owner, p)
        BY DEF Before
    <2> QED
        BY <2>1, <2>2, <2>3
<1>7. \A p \in D : owner[p] = p => desired[p] = declared[p]
    BY <1>2
<1>8. ASSUME NEW p \in D, NEW q \in D, p # q PROVE desired[p] # desired[q]
    <2>1. CASE owner[p] = p /\ owner[q] = q
        BY <1>7, <1>8, <2>1
    <2>2. CASE owner[p] = p /\ owner[q] # q
        BY <1>6, <1>7, <2>2
    <2>3. CASE owner[p] # p /\ owner[q] = q
        BY <1>6, <1>7, <2>3
    <2>4. CASE owner[p] # p /\ owner[q] # q
        <3>1. p < q \/ q < p
            BY <1>1, <1>8
        <3> QED
            BY <1>6, <2>4, <3>1
    <2> QED
        BY <2>1, <2>2, <2>3, <2>4
<1>9. \A p \in D : desired[p] \in Name \ {Empty}
    BY <1>5, <1>7
<1>10. \A p \in D : owner[p] # p => /\ \A q \in D : desired[p] # declared[q]
                                    /\ \E n \in Nat : desired[p] = Base(p) \o <<n>>
    BY <1>5, <1>6
<1> QED
    BY <1>7, <1>8, <1>9, <1>10 DEF desired
-----------------------------------------------------------------------------
(* The invariant.                                                          *)

Declarable == {DeclaredId[c] : c \in Content}

Answer == [state : {"todo", "stat", "absent", "unchanged", "refreshed",
                    "changed", "reread", "parsed", "raced"},
           stat : State \cup {NoStat}, content : Content \cup {None},
           declared : Declarable \cup {Empty}]

TypeInv ==
    /\ disk \in [Path -> File \cup {None}]
    /\ changes \in 1 .. MaxChanges
    /\ rows \in [Path -> Note \cup {None}]
    /\ manifest \in [Path -> State \cup {None}]
    /\ scan \in [Path -> Answer]
    /\ parser \in BOOLEAN /\ forced \in BOOLEAN /\ rebuilding \in BOOLEAN
    /\ current \in BOOLEAN /\ spoilt \in BOOLEAN
    /\ pc \in {"idle", "scan", "reread"}
    /\ \A p \in Path : disk[p] # None => disk[p].ctime \in 1 .. changes
    /\ \A p \in Path : manifest[p] # None => manifest[p].ctime =< changes

\* An identity is the one the note declares, or made of that.
MadeOf(id, declared, p) ==
    id = declared \/ \E n \in Nat : id = (declared \o <<Digest[p]>>) \o <<n>>

\* A row whose manifest has the ctime of the file holds the content of the file, unless a
\* note was edited while it was read again.
RowInv(p) ==
    rows[p] # None =>
        /\ manifest[p] # None
        /\ rows[p].id # Empty
        /\ rows[p].declared \in Declarable
        /\ MadeOf(rows[p].id, rows[p].declared, p)
        /\ parser => rows[p].unsafe = (rows[p].content \notin Safe)
        /\ ~spoilt =>
              /\ rows[p].declared = DeclaredId[rows[p].content]
              /\ disk[p] # None /\ manifest[p].ctime = disk[p].ctime
                    => rows[p].content = disk[p].content

\* What the refresh knows of a path is of the file that had the ctime in its stat.
ScanInv(p) ==
    LET s == scan[p]
        asScanned == (~spoilt \/ forced) /\ disk[p] # None /\ disk[p].ctime = s.stat.ctime
    IN
    /\ pc = "scan" => s.state \in {"todo", "stat", "absent", "unchanged", "refreshed", "changed"}
    /\ pc = "reread" => s.state \notin {"todo", "stat"}
    /\ s.state \notin {"todo", "absent"} => s.stat \in State /\ s.stat.ctime =< changes
    /\ s.state \notin {"todo", "absent", "stat"} => s.declared \in Declarable
    /\ s.state \in {"unchanged", "refreshed", "changed", "parsed", "raced"} => s.content \in Content
    /\ s.state \in {"unchanged", "refreshed", "reread", "parsed"} =>
          rows[p] # None /\ ~forced /\ ~rebuilding
    /\ s.state \in {"unchanged", "refreshed"} => s.content = rows[p].content
    /\ s.state = "unchanged" => s.stat = manifest[p]
    /\ s.state \in {"unchanged", "refreshed", "changed"} /\ (~spoilt \/ forced) =>
          s.declared = DeclaredId[s.content]
    /\ s.state \in {"unchanged", "refreshed", "changed", "parsed"} /\ asScanned =>
          s.content = disk[p].content
    /\ s.state \in {"reread", "parsed"} /\ asScanned => s.declared = DeclaredId[disk[p].content]
    /\ current =>
          /\ s.state = "absent" => disk[p] = None
          /\ s.state \notin {"todo", "absent"} =>
                disk[p] # None /\ s.stat = Stat(p) /\ s.state # "raced"

RefreshInv ==
    /\ rebuilding \/ ~parser => forced
    /\ \A p \in Path : ScanInv(p)

\* Rows that will be kept already have the identity they shall have.
DesiredInv == \A p \in Path : scan[p].state \in {"unchanged", "refreshed"} => rows[p].id = Desired[p]

IndexIInv ==
    /\ TypeInv
    /\ \A p \in Path : RowInv(p)
    /\ RowIdsUnique
    /\ links = Resolved(rows)
    /\ pc # "idle" => RefreshInv
    /\ pc = "reread" => DesiredInv
    /\ pc = "idle" /\ current /\ ~spoilt => NotesExact


-----------------------------------------------------------------------------
(* What the notes shall be called.                                         *)

USE DEF Answer

(* A set of one element has an element. *)
LEMMA SingleIsInhabited ==
    ASSUME NEW S, Cardinality(S) = 1
    PROVE  S # {}
<1>1. Cardinality({}) = 0
    BY FS_EmptySet
<1>2. S = {} => Cardinality(S) = 0
    BY <1>1, Zenon
<1> QED
    BY <1>2

LEMMA FirstIsIn == ASSUME NEW S \in SUBSET Path, S # {} PROVE First(S) \in S
<1>1. S \in SUBSET Nat
    BY IndexAssumption, FS_CardinalityType
<1>2. \E x \in S : \A y \in S : x =< y
    BY <1>1, LeastOfNaturals
<1> QED
    BY <1>2 DEF First

LEMMA OwnerIsPresent ==
    ASSUME NEW p \in Present
    PROVE  LET o == Owner(scan[p].declared) IN
           o \in Present /\ scan[o].declared = scan[p].declared
<1> DEFINE d == scan[p].declared
           paths == {q \in Present : scan[q].declared = d}
           holders == {q \in paths : Existing[q] # None /\ Existing[q].id = d}
           S == IF holders # {} THEN holders ELSE paths
<1>1. p \in paths /\ paths \subseteq Path
    BY DEF Present
<1>2. S # {} /\ S \subseteq paths /\ S \subseteq Path
    BY <1>1
<1>3. First(S) \in S
    <2> HIDE DEF S
    <2> QED
        BY <1>2, FirstIsIn
<1>4. Owner(d) = First(S)
    BY DEF Owner
<1>5. Owner(d) \in paths
    <2> HIDE DEF S, paths
    <2> QED
        BY <1>2, <1>3, <1>4
<1> QED
    BY <1>5

LEMMA DesiredApart ==
    ASSUME \A p \in Present : scan[p].declared \in Declarable
    PROVE  /\ \A p \in Present : /\ Desired[p] \in Name \ {Empty}
                                 /\ MadeOf(Desired[p], scan[p].declared, p)
                                 /\ Owner(scan[p].declared) = p => Desired[p] = scan[p].declared
           /\ \A p, q \in Present : p # q => Desired[p] # Desired[q]
<1> DEFINE declared == [p \in Present |-> scan[p].declared]
           owner == [p \in Present |-> Owner(scan[p].declared)]
<1>1. DOMAIN declared = Present /\ Present \subseteq Path
    BY DEF Present
<1>2. \A p \in Present : declared[p] = scan[p].declared /\ owner[p] = Owner(scan[p].declared)
    OBVIOUS
<1>3. \A p \in Present : declared[p] \in Name \ {Empty}
    BY <1>2, DeclaredIsName DEF Declarable
<1>4. \A p \in Present : owner[p] \in Present /\ declared[owner[p]] = declared[p]
    BY <1>2, OwnerIsPresent
<1>5. \A p, q \in Present : declared[p] = declared[q] => owner[p] = owner[q]
    BY <1>2
<1>6. Desired = Identities(declared, owner)
    BY DEF Desired
<1> HIDE DEF declared, owner
<1>7. /\ \A p \in Present : /\ Desired[p] \in Name \ {Empty}
                            /\ owner[p] = p => Desired[p] = declared[p]
                            /\ owner[p] # p => \E n \in Nat : Desired[p] = (declared[p] \o <<Digest[p]>>) \o <<n>>
      /\ \A p, q \in Present : p # q => Desired[p] # Desired[q]
    BY <1>1, <1>3, <1>4, <1>5, <1>6, IdentitiesApart
<1> QED
    BY <1>2, <1>7 DEF MadeOf

\* Nothing that a refresh does after the scan changes what the notes shall be called.
LEMMA DesiredStays ==
    ASSUME Present' = Present, \A p \in Present : scan'[p].declared = scan[p].declared,
           UNCHANGED <<rows, rebuilding>>
    PROVE  Desired' = Desired
<1>1. Existing' = Existing
    BY DEF Existing
<1>2. \A p \in Present : Owner(scan[p].declared)' = Owner(scan[p].declared)
    <2> TAKE p \in Present
    <2> DEFINE P == {q \in Present : scan[q].declared = scan[p].declared}
               H == {q \in P : Existing[q] # None /\ Existing[q].id = scan[p].declared}
    <2>1. P' = P
        OBVIOUS
    <2>2. H' = H
        BY <1>1, <2>1
    <2> QED
        BY <2>1, <2>2 DEF Owner
<1>3. [p \in Present |-> scan[p].declared]' = [p \in Present |-> scan[p].declared]
    OBVIOUS
<1>4. [p \in Present |-> Owner(scan[p].declared)]' = [p \in Present |-> Owner(scan[p].declared)]
    BY <1>2
<1> QED
    BY <1>3, <1>4 DEF Desired
-----------------------------------------------------------------------------
(* Every step keeps the invariant.                                         *)

LEMMA Numbers == Path \subseteq Nat /\ MaxChanges \in Nat /\ \A c \in Content : DeclaredId[c] \in Name \ {Empty}
    BY IndexAssumption, FS_CardinalityType, DeclaredIsName

LEMMA IndexInitially == Init => IndexIInv
<1> SUFFICES ASSUME Init PROVE IndexIInv
    OBVIOUS
<1> USE DEF Init
<1>1. TypeInv
    <2>1. disk \in [Path -> File \cup {None}] /\ \A p \in Path : disk[p] # None => disk[p].ctime = 1
        BY DEF File
    <2>2. Unscanned \in [state : {"todo"}, stat : State \cup {NoStat}, content : Content \cup {None},
                         declared : Declarable \cup {Empty}]
        BY DEF Unscanned
    <2>3. rows \in [Path -> Note \cup {None}] /\ manifest \in [Path -> State \cup {None}]
        OBVIOUS
    <2>4. scan \in [Path -> Answer]
        <3> HIDE DEF Init
        <3>1. scan = [p \in Path |-> Unscanned]
            BY DEF Init
        <3> QED
            BY <2>2, <3>1
    <2>5. changes = 1 /\ 1 \in 1 .. MaxChanges
        BY Numbers, IndexAssumption
    <2>6. /\ \A p \in Path : disk[p] # None => disk[p].ctime \in 1 .. changes
          /\ \A p \in Path : manifest[p] # None => manifest[p].ctime =< changes
        BY <2>1, <2>5
    <2>7. /\ parser \in BOOLEAN /\ forced \in BOOLEAN /\ rebuilding \in BOOLEAN
          /\ current \in BOOLEAN /\ spoilt \in BOOLEAN
          /\ pc \in {"idle", "scan", "reread"}
        OBVIOUS
    <2> HIDE DEF Init
    <2> QED
        BY <2>1, <2>3, <2>4, <2>5, <2>6, <2>7 DEF TypeInv
<1>2. \A p \in Path : RowInv(p)
    BY DEF RowInv
<1>3. RowIdsUnique
    BY DEF RowIdsUnique
<1>4. Resolved(rows) = {}
    BY DEF Resolved, Uses
<1> QED
    BY <1>1, <1>2, <1>3, <1>4 DEF IndexIInv

\* What an editor, a sync tool or a snapshot does to a file.
LEMMA FilesKeep ==
    ASSUME IndexIInv, Changed, NEW p \in Path, NEW f \in File \cup {None},
           f # None => f.ctime = changes + 1, disk' = [disk EXCEPT ![p] = f]
    PROVE  IndexIInv'
<1> USE DEF Changed, index
<1>0. /\ disk'[p] = f /\ \A q \in Path : q # p => disk'[q] = disk[q]
      /\ changes' = changes + 1 /\ changes \in Nat /\ ~current'
      /\ UNCHANGED <<rows, links, manifest, parser, pc, forced, rebuilding, scan, spoilt>>
    BY DEF IndexIInv, TypeInv
<1>1. TypeInv'
    <2>1. TypeInv
        BY DEF IndexIInv
    <2>2. disk' \in [Path -> File \cup {None}]
        BY <2>1 DEF TypeInv
    <2>3. changes' \in 1 .. MaxChanges
        BY <2>1, <1>0, Numbers DEF TypeInv
    <2>4. \A q \in Path : disk'[q] # None => disk'[q].ctime \in 1 .. changes'
        BY <2>1, <1>0, Numbers DEF TypeInv
    <2>5. \A q \in Path : manifest[q] # None => manifest[q].ctime =< changes'
        BY <2>1, <1>0 DEF TypeInv, State
    <2>6. current' \in BOOLEAN
        OBVIOUS
    <2> QED
        BY <2>1, <2>2, <2>3, <2>4, <2>5, <2>6, <1>0 DEF TypeInv
<1>2. ASSUME NEW q \in Path PROVE RowInv(q)'
    <2>1. RowInv(q) /\ (rows[q] # None => manifest[q] # None /\ manifest[q].ctime =< changes /\ manifest[q].ctime \in Nat)
        BY DEF IndexIInv, TypeInv, RowInv, State
    <2>2. CASE q = p
        BY <1>0, <2>1, <2>2 DEF RowInv
    <2>3. CASE q # p
        BY <1>0, <2>1, <2>3 DEF RowInv
    <2> QED
        BY <2>2, <2>3
<1>3. RowIdsUnique' /\ links' = Resolved(rows)'
    BY <1>0 DEF IndexIInv, RowIdsUnique, Resolved, Uses
<1>4. pc # "idle" => RefreshInv'
    <2> SUFFICES ASSUME pc # "idle", NEW q \in Path PROVE ScanInv(q)'
        BY <1>0 DEF IndexIInv, RefreshInv
    <2>1. ScanInv(q)
        BY DEF IndexIInv, RefreshInv
    <2>2. CASE q = p
        BY <1>0, <2>1, <2>2 DEF ScanInv, State
    <2>3. CASE q # p
        BY <1>0, <2>1, <2>3 DEF ScanInv, State
    <2> QED
        BY <2>2, <2>3
<1>5. pc = "reread" => DesiredInv'
    <2>1. Desired' = Desired
        BY <1>0, DesiredStays DEF Present
    <2> QED
        BY <1>0, <2>1 DEF IndexIInv, DesiredInv
<1> QED
    BY <1>0, <1>1, <1>2, <1>3, <1>4, <1>5 DEF IndexIInv

\* A step of the refresh that finds out something about one path.
LEMMA ScanKeeps ==
    ASSUME IndexIInv, pc # "idle", NEW p \in Path, NEW s,
           scan' = [scan EXCEPT ![p] = s],
           UNCHANGED <<disk, changes, index, pc, forced, rebuilding, current, spoilt>>,
           s \in [state : {"absent", "stat", "unchanged", "refreshed", "changed", "parsed", "raced"},
                  stat : State \cup {NoStat}, content : Content \cup {None},
                  declared : Declarable \cup {Empty}],
           ScanInv(p)',
           pc = "reread" => /\ scan[p].state # "absent" /\ s.state \notin {"absent", "unchanged", "refreshed"}
                            /\ s.declared = scan[p].declared
    PROVE  IndexIInv'
<1> USE DEF index
<1>0. /\ scan \in [Path -> Answer]
      /\ scan'[p] = s /\ \A q \in Path : q # p => scan'[q] = scan[q]
    BY DEF IndexIInv, TypeInv
<1>1. TypeInv'
    BY <1>0 DEF IndexIInv, TypeInv
<1>2. \A q \in Path : RowInv(q)'
    BY DEF IndexIInv, RowInv
<1>3. RowIdsUnique' /\ links' = Resolved(rows)'
    BY DEF IndexIInv, RowIdsUnique, Resolved, Uses
<1>4. RefreshInv'
    <2> SUFFICES ASSUME NEW q \in Path, q # p PROVE ScanInv(q)'
        BY DEF IndexIInv, RefreshInv
    <2>1. ScanInv(q)
        BY DEF IndexIInv, RefreshInv
    <2> QED
        BY <1>0, <2>1 DEF ScanInv, Stat
<1>5. ASSUME pc = "reread" PROVE DesiredInv'
    <2>1. Present' = Present /\ \A q \in Present : scan'[q].declared = scan[q].declared
        BY <1>0, <1>5 DEF Present
    <2>2. Desired' = Desired
        BY <2>1, DesiredStays
    <2> QED
        BY <1>0, <1>5, <2>2 DEF IndexIInv, DesiredInv
<1> QED
    BY <1>1, <1>2, <1>3, <1>4, <1>5 DEF IndexIInv
LEMMA UpgradeKeeps == ASSUME IndexIInv, NEW keep \in BOOLEAN, OpenAfterUpgrade(keep) PROVE IndexIInv'
<1> USE DEF OpenAfterUpgrade
<1>0. TypeInv /\ \A p \in Path : RowInv(p)
    BY DEF IndexIInv
<1>1. \A p \in Path :
         /\ rows'[p] # None => /\ rows[p] # None /\ rows'[p] \in Note /\ rows'[p].unsafe
                               /\ rows'[p].id = rows[p].id /\ rows'[p].declared = rows[p].declared
                               /\ rows'[p].content = rows[p].content
         /\ keep /\ rows[p] # None => rows'[p] # None
         /\ rows'[p] \in Note \cup {None}
    BY <1>0, IndexAssumption DEF TypeInv, Note
<1>2. \A p \in Path :
         /\ manifest'[p] # None => /\ manifest'[p] \in State /\ manifest'[p].ctime = 0
         /\ keep /\ manifest[p] # None => manifest'[p] # None
         /\ manifest'[p] \in State \cup {None}
    BY <1>0, IndexAssumption DEF TypeInv, State
<1>3. TypeInv'
    <2>1. rows' \in [Path -> Note \cup {None}] /\ manifest' \in [Path -> State \cup {None}]
        BY <1>1, <1>2
    <2>2. \A p \in Path : manifest'[p] # None => manifest'[p].ctime =< changes
        BY <1>0, <1>2 DEF TypeInv
    <2> QED
        BY <1>0, <2>1, <2>2 DEF TypeInv
<1>4. ASSUME NEW p \in Path PROVE RowInv(p)'
    <2>1. rows'[p] # None => keep /\ manifest'[p] # None /\ manifest'[p].ctime = 0
        BY <1>0, <1>1, <1>2 DEF RowInv
    <2>2. disk[p] # None => disk[p].ctime # 0
        BY <1>0 DEF TypeInv
    <2> QED
        BY <1>0, <1>1, <2>1, <2>2 DEF RowInv
<1>5. RowIdsUnique'
    BY <1>1 DEF IndexIInv, RowIdsUnique
<1>6. links' = Resolved(rows)'
    <2>1. CASE keep
        <3>1. \A p \in Path : (rows'[p] = None) = (rows[p] = None)
            BY <1>1, <2>1
        <3>2. \A t \in Text : Resolve(rows, t)' = Resolve(rows, t)
            <4> TAKE t \in Text
            <4>1. Named(rows, t)' = Named(rows, t) /\ Aliased(rows, t)' = Aliased(rows, t)
                BY <1>1, <3>1 DEF Named, Aliased
            <4>2. ASSUME NEW S \in SUBSET {p \in Path : rows[p] # None} PROVE Only(rows, S)' = Only(rows, S)
                <5>1. CASE Cardinality(S) = 1
                    <6>1. S # {}
                        BY <5>1, SingleIsInhabited
                    <6>2. First(S) \in S
                        BY <6>1, FirstIsIn
                    <6> QED
                        BY <1>1, <3>1, <5>1, <6>2 DEF Only
                <5> QED
                    BY <5>1 DEF Only
            <4>3. Only(rows, Named(rows, t))' = Only(rows, Named(rows, t))
                  /\ Only(rows, Aliased(rows, t))' = Only(rows, Aliased(rows, t))
                BY <4>1, <4>2 DEF Named, Aliased
            <4>4. PathOf[t] # NoPath => rows'[PathOf[t]].id = rows[PathOf[t]].id \/ rows[PathOf[t]] = None
                BY <1>1, <3>1, IndexAssumption
            <4>5. PathOf[t] # NoPath => (rows'[PathOf[t]] = None) = (rows[PathOf[t]] = None)
                BY <3>1, IndexAssumption
            <4> HIDE DEF OpenAfterUpgrade
            <4> QED
                BY <4>1, <4>3, <4>4, <4>5 DEF Resolve
        <3>3. Uses(rows)' = Uses(rows) /\ \A x \in Uses(rows) : rows'[x[1]].id = rows[x[1]].id /\ x[2] \in Text
            BY <1>1, <3>1 DEF Uses
        <3>4. Resolved(rows)' = Resolved(rows)
            BY <3>2, <3>3 DEF Resolved
        <3> QED
            BY <2>1, <3>4 DEF IndexIInv
    <2>2. CASE ~keep
        BY <2>2 DEF Resolved, Uses
    <2> QED
        BY <2>1, <2>2
<1> QED
    BY <1>3, <1>4, <1>5, <1>6 DEF IndexIInv

LEMMA StartKeeps ==
    ASSUME IndexIInv, NEW force \in BOOLEAN, NEW rebuild \in BOOLEAN, Refresh(force, rebuild)
    PROVE  IndexIInv'
<1> USE DEF Refresh, index
<1>0. TypeInv /\ \A p \in Path : RowInv(p)
    BY DEF IndexIInv
<1>1. TypeInv'
    <2>1. scan' \in [Path -> Answer]
        BY DEF Unscanned
    <2> QED
        BY <1>0, <2>1 DEF TypeInv
<1>2. \A p \in Path : RowInv(p)'
    BY <1>0 DEF RowInv
<1>3. RowIdsUnique' /\ links' = Resolved(rows)'
    BY DEF IndexIInv, RowIdsUnique, Resolved, Uses
<1>4. RefreshInv'
    BY DEF RefreshInv, ScanInv, Unscanned
<1> QED
    BY <1>1, <1>2, <1>3, <1>4 DEF IndexIInv

LEMMA FailKeeps == ASSUME IndexIInv, Fail PROVE IndexIInv'
<1> USE DEF Fail, Close, index
<1>0. TypeInv /\ \A p \in Path : RowInv(p)
    BY DEF IndexIInv
<1>1. TypeInv'
    <2>1. scan' \in [Path -> Answer]
        BY DEF Unscanned
    <2> QED
        BY <1>0, <2>1 DEF TypeInv
<1>2. \A p \in Path : RowInv(p)'
    BY <1>0 DEF RowInv
<1>3. RowIdsUnique' /\ links' = Resolved(rows)'
    BY DEF IndexIInv, RowIdsUnique, Resolved, Uses
<1> QED
    BY <1>1, <1>2, <1>3 DEF IndexIInv
\* What the invariant says of one path while a refresh runs.
LEMMA PathFacts ==
    ASSUME IndexIInv, pc # "idle", NEW p \in Path
    PROVE  /\ RowInv(p) /\ ScanInv(p)
           /\ disk[p] \in File \cup {None} /\ rows[p] \in Note \cup {None} /\ manifest[p] \in State \cup {None}
           /\ scan[p] \in Answer
           /\ disk[p] # None => Stat(p) \in State /\ Stat(p).ctime = disk[p].ctime /\ disk[p].ctime =< changes
           /\ rebuilding => forced
           /\ changes \in Nat
<1>1. TypeInv /\ RowInv(p) /\ RefreshInv
    BY DEF IndexIInv
<1>2. disk[p] \in File \cup {None} /\ rows[p] \in Note \cup {None} /\ manifest[p] \in State \cup {None}
    BY <1>1 DEF TypeInv
<1>3. disk[p] # None => Stat(p) \in State /\ Stat(p).ctime = disk[p].ctime /\ disk[p].ctime =< changes
    BY <1>1, <1>2 DEF TypeInv, Stat, State, File
<1>4. changes \in Nat
    BY <1>1 DEF TypeInv
<1>5. ScanInv(p) /\ (rebuilding => forced)
    BY <1>1 DEF RefreshInv
<1>6. scan[p] \in Answer
    BY <1>1 DEF TypeInv
<1> QED
    BY <1>1, <1>2, <1>3, <1>4, <1>5, <1>6

LEMMA VisitKeeps == ASSUME IndexIInv, NEW p \in Path, Visit(p) PROVE IndexIInv'
<1> DEFINE s == scan'[p]
<1> USE DEF index
<1>1. pc = "scan" /\ UNCHANGED <<disk, changes, index, pc, forced, rebuilding, current, spoilt>>
    BY DEF Visit, Scanning
<1>2. /\ RowInv(p)
      /\ disk[p] \in File \cup {None} /\ rows[p] \in Note \cup {None} /\ manifest[p] \in State \cup {None}
      /\ disk[p] # None => Stat(p) \in State /\ Stat(p).ctime = disk[p].ctime /\ disk[p].ctime =< changes
      /\ rebuilding => forced
    BY <1>1, PathFacts
<1>3. scan' = [scan EXCEPT ![p] = s] /\ scan \in [Path -> Answer]
    BY DEF Visit, Found, IndexIInv, TypeInv
<1>4. CASE disk[p] = None
    <2>1. s = [state |-> "absent", stat |-> NoStat, content |-> None, declared |-> Empty]
        BY <1>3, <1>4 DEF Visit, Found
    <2>2. ScanInv(p)'
        BY <1>1, <1>4, <2>1 DEF ScanInv
    <2> HIDE DEF s
    <2> QED
        BY <1>1, <1>3, <2>1, <2>2, ScanKeeps
<1>5. CASE disk[p] # None /\ Same(p)
    <2>1. s = [state |-> "unchanged", stat |-> Stat(p), content |-> Existing[p].content,
               declared |-> Existing[p].declared]
        BY <1>3, <1>5 DEF Visit, Found
    <2>2. /\ ~rebuilding /\ ~forced /\ rows[p] # None /\ manifest[p] # None
          /\ Existing[p] = rows[p] /\ manifest[p].meta = disk[p].meta /\ manifest[p].ctime = disk[p].ctime
        BY <1>5 DEF Same, SameInode, Comparable, Existing, Cached
    <2>3. manifest[p] = Stat(p)
        BY <1>2, <2>2 DEF State, Stat
    <2>4. s \in [state : {"unchanged"}, stat : State, content : Content, declared : Declarable]
        BY <1>2, <1>5, <2>1, <2>2 DEF RowInv, Note
    <2>5. ScanInv(p)'
        BY <1>1, <1>2, <1>5, <2>1, <2>2, <2>3, <2>4 DEF ScanInv, RowInv, Stat
    <2> HIDE DEF s
    <2> QED
        BY <1>1, <1>3, <2>4, <2>5, ScanKeeps
<1>6. CASE disk[p] # None /\ ~Same(p)
    <2>1. s = [state |-> "stat", stat |-> Stat(p), content |-> None, declared |-> Empty]
        BY <1>3, <1>6 DEF Visit, Found
    <2>2. ScanInv(p)'
        BY <1>1, <1>2, <1>6, <2>1 DEF ScanInv, Stat
    <2> HIDE DEF s
    <2> QED
        BY <1>1, <1>2, <1>3, <1>6, <2>1, <2>2, ScanKeeps
<1> QED
    BY <1>4, <1>5, <1>6

LEMMA ReadKeeps == ASSUME IndexIInv, NEW p \in Path, Read(p) PROVE IndexIInv'
<1> DEFINE s == scan'[p]
           same == Comparable(p) /\ disk[p].content = Existing[p].content
<1> USE DEF index
<1>1. /\ pc = "scan" /\ UNCHANGED <<disk, changes, index, pc, forced, rebuilding, current, spoilt>>
      /\ disk[p] # None /\ scan[p].state = "stat"
    BY DEF Read
<1>2. /\ RowInv(p) /\ ScanInv(p)
      /\ disk[p] \in File \cup {None} /\ rows[p] \in Note \cup {None}
      /\ scan[p] \in Answer
      /\ rebuilding => forced
    BY <1>1, PathFacts
<1>3. scan' = [scan EXCEPT ![p] = s] /\ scan \in [Path -> Answer]
    BY DEF Read, IndexIInv, TypeInv
<1>4. /\ s.state = IF same THEN "refreshed" ELSE "changed"
      /\ s.stat = scan[p].stat /\ s.content = disk[p].content
      /\ s.declared \in {DeclaredId[disk[p].content]} \cup (IF same THEN {Existing[p].declared} ELSE {})
      /\ s = [state |-> s.state, stat |-> s.stat, content |-> s.content, declared |-> s.declared]
    BY <1>3 DEF Read
<1>5. disk[p].content \in Content /\ DeclaredId[disk[p].content] \in Declarable
    BY <1>1, <1>2 DEF File, Declarable
<1>6. same => /\ ~rebuilding /\ ~forced /\ rows[p] # None /\ manifest[p] # None
              /\ Existing[p] = rows[p] /\ rows[p].content = disk[p].content
              /\ rows[p].declared \in Declarable
              /\ ~spoilt => rows[p].declared = DeclaredId[disk[p].content]
    BY <1>2 DEF Comparable, Existing, Cached, RowInv
<1> HIDE DEF same
<1>7. s.declared \in Declarable /\ (~spoilt \/ forced => s.declared = DeclaredId[disk[p].content])
    BY <1>4, <1>5, <1>6
<1>8. s \in [state : {"refreshed", "changed"}, stat : State \cup {NoStat}, content : Content, declared : Declarable]
    BY <1>2, <1>4, <1>5, <1>7
<1>9. ScanInv(p)'
    BY <1>1, <1>2, <1>4, <1>5, <1>6, <1>7 DEF ScanInv, Stat
<1> HIDE DEF s
<1> QED
    BY <1>1, <1>3, <1>8, <1>9, ScanKeeps

LEMMA RereadParseKeeps == ASSUME IndexIInv, NEW p \in Path, RereadParse(p) PROVE IndexIInv'
<1> DEFINE s == scan'[p]
<1> USE DEF index
<1>1. /\ pc = "reread" /\ UNCHANGED <<disk, changes, index, pc, forced, rebuilding, current, spoilt>>
      /\ disk[p] # None /\ scan[p].state = "reread"
    BY DEF RereadParse
<1>2. /\ ScanInv(p)
      /\ disk[p] \in File \cup {None}
      /\ scan[p] \in Answer
    BY <1>1, PathFacts
<1>3. scan' = [scan EXCEPT ![p] = s] /\ scan \in [Path -> Answer]
    BY DEF RereadParse, IndexIInv, TypeInv
<1>4. s = [state |-> "parsed", stat |-> scan[p].stat, content |-> disk[p].content, declared |-> scan[p].declared]
    BY <1>2, <1>3 DEF RereadParse
<1>5. disk[p].content \in Content
    BY <1>1, <1>2 DEF File
<1>6. ScanInv(p)'
    BY <1>1, <1>2, <1>4, <1>5 DEF ScanInv, Stat
<1> HIDE DEF s
<1> QED
    BY <1>1, <1>2, <1>3, <1>4, <1>5, <1>6, ScanKeeps

LEMMA RereadStatKeeps == ASSUME IndexIInv, NEW p \in Path, RereadStat(p) PROVE IndexIInv'
<1> DEFINE s == scan'[p]
<1> USE DEF index
<1>1. /\ pc = "reread" /\ UNCHANGED <<disk, changes, index, pc, forced, rebuilding, current, spoilt>>
      /\ disk[p] # None /\ scan[p].state = "parsed"
    BY DEF RereadStat
<1>2. /\ ScanInv(p)
      /\ disk[p] # None => Stat(p) \in State /\ Stat(p).ctime = disk[p].ctime /\ disk[p].ctime =< changes
      /\ scan[p] \in Answer
    BY <1>1, PathFacts
<1>3. scan' = [scan EXCEPT ![p] = s] /\ scan \in [Path -> Answer]
    BY DEF RereadStat, IndexIInv, TypeInv
<1>4. s = [state |-> IF Stat(p) = scan[p].stat THEN "changed" ELSE "raced", stat |-> Stat(p),
           content |-> scan[p].content, declared |-> scan[p].declared]
    BY <1>2, <1>3 DEF RereadStat
<1>5. ScanInv(p)'
    BY <1>1, <1>2, <1>4 DEF ScanInv, Stat
<1>6. s \in [state : {"changed", "raced"}, stat : State, content : Content, declared : Declarable]
    BY <1>1, <1>2, <1>4 DEF ScanInv
<1> HIDE DEF s
<1> QED
    BY <1>1, <1>2, <1>3, <1>4, <1>5, <1>6, ScanKeeps
LEMMA AssignKeeps == ASSUME IndexIInv, Assign PROVE IndexIInv'
<1> USE DEF index
<1>1. /\ pc = "scan" /\ pc' = "reread" /\ UNCHANGED <<disk, changes, index, forced, rebuilding, current, spoilt>>
      /\ \A p \in Path : scan[p].state \notin {"todo", "stat"}
    BY DEF Assign, Pending
<1>2. ASSUME NEW p \in Path
      PROVE  /\ scan[p].state \in {"unchanged", "refreshed"} /\ Existing[p].id # Desired[p]
                    => scan'[p] = [scan[p] EXCEPT !.state = "reread", !.content = None]
             /\ ~(scan[p].state \in {"unchanged", "refreshed"} /\ Existing[p].id # Desired[p])
                    => scan'[p] = scan[p]
    BY DEF Assign, Present, Rereads
<1>3. ASSUME NEW p \in Path
      PROVE  /\ scan[p] \in Answer /\ scan'[p] \in Answer
             /\ scan'[p].declared = scan[p].declared
             /\ scan'[p].state = "absent" <=> scan[p].state = "absent"
    <2>1. scan[p] \in Answer
        BY DEF IndexIInv, TypeInv
    <2>2. CASE scan[p].state \in {"unchanged", "refreshed"} /\ Existing[p].id # Desired[p]
        <3>1. scan'[p] = [state |-> "reread", stat |-> scan[p].stat, content |-> None,
                          declared |-> scan[p].declared]
            BY <1>2, <2>1, <2>2
        <3> QED
            BY <2>1, <2>2, <3>1
    <2>3. CASE ~(scan[p].state \in {"unchanged", "refreshed"} /\ Existing[p].id # Desired[p])
        BY <1>2, <2>1, <2>3
    <2> QED
        BY <2>2, <2>3
<1>4. TypeInv'
    <2>1. scan' \in [Path -> Answer]
        BY <1>3 DEF Assign
    <2> QED
        BY <1>1, <2>1 DEF IndexIInv, TypeInv
<1>5. (\A p \in Path : RowInv(p))' /\ RowIdsUnique' /\ links' = Resolved(rows)'
    BY <1>1 DEF IndexIInv, RowInv, RowIdsUnique, Resolved, Uses
<1>6. ASSUME NEW p \in Path PROVE ScanInv(p)'
    <2>1. /\ RowInv(p) /\ ScanInv(p) /\ scan[p] \in Answer
          /\ disk[p] \in File \cup {None}
        BY <1>1, PathFacts
    <2>2. CASE scan[p].state \in {"unchanged", "refreshed"} /\ Existing[p].id # Desired[p]
        <3>1. scan'[p] = [state |-> "reread", stat |-> scan[p].stat, content |-> None,
                          declared |-> scan[p].declared]
            BY <1>2, <2>1, <2>2
        <3> QED
            BY <1>1, <2>1, <2>2, <3>1 DEF ScanInv, Stat
    <2>3. CASE ~(scan[p].state \in {"unchanged", "refreshed"} /\ Existing[p].id # Desired[p])
        <3>1. scan'[p] = scan[p]
            BY <1>2, <2>3
        <3> QED
            BY <1>1, <2>1, <3>1 DEF ScanInv, Stat
    <2> QED
        BY <2>2, <2>3
<1>7. RefreshInv'
    BY <1>1, <1>6 DEF IndexIInv, RefreshInv
<1>8. DesiredInv'
    <2>1. Present' = Present /\ \A q \in Present : scan'[q].declared = scan[q].declared
        BY <1>3 DEF Present
    <2>2. Desired' = Desired
        BY <1>1, <2>1, DesiredStays
    <2>3. ASSUME NEW p \in Path, scan'[p].state \in {"unchanged", "refreshed"}
          PROVE  rows[p].id = Desired[p]
        <3>1. scan'[p] = scan[p] /\ Existing[p].id = Desired[p]
            BY <1>2, <1>3, <2>3
        <3>2. ~rebuilding
            BY <1>1, <2>3, <3>1, PathFacts DEF ScanInv
        <3> QED
            BY <3>1, <3>2 DEF Existing
    <2> QED
        BY <1>1, <2>2, <2>3 DEF DesiredInv
<1> QED
    BY <1>1, <1>4, <1>5, <1>7, <1>8 DEF IndexIInv

\* What a refresh leaves in the table.
LEMMA Applied ==
    ASSUME IndexIInv, Apply
    PROVE  /\ \A p \in Path : scan[p].state \in {"absent", "unchanged", "refreshed", "changed", "raced"}
           /\ \A p \in Path :
                 /\ scan[p].state = "absent" => rows'[p] = None /\ manifest'[p] = None
                 /\ scan[p].state \in {"changed", "raced"} => rows'[p] = Row(p) /\ manifest'[p] = scan[p].stat
                 /\ scan[p].state = "unchanged" => rows'[p] = rows[p] /\ manifest'[p] = manifest[p]
                 /\ scan[p].state = "refreshed" => rows'[p] = rows[p] /\ manifest'[p] = scan[p].stat
           /\ \A p \in Present : /\ Desired[p] \in Name \ {Empty}
                                 /\ MadeOf(Desired[p], scan[p].declared, p)
                                 /\ Owner(scan[p].declared) = p => Desired[p] = scan[p].declared
           /\ \A p, q \in Present : p # q => Desired[p] # Desired[q]
           /\ \A p \in Present : rows'[p] \in Note /\ rows'[p].id = Desired[p]
           /\ rows' \in [Path -> Note \cup {None}]
<1>1. \A p \in Path : ScanInv(p) /\ scan[p] \in Answer /\ rows[p] \in Note \cup {None}
    BY PathFacts DEF Apply
<1>2. \A p \in Path : scan[p].state \in {"absent", "unchanged", "refreshed", "changed", "raced"}
    BY <1>1 DEF Apply, Pending, ScanInv
<1>3. \A p \in Path :
                 /\ scan[p].state = "absent" => rows'[p] = None /\ manifest'[p] = None
                 /\ scan[p].state \in {"changed", "raced"} => rows'[p] = Row(p) /\ manifest'[p] = scan[p].stat
                 /\ scan[p].state = "unchanged" => rows'[p] = rows[p] /\ manifest'[p] = manifest[p]
                 /\ scan[p].state = "refreshed" => rows'[p] = rows[p] /\ manifest'[p] = scan[p].stat
    BY DEF Apply, Rewritten, Recorded
<1>4. \A p \in Present : scan[p].declared \in Declarable
    BY <1>1, <1>2 DEF Present, ScanInv
<1>5. /\ \A p \in Present : /\ Desired[p] \in Name \ {Empty}
                            /\ MadeOf(Desired[p], scan[p].declared, p)
                            /\ Owner(scan[p].declared) = p => Desired[p] = scan[p].declared
      /\ \A p, q \in Present : p # q => Desired[p] # Desired[q]
    BY <1>4, DesiredApart
<1>6. ASSUME NEW p \in Present PROVE rows'[p] \in Note /\ rows'[p].id = Desired[p]
    <2>1. p \in Path /\ scan[p].state # "absent"
        BY DEF Present
    <2>2. CASE scan[p].state \in {"changed", "raced"}
        <3>1. scan[p].declared \in Name /\ scan[p].content \in Content
            BY <1>1, <1>4, <2>1, <2>2, Numbers DEF ScanInv, Declarable
        <3>2. Row(p) \in Note /\ Row(p).id = Desired[p]
            BY <1>5, <3>1 DEF Row, Note
        <3> QED
            BY <1>3, <2>1, <2>2, <3>2
    <2>3. CASE scan[p].state \in {"unchanged", "refreshed"}
        <3>1. rows'[p] = rows[p] /\ rows[p] # None
            BY <1>1, <1>3, <2>1, <2>3 DEF ScanInv
        <3>2. rows[p].id = Desired[p]
            BY <2>1, <2>3 DEF IndexIInv, DesiredInv, Apply
        <3> QED
            BY <1>1, <2>1, <3>1, <3>2
    <2> QED
        BY <1>2, <2>1, <2>2, <2>3
<1>7. rows' \in [Path -> Note \cup {None}]
    <2>1. \A p \in Path : rows'[p] \in Note \cup {None}
        BY <1>3, <1>6 DEF Present
    <2>2. rows' = [p \in Path |-> rows'[p]]
        BY DEF Apply
    <2> QED
        BY <2>1, <2>2
<1> QED
    BY <1>2, <1>3, <1>5, <1>6, <1>7

LEMMA ApplyKeeps == ASSUME IndexIInv, Apply PROVE IndexIInv'
<1>1. /\ pc = "reread" /\ pc' = "idle" /\ ~forced' /\ ~rebuilding' /\ parser'
      /\ UNCHANGED <<disk, changes, current>>
      /\ scan' = [p \in Path |-> Unscanned]
      /\ spoilt' = ((spoilt /\ ~forced) \/ \E p \in Path : scan[p].state = "raced")
      /\ links' = Relink(rows')
      /\ rebuilding \/ ~parser => forced
    BY DEF Apply, Close, IndexIInv, RefreshInv
<1>2. /\ \A p \in Path : scan[p].state \in {"absent", "unchanged", "refreshed", "changed", "raced"}
      /\ \A p \in Path :
            /\ scan[p].state = "absent" => rows'[p] = None /\ manifest'[p] = None
            /\ scan[p].state \in {"changed", "raced"} => rows'[p] = Row(p) /\ manifest'[p] = scan[p].stat
            /\ scan[p].state = "unchanged" => rows'[p] = rows[p] /\ manifest'[p] = manifest[p]
            /\ scan[p].state = "refreshed" => rows'[p] = rows[p] /\ manifest'[p] = scan[p].stat
    BY Applied
<1>3. /\ \A p \in Path : scan[p].state # "absent" =>
            /\ rows'[p] \in Note /\ rows'[p].id = Desired[p] /\ Desired[p] # Empty
            /\ MadeOf(Desired[p], scan[p].declared, p)
      /\ \A p, q \in Path : scan[p].state # "absent" /\ scan[q].state # "absent" /\ p # q => Desired[p] # Desired[q]
      /\ rows' \in [Path -> Note \cup {None}]
    BY Applied DEF Present
<1>4. \A p \in Path : /\ RowInv(p) /\ ScanInv(p) /\ scan[p] \in Answer
                      /\ disk[p] \in File \cup {None} /\ rows[p] \in Note \cup {None}
                      /\ manifest[p] \in State \cup {None}
                      /\ disk[p] # None => Stat(p) \in State /\ Stat(p).ctime = disk[p].ctime
    BY <1>1, PathFacts
<1>5. \A p \in Path : scan[p].state # "absent" =>
          manifest'[p] = scan[p].stat /\ manifest'[p] \in State /\ manifest'[p].ctime =< changes
    BY <1>2, <1>4 DEF ScanInv
<1>6. TypeInv'
    <2>1. manifest' \in [Path -> State \cup {None}]
        <3>1. \A p \in Path : manifest'[p] \in State \cup {None}
            BY <1>2, <1>5
        <3>2. manifest' = [p \in Path |-> manifest'[p]]
            BY DEF Apply
        <3> QED
            BY <3>1, <3>2
    <2>2. \A p \in Path : manifest'[p] # None => manifest'[p].ctime =< changes
        BY <1>2, <1>5
    <2>3. scan' \in [Path -> Answer]
        BY <1>1 DEF Unscanned
    <2>4. spoilt' \in BOOLEAN /\ parser' \in BOOLEAN /\ forced' \in BOOLEAN /\ rebuilding' \in BOOLEAN
        BY DEF Apply, Close
    <2> QED
        BY <1>1, <1>3, <2>1, <2>2, <2>3, <2>4 DEF IndexIInv, TypeInv
<1>7. \A p \in Path : scan[p].state \in {"changed", "raced"} =>
           /\ rows'[p].content = scan[p].content /\ rows'[p].declared = scan[p].declared
           /\ rows'[p].unsafe = (scan[p].content \notin Safe)
    <2> TAKE p \in Path
    <2>1. /\ Row(p).content = scan[p].content /\ Row(p).declared = scan[p].declared
          /\ Row(p).unsafe = (scan[p].content \notin Safe)
        BY DEF Row
    <2> QED
        BY <1>2, <2>1
<1>8. ASSUME NEW p \in Path PROVE RowInv(p)'
    <2>1. CASE scan[p].state = "absent"
        BY <1>2, <2>1 DEF RowInv
    <2>2. CASE scan[p].state # "absent"
        <3>1. manifest'[p] # None
            BY <1>5, <2>2, IndexAssumption
        <3>2. rows'[p].id # Empty
            BY <1>3, <2>2
        <3>3. /\ (rows'[p].declared \in Declarable /\ rows'[p].declared = scan[p].declared) \/ rows'[p] = rows[p]
              /\ MadeOf(rows'[p].id, rows'[p].declared, p)
            <4>1. CASE scan[p].state \in {"unchanged", "refreshed"}
                <5>1. rows'[p] = rows[p] /\ rows[p] # None
                    BY <1>2, <1>4, <4>1 DEF ScanInv
                <5> QED
                    BY <1>4, <5>1 DEF RowInv
            <4>2. CASE scan[p].state \in {"changed", "raced"}
                <5>1. rows'[p].declared = scan[p].declared /\ scan[p].declared \in Declarable
                    BY <1>4, <1>7, <4>2 DEF ScanInv
                <5> QED
                    BY <1>3, <2>2, <5>1
            <4> QED
                BY <1>2, <2>2, <4>1, <4>2
        <3>4. rows'[p].declared \in Declarable
            <4>1. CASE rows'[p] = rows[p]
                <5>1. rows[p] # None
                    BY <1>3, <2>2, <4>1, IndexAssumption
                <5> QED
                    BY <1>4, <4>1, <5>1 DEF RowInv
            <4> QED
                BY <3>3, <4>1
        <3>5. rows'[p].unsafe = (rows'[p].content \notin Safe)
            <4>1. CASE scan[p].state \in {"unchanged", "refreshed"}
                <5>1. rows'[p] = rows[p] /\ rows[p] # None /\ ~forced
                    BY <1>2, <1>4, <4>1 DEF ScanInv
                <5> QED
                    BY <1>1, <1>4, <5>1 DEF RowInv
            <4>2. CASE scan[p].state \in {"changed", "raced"}
                BY <1>7, <4>2
            <4> QED
                BY <1>2, <2>2, <4>1, <4>2
        <3>6. ASSUME ~spoilt'
              PROVE  /\ rows'[p].declared = DeclaredId[rows'[p].content]
                     /\ disk[p] # None /\ manifest'[p].ctime = disk[p].ctime
                            => rows'[p].content = disk[p].content
            <4>1. (~spoilt \/ forced) /\ scan[p].state # "raced"
                BY <1>1, <3>6
            <4>2. CASE scan[p].state \in {"unchanged", "refreshed"}
                <5>1. rows'[p] = rows[p] /\ rows[p] # None /\ ~spoilt /\ scan[p].content = rows[p].content
                    BY <1>2, <1>4, <4>1, <4>2 DEF ScanInv
                <5> QED
                    BY <1>4, <1>5, <2>2, <4>2, <5>1 DEF RowInv, ScanInv
            <4>3. CASE scan[p].state = "changed"
                <5>1. rows'[p].content = scan[p].content /\ rows'[p].declared = scan[p].declared
                    BY <1>7, <4>3
                <5> QED
                    BY <1>4, <1>5, <2>2, <4>1, <4>3, <5>1 DEF ScanInv
            <4> QED
                BY <1>2, <2>2, <4>1, <4>2, <4>3
        <3> QED
            BY <1>1, <3>1, <3>2, <3>3, <3>4, <3>5, <3>6 DEF RowInv
    <2> QED
        BY <2>1, <2>2
<1>9. RowIdsUnique'
    BY <1>2, <1>3 DEF RowIdsUnique
<1>10. links' = Resolved(rows')
    <2>1. CASE Rewritten \cup Removed # {}
        BY <1>1, <2>1 DEF Relink
    <2>2. CASE Rewritten \cup Removed = {} /\ forced
        <3>1. \A p \in Path : scan[p].state = "absent"
            BY <1>2, <1>4, <2>2 DEF Rewritten, ScanInv
        <3>2. \A p \in Path : rows'[p] = None
            BY <1>2, <3>1
        <3>3. Resolved(rows') = {}
            BY <3>2 DEF Resolved, Uses
        <3>4. CASE rebuilding
            BY <1>1, <2>2, <3>3, <3>4 DEF Relink
        <3>5. CASE ~rebuilding
            <4>1. \A p \in Path : rows[p] = None
                BY <2>2, <3>1, <3>5 DEF Removed, Existing
            <4>2. Resolved(rows) = {}
                BY <4>1 DEF Resolved, Uses
            <4> QED
                BY <1>1, <2>2, <3>3, <3>5, <4>2 DEF Relink, IndexIInv
        <3> QED
            BY <3>4, <3>5
    <2>3. CASE Rewritten \cup Removed = {} /\ ~forced
        <3>1. ~rebuilding
            BY <1>1, <2>3
        <3>2. \A p \in Path : rows'[p] = rows[p]
            BY <1>2, <2>3, <3>1 DEF Rewritten, Removed, Existing
        <3>3. rows' = rows
            BY <1>3, <3>2 DEF IndexIInv, TypeInv
        <3> QED
            BY <1>1, <2>3, <3>1, <3>3 DEF Relink, IndexIInv
    <2> QED
        BY <2>1, <2>2, <2>3
<1>11. ASSUME current, ~spoilt' PROVE NotesExact'
    <2> SUFFICES ASSUME NEW p \in Path
                 PROVE  IF disk[p] = None THEN rows'[p] = None
                        ELSE /\ rows'[p] # None
                             /\ rows'[p].content = disk[p].content
                             /\ rows'[p].declared = DeclaredId[disk[p].content]
                             /\ rows'[p].unsafe = (disk[p].content \notin Safe)
        BY <1>1 DEF NotesExact, Declared
    <2>1. CASE scan[p].state = "absent"
        BY <1>2, <1>4, <1>11, <2>1 DEF ScanInv
    <2>2. CASE scan[p].state # "absent"
        <3>1. disk[p] # None /\ scan[p].stat = Stat(p)
            BY <1>2, <1>4, <1>11, <2>2 DEF ScanInv
        <3>2. manifest'[p].ctime = disk[p].ctime
            BY <1>4, <1>5, <2>2, <3>1
        <3>3. rows'[p] # None
            BY <1>3, <2>2, IndexAssumption
        <3> QED
            BY <1>1, <1>8, <1>11, <3>1, <3>2, <3>3 DEF RowInv
    <2> QED
        BY <2>1, <2>2
<1> QED
    BY <1>1, <1>6, <1>8, <1>9, <1>10, <1>11 DEF IndexIInv
LEMMA NextKeeps == IndexIInv /\ [Next]_vars => IndexIInv'
<1> SUFFICES ASSUME IndexIInv, [Next]_vars PROVE IndexIInv'
    OBVIOUS
<1>1. ASSUME NEW p \in Path, Edit(p) PROVE IndexIInv'
    <2>1. PICK c \in Content, m \in Meta :
              Changed /\ disk' = [disk EXCEPT ![p] = [content |-> c, meta |-> m, ctime |-> changes']]
        BY <1>1 DEF Edit
    <2> DEFINE f == [content |-> c, meta |-> m, ctime |-> changes + 1]
    <2>2. changes' = changes + 1 /\ changes \in Nat
        BY <2>1 DEF Changed, IndexIInv, TypeInv
    <2>3. f \in File
        BY <2>2 DEF File
    <2>4. f.ctime = changes + 1 /\ disk' = [disk EXCEPT ![p] = f]
        BY <2>1, <2>2
    <2> HIDE DEF f
    <2> QED
        BY <2>1, <2>3, <2>4, FilesKeep
<1>2. ASSUME NEW p \in Path, Touch(p) PROVE IndexIInv'
    <2> DEFINE f == [disk[p] EXCEPT !.ctime = changes + 1]
    <2>1. changes' = changes + 1 /\ changes \in Nat /\ disk \in [Path -> File \cup {None}] /\ disk[p] # None
        BY <1>2 DEF Touch, Changed, IndexIInv, TypeInv
    <2>2. disk[p] \in File
        BY <2>1
    <2>3. f \in File /\ f.ctime = changes + 1
        BY <2>1, <2>2 DEF File
    <2>4. disk' = [disk EXCEPT ![p] = f]
        BY <1>2, <2>1 DEF Touch
    <2> HIDE DEF f
    <2> QED
        BY <1>2, <2>3, <2>4, FilesKeep DEF Touch
<1>3. ASSUME NEW p \in Path, Remove(p) PROVE IndexIInv'
    <2>1. Changed /\ disk' = [disk EXCEPT ![p] = None]
        BY <1>3 DEF Remove
    <2> QED
        BY <2>1, FilesKeep
<1>4. ASSUME NEW keep \in BOOLEAN, OpenAfterUpgrade(keep) PROVE IndexIInv'
    BY <1>4, UpgradeKeeps
<1>5. ASSUME NEW force \in BOOLEAN, NEW rebuild \in BOOLEAN, Refresh(force, rebuild) PROVE IndexIInv'
    BY <1>5, StartKeeps
<1>6. ASSUME NEW p \in Path, Visit(p) \/ Read(p) \/ RereadParse(p) \/ RereadStat(p) PROVE IndexIInv'
    BY <1>6, VisitKeeps, ReadKeeps, RereadParseKeeps, RereadStatKeeps
<1>7. CASE Assign
    BY <1>7, AssignKeeps
<1>8. CASE Apply
    BY <1>8, ApplyKeeps
<1>9. CASE Fail
    BY <1>9, FailKeeps
<1>10. CASE UNCHANGED vars
    <2>1. /\ UNCHANGED <<disk, changes, rows, links, manifest, parser, pc, forced, rebuilding, scan, current, spoilt>>
        BY <1>10 DEF vars, index
    <2>2. Desired' = Desired
        BY <2>1, DesiredStays DEF Present
    <2> QED
        BY <2>1, <2>2 DEF IndexIInv, TypeInv, RowInv, RowIdsUnique, Resolved, Uses, RefreshInv, ScanInv, Stat,
                          DesiredInv, NotesExact, Declared
<1> QED
    BY <1>1, <1>2, <1>3, <1>4, <1>5, <1>6, <1>7, <1>8, <1>9, <1>10 DEF Next, Refreshing

\* Whatever the notes, their contents and their order: the invariant above.
THEOREM IndexInductive == Spec => []IndexIInv
<1>1. Init => IndexIInv
    BY IndexInitially
<1>2. IndexIInv /\ [Next]_vars => IndexIInv'
    BY NextKeeps
<1> QED
    BY <1>1, <1>2, PTL DEF Spec

-----------------------------------------------------------------------------
(* What follows from it.                                                   *)

LEMMA ResolvedIsThere ==
    ASSUME NEW t \in Text
    PROVE  Resolve(rows, t) = Empty \/ \E p \in Path : rows[p] # None /\ Resolve(rows, t) = rows[p].id
<1>1. ASSUME NEW S \in SUBSET {p \in Path : rows[p] # None}
      PROVE  Only(rows, S) = Empty \/ \E p \in Path : rows[p] # None /\ Only(rows, S) = rows[p].id
    <2>1. CASE Cardinality(S) = 1
        <3>1. S # {}
            BY <2>1, SingleIsInhabited
        <3>2. First(S) \in S
            BY <3>1, FirstIsIn
        <3> QED
            BY <2>1, <3>2 DEF Only
    <2> QED
        BY <2>1 DEF Only
<1>2. /\ Named(rows, t) \in SUBSET {p \in Path : rows[p] # None}
      /\ Aliased(rows, t) \in SUBSET {p \in Path : rows[p] # None}
    BY DEF Named, Aliased
<1>3. PathOf[t] # NoPath => PathOf[t] \in Path
    BY IndexAssumption
<1> QED
    BY <1>1, <1>2, <1>3 DEF Resolve

\* Rows stay well formed, no two notes ever get one identity, also where digests collide or
\* a note declares what looks like the identity of a duplicate, and no link starts from or
\* ends at a row that is not there (index.py: _assign_identities, _resolve_link_targets).
THEOREM IndexIsConsistent == Spec => []RowsConsistent
<1>1. ASSUME IndexIInv PROVE RowsConsistent
    <2>1. TypeInv /\ (\A p \in Path : RowInv(p)) /\ RowIdsUnique /\ links = Resolved(rows)
        BY <1>1 DEF IndexIInv
    <2>2. TypeOK
        <3>1. \A p \in Path : disk[p] \in File \cup {None} /\ rows[p] \in Note \cup {None} /\ scan[p] \in Answer
            BY <2>1 DEF TypeInv
        <3>2. changes \in 0 .. MaxChanges
            BY <2>1, Numbers DEF TypeInv
        <3>3. \A p \in Path : disk[p] # None =>
                 disk[p].content \in Content /\ disk[p].meta \in Meta /\ disk[p].ctime \in 1 .. changes
            BY <2>1, <3>1 DEF TypeInv, File
        <3>4. \A p \in Path : rows[p] # None => rows[p].content \in Content /\ manifest[p] # None
            BY <2>1, <3>1 DEF RowInv, Note
        <3> QED
            BY <2>1, <3>1, <3>2, <3>3, <3>4 DEF TypeOK, TypeInv
    <2>3. LinksPointToRows
        <3> SUFFICES ASSUME NEW l \in links, NEW id \in {l[1], l[3]} \ {Empty}
                     PROVE  \E p \in Path : rows[p] # None /\ rows[p].id = id
            BY DEF LinksPointToRows
        <3>1. PICK x \in Uses(rows) : l = <<rows[x[1]].id, x[2], Resolve(rows, x[2])>>
            BY <2>1 DEF Resolved
        <3>2. x[1] \in Path /\ x[2] \in Text /\ rows[x[1]] # None
            BY DEF Uses
        <3>3. l[1] = rows[x[1]].id /\ l[3] = Resolve(rows, x[2])
            BY <3>1
        <3> QED
            BY <3>2, <3>3, ResolvedIsThere
    <2> QED
        BY <2>1, <2>2, <2>3 DEF RowsConsistent
<1> QED
    BY <1>1, IndexInductive, PTL

\* A note that holds the identity it declares keeps it over every refresh that is no
\* rebuild, whichever duplicates are found before it (index.py: _assign_identities).
THEOREM HolderKeepsIdentity == Spec => IdentityStays
<1> DEFINE Step == \A p \in Path :
          /\ rows[p] # None /\ rows'[p] # None /\ ~rebuilding
          /\ rows[p].id = rows[p].declared /\ rows'[p].declared = rows[p].declared
          => rows'[p].id = rows[p].id
<1>1. ASSUME IndexIInv, [Next]_vars PROVE [Step]_vars
    <2> SUFFICES ASSUME NEW p \in Path, rows[p] # None, rows'[p] # None, ~rebuilding,
                        rows[p].id = rows[p].declared, rows'[p].declared = rows[p].declared
                 PROVE  rows'[p].id = rows[p].id
        OBVIOUS
    <2>1. CASE Apply
        <3>1. scan[p].state \in {"unchanged", "refreshed"} \/ scan[p].state \in {"changed", "raced"}
            BY <1>1, <2>1, Applied
        <3>2. CASE scan[p].state \in {"unchanged", "refreshed"}
            BY <1>1, <2>1, <3>2, Applied
        <3>3. CASE scan[p].state \in {"changed", "raced"}
            <4> DEFINE d == scan[p].declared
                       paths == {q \in Present : scan[q].declared = d}
                       holders == {q \in paths : Existing[q] # None /\ Existing[q].id = d}
            <4>1. p \in Present /\ rows'[p] = Row(p) /\ Existing = rows
                BY <1>1, <2>1, <3>3, Applied DEF Present, Existing
            <4>2. Row(p).id = Desired[p] /\ Row(p).declared = d
                BY DEF Row
            <4>3. rows[p].id = d
                BY <4>1, <4>2
            <4>4. holders = {p}
                <5>1. p \in holders
                    BY <4>1, <4>3
                <5>2. ASSUME NEW q \in holders PROVE q = p
                    <6>1. q \in Path /\ rows[q] # None /\ rows[q].id = rows[p].id
                        BY <4>1, <4>3 DEF Present
                    <6> QED
                        BY <1>1, <6>1 DEF IndexIInv, RowIdsUnique
                <5> HIDE DEF holders
                <5> QED
                    BY <5>1, <5>2
            <4>5. Owner(d) = First(holders)
                BY <4>4 DEF Owner
            <4>6. First(holders) \in holders
                BY <4>4, FirstIsIn
            <4>7. Owner(d) = p
                <5> HIDE DEF holders, d
                <5> QED
                    BY <4>4, <4>5, <4>6
            <4>8. Desired[p] = d
                BY <1>1, <2>1, <4>1, <4>7, Applied
            <4> QED
                BY <4>1, <4>2, <4>3, <4>8
        <3> QED
            BY <3>1, <3>2, <3>3
    <2>2. ASSUME NEW keep \in BOOLEAN, OpenAfterUpgrade(keep) PROVE rows'[p].id = rows[p].id
        <3>1. rows[p] \in Note
            BY <1>1 DEF IndexIInv, TypeInv
        <3>2. rows'[p] = [rows[p] EXCEPT !.unsafe = TRUE]
            BY <2>2 DEF OpenAfterUpgrade
        <3> QED
            BY <3>1, <3>2 DEF Note
    <2>3. CASE rows' = rows
        BY <2>3
    <2>4. Apply \/ (\E keep \in BOOLEAN : OpenAfterUpgrade(keep)) \/ rows' = rows
        BY <1>1 DEF Next, vars, index, Refreshing, Edit, Touch, Remove, Changed, Refresh, Fail,
                    Visit, Scanning, Read, Assign, RereadParse, RereadStat
    <2> QED
        BY <2>1, <2>2, <2>3, <2>4
<1> QED
    BY <1>1, IndexInductive, PTL DEF Spec, IdentityStays

\* A complete refresh during which no file changed has read every note as it is: what was
\* edited before, linked, given back an old mtime or restored, and whatever refresh was
\* interrupted.  Unless an earlier one raced with an edit (index.py: _unchanged, refresh).
THEOREM RefreshReadsNotes == Spec => [](pc = "idle" /\ current /\ ~spoilt => NotesExact)
<1>1. IndexIInv => (pc = "idle" /\ current /\ ~spoilt => NotesExact)
    BY DEF IndexIInv
<1> QED
    BY <1>1, IndexInductive, PTL

\* No note links to what is only the identity of a duplicate.
NoLinkNamesDuplicate ==
    \A c, e \in Content : \A t \in LinksOf[c], p \in Path, n \in Nat :
        t # (DeclaredId[e] \o <<Digest[p]>>) \o <<n>>

LEMMA PathOfRow ==
    ASSUME IndexIInv, NEW p \in Path, rows[p] # None
    PROVE  PathWith(rows[p].id) = p
<1>1. rows[p].id # Empty
    BY DEF IndexIInv, RowInv
<1>2. \A q \in Path : rows[q] # None /\ rows[q].id = rows[p].id => q = p
    BY DEF IndexIInv, RowIdsUnique
<1> QED
    BY <1>1, <1>2 DEF PathWith

LEMMA OnlyOne ==
    ASSUME IndexIInv, NEW S \in SUBSET {p \in Path : rows[p] # None}
    PROVE  PathWith(Only(rows, S)) = IF Cardinality(S) = 1 THEN CHOOSE p \in S : TRUE ELSE NoPath
<1>1. CASE Cardinality(S) = 1
    <2>1. IsFiniteSet(S)
        BY IndexAssumption, FS_Subset
    <2>2. PICK q : S = {q}
        BY <1>1, <2>1, FS_Singleton
    <2>3. First(S) = q
        BY <2>2, FirstIsIn
    <2>4. (CHOOSE p \in S : TRUE) = q
        BY <2>2
    <2>5. Only(rows, S) = rows[q].id /\ rows[q] # None /\ q \in Path
        BY <1>1, <2>2, <2>3 DEF Only
    <2> QED
        BY <1>1, <2>4, <2>5, PathOfRow
<1>2. CASE Cardinality(S) # 1
    BY <1>2 DEF Only, PathWith
<1> QED
    BY <1>1, <1>2

LEMMA ResolveFindsMeaning ==
    ASSUME IndexIInv, NotesExact, NoLinkNamesDuplicate, NEW x \in Uses(rows)
    PROVE  PathWith(Resolve(rows, x[2])) = Meaning(x[2])
<1> DEFINE t == x[2]
           byIdentity == {p \in OnDisk : Declared(p) = t}
           byPath == {PathOf[t]} \cap OnDisk
           byName == {p \in OnDisk : t \notin Qualified /\ t \in {Title[disk[p].content], Stem[p]}}
<1>1. \A p \in Path : /\ disk[p] = None <=> rows[p] = None
                      /\ disk[p] # None => /\ rows[p].content = disk[p].content
                                           /\ rows[p].declared = Declared(p)
                                           /\ rows[p].content \in Content
                                           /\ MadeOf(rows[p].id, rows[p].declared, p)
    BY DEF NotesExact, IndexIInv, RowInv, TypeInv, Note
<1>2. t \in Text /\ x[1] \in Path /\ rows[x[1]] # None /\ t \in LinksOf[rows[x[1]].content]
      /\ rows[x[1]].content \in Content
    BY <1>1 DEF Uses
<1>3. Named(rows, t) = byIdentity
    <2> SUFFICES ASSUME NEW p \in Path, rows[p] # None
                 PROVE  t \in {rows[p].id, rows[p].declared} <=> Declared(p) = t
        BY <1>1 DEF Named, OnDisk
    <2>1. rows[p].declared = Declared(p) /\ MadeOf(rows[p].id, rows[p].declared, p)
          /\ disk[p].content \in Content
        BY <1>1
    <2>2. ASSUME t = rows[p].id PROVE rows[p].id = rows[p].declared
        <3>1. \A n \in Nat : t # (Declared(p) \o <<Digest[p]>>) \o <<n>>
            BY <1>2, <2>1 DEF NoLinkNamesDuplicate, Declared
        <3> QED
            BY <2>1, <2>2, <3>1 DEF MadeOf
    <2> QED
        BY <2>1, <2>2
<1>4. t \notin Qualified => Aliased(rows, t) = byName
    BY <1>1 DEF Aliased, OnDisk
<1>5. (PathOf[t] # NoPath /\ rows[PathOf[t]] # None) <=> byPath # {}
    BY <1>1, <1>2, IndexAssumption DEF OnDisk
<1>6. /\ Named(rows, t) \in SUBSET {p \in Path : rows[p] # None}
      /\ Aliased(rows, t) \in SUBSET {p \in Path : rows[p] # None}
    BY DEF Named, Aliased
<1>7. Meaning(t) = LET meant == IF byIdentity # {} THEN byIdentity ELSE IF byPath # {} THEN byPath ELSE byName
                   IN IF Cardinality(meant) = 1 THEN CHOOSE p \in meant : TRUE ELSE NoPath
    BY DEF Meaning
<1> HIDE DEF t, byIdentity, byPath, byName
<1>8. CASE byIdentity # {}
    BY <1>3, <1>6, <1>7, <1>8, OnlyOne DEF Resolve, t
<1>9. CASE byIdentity = {} /\ byPath # {}
    <2>1. PathOf[t] \in Path /\ rows[PathOf[t]] # None /\ byPath = {PathOf[t]}
        BY <1>2, <1>5, <1>9, IndexAssumption DEF byPath
    <2>2. Cardinality(byPath) = 1 /\ (CHOOSE p \in byPath : TRUE) = PathOf[t]
        BY <2>1, FS_Singleton
    <2>3. Resolve(rows, t) = rows[PathOf[t]].id
        BY <1>3, <1>5, <1>9 DEF Resolve
    <2> QED
        BY <1>7, <1>9, <2>1, <2>2, <2>3, PathOfRow DEF t
<1>10. CASE byIdentity = {} /\ byPath = {}
    <2>1. CASE t \in Qualified
        <3>1. byName = {}
            BY <2>1 DEF byName
        <3>2. Cardinality(byName) # 1
            BY <3>1, SingleIsInhabited
        <3>3. Resolve(rows, t) = Empty
            BY <1>3, <1>5, <1>10, <2>1 DEF Resolve
        <3> QED
            BY <1>7, <1>10, <3>2, <3>3 DEF t, PathWith
    <2>2. CASE t \notin Qualified
        <3>1. Resolve(rows, t) = Only(rows, byName)
            BY <1>3, <1>4, <1>5, <1>10, <2>2 DEF Resolve
        <3> QED
            BY <1>4, <1>6, <1>7, <1>10, <2>2, <3>1, OnlyOne DEF t
    <2> QED
        BY <2>1, <2>2
<1> QED
    BY <1>8, <1>9, <1>10

\* After such a refresh the links, too, are those a reader of the vault would draw: each
\* text leads to the one note it can mean, or nowhere (index.py: _resolve_link_targets).
THEOREM RefreshIsExact == ASSUME NoLinkNamesDuplicate PROVE Spec => []IndexExact
<1>1. ASSUME IndexIInv PROVE IndexExact
    <2> SUFFICES ASSUME pc = "idle", current, ~spoilt PROVE NotesExact /\ LinksExact
        BY DEF IndexExact
    <2>1. NotesExact /\ links = Resolved(rows)
        BY <1>1 DEF IndexIInv
    <2>2. Uses(rows) = Uses(disk)
        BY <2>1 DEF Uses, NotesExact
    <2>3. ASSUME NEW x \in Uses(rows)
          PROVE  PathWith(rows[x[1]].id) = x[1] /\ PathWith(Resolve(rows, x[2])) = Meaning(x[2])
        BY <1>1, <2>1, PathOfRow, ResolveFindsMeaning DEF Uses
    <2>4. LinksExact
        <3> DEFINE L == {<<PathWith(l[1]), l[2], PathWith(l[3])>> : l \in links}
                   M == {<<x[1], x[2], Meaning(x[2])>> : x \in Uses(rows)}
                   link(x) == <<rows[x[1]].id, x[2], Resolve(rows, x[2])>>
        <3>1. links = {link(x) : x \in Uses(rows)}
            BY <2>1 DEF Resolved
        <3>2. \A x \in Uses(rows) : <<PathWith(link(x)[1]), link(x)[2], PathWith(link(x)[3])>>
                                        = <<x[1], x[2], Meaning(x[2])>>
            BY <2>3
        <3> HIDE DEF link
        <3>3. L = M
            BY <3>1, <3>2
        <3> QED
            BY <2>2, <3>3 DEF LinksExact
    <2> QED
        BY <2>1, <2>4
<1> QED
    BY <1>1, IndexInductive, PTL
=============================================================================
