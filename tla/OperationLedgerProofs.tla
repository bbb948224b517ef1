------------------------ MODULE OperationLedgerProofs ------------------------
(***************************************************************************)
(* What holds of any number of memories, agents and operations: how they   *)
(* are numbered, what they were expected to follow, and what the last of   *)
(* them tells of the note.  Then of any number of learners: what they note *)
(* of the episodes was earned.                                             *)
(***************************************************************************)
EXTENDS OperationLedger, Consolidation, FiniteSetTheorems, SequenceTheorems, TLAPS

\* Every set of operations of a memory has one with the highest number: so does what an
\* undo leaves of them.
Highest(R) ==
    \A S \in SUBSET R : S # {} => \E r \in S : \A s \in S : s.sequence =< r.sequence

Orderly(R) ==
    \A m \in Name :
        /\ IsFiniteSet(Of(R, m))
        /\ Highest(Of(R, m))
        /\ \A r, s \in Of(R, m) : r.sequence = s.sequence => r = s

ExpectedIn(R) ==
    \A r \in R : r.expected # Anything =>
        /\ r.sequence = 1 => r.expected = NoDigest
        /\ \A s \in Of(R, r.memory) : s.sequence = r.sequence - 1 => s.new = r.expected

WellFormed(R) ==
    /\ R \subseteq Record
    /\ \A r, s \in R : r.id = s.id => r = s
    /\ Orderly(R)
    /\ ExpectedIn(R)

GapFree(R, m) == {r.sequence : r \in Of(R, m)} = 1 .. Cardinality(Of(R, m))

\* Only a begun undo leaves a gap, and what it must get back to has none.
Gaps ==
    /\ mode \in {"free", "body"} => gone = {}
    /\ \A m \in Name \ torn :
          /\ m \notin gone => GapFree(records, m)
          /\ mode # "free" => GapFree(before.records, m)

\* While a command works, its note is ahead of the ledger by one operation.
Truth ==
    /\ mode = "free" => \A m \in Memory \ untold : Tells(records, written, m)
    /\ mode # "free" => \A m \in Memory \ before.untold : Tells(before.records, before.written, m)
    /\ mode = "body" =>
          \A m \in Memory \ untold : doing = Nothing \/ doing.memory # m => Tells(records, written, m)
    /\ doing # Nothing /\ doing.memory \in Memory => written[doing.memory] = doing.new

IInv ==
    /\ TypeOK
    /\ WellFormed(records)
    /\ mode # "free" => before.written \in [Memory -> Content] /\ before.untold \subseteq Memory
    /\ Gaps
    /\ Truth

-----------------------------------------------------------------------------
\* What is left of a well-formed ledger is well formed.
LEMMA PartWellFormed == ASSUME NEW R, NEW Q, Q \subseteq R, WellFormed(R) PROVE WellFormed(Q)
<1>1. \A m : Of(Q, m) \subseteq Of(R, m)
    BY DEF Of
<1>2. Orderly(Q)
    BY <1>1, FS_Subset DEF WellFormed, Orderly, Highest
<1>3. ExpectedIn(Q)
    BY <1>1 DEF WellFormed, ExpectedIn
<1> QED BY <1>2, <1>3 DEF WellFormed

\* The last operation of a memory is the one with the highest number.
LEMMA LastIsHighest ==
    ASSUME WellFormed(records), NEW m \in Name, RecordsOf(m) # {}
    PROVE  /\ LastFor(m) \in RecordsOf(m)
           /\ \A s \in RecordsOf(m) : s.sequence =< LastFor(m).sequence
<1> DEFINE R == RecordsOf(m)
<1>1. /\ R = Of(records, m) /\ R \subseteq Record
      /\ Highest(R) /\ \A r, s \in R : r.sequence = s.sequence => r = s
    BY DEF WellFormed, Orderly, RecordsOf, Of
<1>2. \A r \in R : r.sequence \in Nat /\ r.at \in Nat /\ r.id \in Nat
    BY <1>1, LedgerAssumption DEF Record
<1>3. PICK r \in R : \A s \in R : s.sequence =< r.sequence
    BY <1>1 DEF Highest
<1>4. \A s \in R : Earlier(s, r)
    BY <1>1, <1>2, <1>3 DEF Earlier
<1>5. LastFor(m) \in R /\ \A s \in R : Earlier(s, LastFor(m))
    BY <1>4 DEF LastFor
<1> QED BY <1>2, <1>5 DEF Earlier

LEMMA DigestTyped ==
    ASSUME WellFormed(records), NEW m \in Name
    PROVE  LastDigest(m) \in Content
BY LastIsHighest DEF LastDigest, RecordsOf, Of, WellFormed, Record, Content

\* The number of an append is higher than those on record, and next where there is no gap.
LEMMA NextIsHigher ==
    ASSUME WellFormed(records), NEW m \in Name
    PROVE  /\ NextNumber(m) \in Nat \ {0}
           /\ \A s \in RecordsOf(m) : s.sequence \in Nat /\ s.sequence < NextNumber(m)
           /\ GapFree(records, m) => NextNumber(m) = Cardinality(RecordsOf(m)) + 1
<1> DEFINE R == RecordsOf(m)
           n == Cardinality(R)
<1>1. R = Of(records, m) /\ IsFiniteSet(R) /\ \A s \in R : s.sequence \in Nat \ {0}
    BY DEF WellFormed, Orderly, RecordsOf, Of, Record
<1>2. CASE R = {}
    BY <1>1, <1>2, FS_EmptySet DEF NextNumber
<1>3. CASE R # {}
  <2>1. /\ LastFor(m) \in R /\ NextNumber(m) = LastFor(m).sequence + 1
        /\ \A s \in R : s.sequence =< LastFor(m).sequence
    BY <1>3, LastIsHighest DEF NextNumber
  <2>2. ASSUME GapFree(records, m) PROVE LastFor(m).sequence = n
    <3>1. n \in Nat
        BY <1>1, FS_CardinalityType
    <3>2. {s.sequence : s \in R} = 1 .. n
        BY <1>1, <2>2 DEF GapFree
    <3> HIDE DEF n
    <3>3. LastFor(m).sequence \in 1 .. n
        BY <2>1, <3>2
    <3>4. n \in 1 .. n
        BY <3>1, <3>3
    <3>5. PICK s \in R : s.sequence = n
        BY <3>2, <3>4
    <3> QED BY <2>1, <3>1, <3>3, <3>5
  <2> QED BY <1>1, <2>1, <2>2
<1> QED BY <1>2, <1>3

\* An append numbers its operation next, and leaves the ledger well formed.
LEMMA AppendWellFormed ==
    ASSUME WellFormed(records), NEW m \in Name, NEW new \in Content,
           NEW expected \in Content \cup {Anything}, NEW kb \in BOOLEAN,
           AppendLocked(m, new, expected, kb)
    PROVE  /\ WellFormed(records')
           /\ \A k \in Name : GapFree(records, k) => GapFree(records', k)
           /\ \E r \in Record :
                 /\ records' = records \cup {r} /\ r \notin records
                 /\ r.memory = m /\ r.new = new /\ r.kb = kb
                 /\ \A s \in RecordsOf(m) : s.sequence < r.sequence
<1> DEFINE R == RecordsOf(m)
           n == Cardinality(R)
<1>1. PICK id \in NewName, now \in Time :
        records' = records \cup {[id |-> id, memory |-> m, sequence |-> NextNumber(m), at |-> now,
                                  new |-> new, expected |-> expected, kb |-> kb]}
    BY DEF AppendLocked
<1>2. expected \in {Anything, LastDigest(m)}
    BY DEF AppendLocked
<1> DEFINE r == [id |-> id, memory |-> m, sequence |-> NextNumber(m), at |-> now,
                 new |-> new, expected |-> expected, kb |-> kb]
<1>3. /\ R = Of(records, m) /\ R \subseteq Record /\ records \subseteq Record
      /\ IsFiniteSet(R) /\ Highest(R)
      /\ \A s, t \in R : s.sequence = t.sequence => s = t
    BY DEF WellFormed, Orderly, RecordsOf, Of
<1>4. n \in Nat
    BY <1>3, FS_CardinalityType
<1>5. /\ NextNumber(m) \in Nat \ {0}
      /\ \A s \in R : s.sequence \in Nat /\ s.sequence < NextNumber(m)
      /\ GapFree(records, m) => NextNumber(m) = n + 1
    BY NextIsHigher
<1>6. id \in OpId /\ \A s \in records : s.id # id
    BY DEF NewName
<1>7. /\ r \in Record
      /\ r.id = id /\ r.memory = m /\ r.sequence = NextNumber(m) /\ r.new = new /\ r.expected = expected
      /\ r.kb = kb /\ r.at = now
    BY <1>5, <1>6 DEF Record
<1>8. records' = records \cup {r}
    BY <1>1
<1> HIDE DEF r, n
<1>9. r \notin records
    BY <1>6, <1>7
<1>10. \A s \in R : s.sequence < r.sequence
    BY <1>5, <1>7
<1>11. Of(records', m) = R \cup {r} /\ r \notin R
    BY <1>3, <1>7, <1>8, <1>9 DEF Of
<1>12. IsFiniteSet(Of(records', m)) /\ Cardinality(Of(records', m)) = n + 1
    BY <1>3, <1>11, FS_AddElement DEF n
<1>13. \A k \in Name \ {m} : Of(records', k) = Of(records, k)
    BY <1>7, <1>8 DEF Of
<1>14. Highest(R \cup {r})
  <2> SUFFICES ASSUME NEW S \in SUBSET (R \cup {r}), S # {}
               PROVE  \E t \in S : \A s \in S : s.sequence =< t.sequence
    BY DEF Highest
  <2>1. CASE r \notin S
    BY <1>3, <2>1 DEF Highest
  <2>2. CASE r \in S
    <3>1. r.sequence \in Nat
        BY <1>5, <1>7
    <3> QED BY <1>5, <1>10, <2>2, <3>1
  <2> QED BY <2>1, <2>2
<1>15. Orderly(records')
  <2>1. \A s, t \in R \cup {r} : s.sequence = t.sequence => s = t
    BY <1>3, <1>5, <1>7, <1>10
  <2> QED BY <1>11, <1>12, <1>13, <1>14, <2>1 DEF WellFormed, Orderly
<1>16. ASSUME NEW k \in Name, GapFree(records, k) PROVE GapFree(records', k)
  <2>1. CASE k # m
    BY <1>13, <1>16, <2>1 DEF GapFree
  <2>2. CASE k = m
    <3>1. {s.sequence : s \in R} = 1 .. n /\ r.sequence = n + 1
        BY <1>3, <1>5, <1>7, <1>16, <2>2 DEF GapFree, n
    <3>2. {s.sequence : s \in R \cup {r}} = (1 .. n) \cup {n + 1}
        BY <3>1
    <3>3. (1 .. n) \cup {n + 1} = 1 .. (n + 1)
        BY <1>4
    <3> QED BY <1>11, <1>12, <2>2, <3>2, <3>3 DEF GapFree
  <2> QED BY <2>1, <2>2
<1>17. ExpectedIn(records')
  <2>1. ASSUME NEW s \in records, s.expected # Anything
        PROVE  /\ s.sequence = 1 => s.expected = NoDigest
               /\ \A t \in Of(records', s.memory) : t.sequence = s.sequence - 1 => t.new = s.expected
    <3>1. \A t \in Of(records, s.memory) : t.sequence = s.sequence - 1 => t.new = s.expected
        BY <2>1 DEF WellFormed, ExpectedIn
    <3>2. s.memory = m => s \in R /\ s.sequence \in Nat /\ s.sequence < r.sequence /\ r.sequence \in Nat
        BY <1>3, <1>5, <1>7, <1>10 DEF Of
    <3>3. s.memory = m => r.sequence # s.sequence - 1
        BY <3>2
    <3>4. \A t \in Of(records', s.memory) : t \in Of(records, s.memory) \/ (t = r /\ s.memory = m)
        BY <1>7, <1>8 DEF Of
    <3>5. s.sequence = 1 => s.expected = NoDigest
        BY <2>1 DEF WellFormed, ExpectedIn
    <3> QED BY <3>1, <3>3, <3>4, <3>5
  <2>2. ASSUME r.expected # Anything
        PROVE  /\ r.sequence = 1 => r.expected = NoDigest
               /\ \A t \in Of(records', r.memory) : t.sequence = r.sequence - 1 => t.new = r.expected
    <3>1. r.expected = LastDigest(m)
        BY <1>2, <1>7, <2>2
    <3>2. CASE R = {}
      <4>1. r.expected = NoDigest
          BY <3>1, <3>2 DEF LastDigest
      <4>2. \A t \in Of(records', r.memory) : t = r
          BY <1>7, <1>11, <3>2
      <4>3. r.sequence \in Nat
          BY <1>5, <1>7
      <4>4. r.sequence # r.sequence - 1
          BY <4>3
      <4> QED BY <4>1, <4>2, <4>4
    <3>3. CASE R # {}
      <4>1. LastFor(m) \in R /\ r.sequence = LastFor(m).sequence + 1
          BY <1>7, <3>3, LastIsHighest DEF NextNumber
      <4>2. LastFor(m).new = r.expected
          BY <3>1, <3>3 DEF LastDigest
      <4>3. LastFor(m).sequence \in Nat \ {0}
          BY <1>3, <4>1 DEF Record
      <4>4. \A t \in R \cup {r} : t.sequence = r.sequence - 1 => t = LastFor(m)
          BY <1>3, <4>1, <4>3
      <4> QED BY <1>7, <1>11, <4>1, <4>2, <4>3, <4>4
    <3> QED BY <3>2, <3>3
  <2> QED BY <1>8, <2>1, <2>2 DEF ExpectedIn
<1>18. records' \subseteq Record /\ \A s, t \in records' : s.id = t.id => s = t
    BY <1>3, <1>6, <1>7, <1>8 DEF WellFormed
<1> QED BY <1>7, <1>8, <1>9, <1>10, <1>15, <1>16, <1>17, <1>18 DEF WellFormed

-----------------------------------------------------------------------------
\* Nothing is on record, and nothing is written.
LEMMA InitInv == Init => IInv
<1> SUFFICES ASSUME Init PROVE IInv
    OBVIOUS
<1>1. TypeOK
    BY DEF Init, TypeOK, Modes, Content
<1>2. \A m : RecordsOf(m) = {} /\ Of(records, m) = {}
    BY DEF Init, RecordsOf, Of
<1>3. IsFiniteSet({}) /\ Cardinality({}) = 0
    BY FS_EmptySet
<1>4. WellFormed(records)
    BY <1>2, <1>3 DEF Init, WellFormed, Orderly, Highest, ExpectedIn
<1>5. Gaps
    BY <1>2, <1>3 DEF Init, Gaps, GapFree
<1>6. Truth
    BY <1>2 DEF Init, Truth, Tells, Commands
<1> QED BY <1>1, <1>4, <1>5, <1>6 DEF IInv, Init

LEMMA LookInv == ASSUME IInv, NEW a \in Agent, NEW m \in Memory, Look(a, m) PROVE IInv'
<1>1. LastDigest(m) \in Content
    BY DigestTyped DEF IInv, Name
<1>2. TypeOK'
    BY <1>1 DEF Look, IInv, TypeOK, ghosts
<1>3. Gaps' /\ Truth'
    BY DEF Look, IInv, Gaps, Truth, ghosts
<1> QED BY <1>2, <1>3 DEF Look, IInv, ghosts

\* What agents append tells nothing of what commands did.
LEMMA AgentsTellNothing ==
    ASSUME NEW R, NEW r, r.kb = FALSE, NEW w, NEW m, Tells(R, w, m)
    PROVE  Tells(R \cup {r}, w, m)
<1>1. Commands(R \cup {r}, m) = Commands(R, m)
    BY DEF Of, Commands
<1> QED BY <1>1 DEF Tells

LEMMA AppendExpectingInv ==
    ASSUME IInv, NEW a \in Agent, NEW new \in Digest, AppendExpecting(a, new) PROVE IInv'
<1> DEFINE m == seen[a].memory
           expected == seen[a].new
<1>1. /\ mode # "body" /\ AppendLocked(m, new, expected, FALSE)
      /\ seen' = [seen EXCEPT ![a] = Nothing]
      /\ UNCHANGED <<written, mode, doing, before, ghosts>>
    BY DEF AppendExpecting
<1>2. m \in Name /\ expected \in Content \cup {Anything} /\ new \in Content
    BY DEF AppendExpecting, IInv, TypeOK, Name, Content
<1>3. /\ WellFormed(records')
      /\ \A k \in Name : GapFree(records, k) => GapFree(records', k)
      /\ \E r \in Record : records' = records \cup {r} /\ r.kb = FALSE
    BY <1>1, <1>2, AppendWellFormed DEF IInv
<1>4. PICK r \in Record : records' = records \cup {r} /\ r.kb = FALSE
    BY <1>3
<1>5. TypeOK'
    BY <1>1, <1>3, <1>4 DEF IInv, TypeOK, WellFormed, ghosts
<1>6. \A k \in Memory : Tells(records, written, k) => Tells(records', written, k)
    BY <1>4, AgentsTellNothing
<1>7. Truth'
    BY <1>1, <1>6 DEF IInv, Truth, ghosts
<1>8. Gaps'
    BY <1>1, <1>3 DEF IInv, Gaps, ghosts
<1> QED BY <1>1, <1>3, <1>5, <1>7, <1>8 DEF IInv

-----------------------------------------------------------------------------
LEMMA BeginInv == ASSUME IInv, Begin PROVE IInv'
<1>1. TypeOK'
    BY DEF Begin, IInv, TypeOK, Modes, ghosts
<1>2. Gaps'
    BY DEF Begin, IInv, Gaps, ghosts
<1>3. doing = Nothing
    BY DEF Begin, IInv, TypeOK
<1>4. Truth'
    BY <1>3 DEF Begin, IInv, Truth, ghosts
<1> QED BY <1>1, <1>2, <1>4 DEF Begin, IInv, TypeOK, ghosts

\* A note gets ahead of the ledger, and doing or untold says so.
LEMMA WriteInv ==
    ASSUME IInv, NEW m \in Memory, NEW new \in Content,
           \/ WriteNote(m, new) \/ Migrate(m, new)
           \/ \E path \in Pathname : WriteNameless(m, path, new)
    PROVE  IInv'
<1>1. \A k \in Name : [memory |-> k, new |-> new] \in [memory : Name, new : Content]
    OBVIOUS
<1>2. /\ mode = "body" /\ doing = Nothing /\ written' = [written EXCEPT ![m] = new]
      /\ UNCHANGED <<records, mode, before, seen, gone, torn>>
      /\ \/ doing' = [memory |-> m, new |-> new] /\ untold' = untold
         \/ /\ untold' = untold \cup {m}
            /\ doing' = doing \/ \E path \in Pathname : doing' = [memory |-> path, new |-> new]
    BY DEF WriteNote, Migrate, WriteNameless, ghosts
<1>3. TypeOK'
    BY <1>1, <1>2 DEF IInv, TypeOK, Name
<1>4. \A k \in Memory : k # m /\ Tells(records, written, k) => Tells(records, written', k)
    BY <1>2 DEF IInv, TypeOK, Tells
<1>5. Truth'
  <2>1. \A k \in Memory \ untold' : (doing' = Nothing \/ doing'.memory # k) /\ k # m => Tells(records, written', k)
    BY <1>2, <1>4 DEF IInv, Truth
  <2>2. \A k \in Memory \ untold' : doing' = Nothing \/ doing'.memory # k => k # m
    <3>1. [memory |-> m, new |-> new] # Nothing
        BY LedgerAssumption DEF Nothing
    <3> QED BY <1>2, <3>1
  <2>3. doing' # Nothing /\ doing'.memory \in Memory => written'[doing'.memory] = doing'.new
    BY <1>2, LedgerAssumption DEF IInv, TypeOK
  <2> QED BY <1>2, <2>1, <2>2, <2>3 DEF IInv, Truth
<1>6. Gaps'
    BY <1>2 DEF IInv, Gaps
<1> QED BY <1>2, <1>3, <1>5, <1>6 DEF IInv

\* The note and the ledger tell the same again.
LEMMA RecordNoteInv == ASSUME IInv, RecordNote PROVE IInv'
<1> DEFINE m == doing.memory
           new == doing.new
<1>1. /\ mode = "body" /\ doing # Nothing /\ doing' = Nothing /\ untold' = untold \ {m}
      /\ AppendLocked(m, new, Anything, TRUE)
      /\ UNCHANGED <<written, mode, before, seen, gone, torn>>
    BY DEF RecordNote
<1>2. m \in Name /\ new \in Content
    BY <1>1 DEF IInv, TypeOK
<1>3. /\ WellFormed(records')
      /\ \A k \in Name : GapFree(records, k) => GapFree(records', k)
      /\ \E r \in Record :
            /\ records' = records \cup {r} /\ r.memory = m /\ r.new = new /\ r.kb = TRUE
            /\ \A s \in RecordsOf(m) : s.sequence < r.sequence
  <2>1. WellFormed(records)
    BY DEF IInv
  <2>2. PICK kb \in BOOLEAN : kb = TRUE
    OBVIOUS
  <2>3. PICK k \in Name, d \in Content : k = m /\ d = new
    BY <1>2
  <2>4. AppendLocked(k, d, Anything, kb)
    BY <1>1, <2>2, <2>3
  <2>5. /\ WellFormed(records')
        /\ \A j \in Name : GapFree(records, j) => GapFree(records', j)
        /\ \E r \in Record :
              /\ records' = records \cup {r} /\ r \notin records
              /\ r.memory = k /\ r.new = d /\ r.kb = kb
              /\ \A s \in RecordsOf(k) : s.sequence < r.sequence
    BY <2>1, <2>4, AppendWellFormed
  <2> QED BY <2>2, <2>3, <2>5
<1>4. PICK r \in Record :
            /\ records' = records \cup {r} /\ r.memory = m /\ r.new = new /\ r.kb = TRUE
            /\ \A s \in RecordsOf(m) : s.sequence < r.sequence
    BY <1>3
<1>5. TypeOK'
    BY <1>1, <1>3, <1>4 DEF IInv, TypeOK, WellFormed
<1>6. ASSUME NEW k \in Memory, k # m, Tells(records, written, k) PROVE Tells(records', written, k)
  <2>1. Commands(records', k) = Commands(records, k)
    BY <1>4, <1>6 DEF Of, Commands
  <2> QED BY <1>6, <2>1 DEF Tells
<1>7. ASSUME written[m] = new PROVE Tells(records', written, m)
  <2>1. r \in Commands(records', m)
    BY <1>4 DEF Of, Commands
  <2>2. \A s \in Commands(records', m) : Earlier(s, r)
    <3>1. \A s \in Commands(records', m) : s = r \/ s \in RecordsOf(m)
        BY <1>4 DEF Of, RecordsOf, Commands
    <3>2. r.id \in Nat /\ r.at \in Nat /\ r.sequence \in Nat
        BY LedgerAssumption DEF Record
    <3> QED BY <1>4, <3>1, <3>2 DEF Earlier
  <2> QED BY <1>4, <1>7, <2>1, <2>2 DEF Tells
<1>8. Truth'
  <2>1. \A k \in Memory \ untold' : Tells(records', written, k)
    BY <1>1, <1>6, <1>7 DEF IInv, Truth
  <2> QED BY <1>1, <2>1 DEF IInv, Truth
<1>9. Gaps'
    BY <1>1, <1>3 DEF IInv, Gaps
<1> QED BY <1>1, <1>3, <1>5, <1>8, <1>9 DEF IInv

\* A body ends, by itself or not; an undo begins, or dies.
LEMMA ModeInv ==
    ASSUME IInv, Commit \/ Fail \/ Crash \/ \E deleteNew \in BOOLEAN : RestoreSnapshot(deleteNew) PROVE IInv'
<1>1. /\ UNCHANGED <<records, written, seen, ghosts>> /\ doing' = Nothing
      /\ \/ /\ mode = "body" /\ doing = Nothing /\ mode' = "free" /\ before' = NoSnapshot
         \/ mode # "free" /\ mode' \in Modes \ {"free", "body"} /\ before' = before
    BY DEF Commit, Fail, Crash, RestoreSnapshot, Modes, IInv, TypeOK
<1>2. TypeOK'
    BY <1>1 DEF IInv, TypeOK, ghosts, Modes
<1>3. Gaps'
    BY <1>1 DEF IInv, Gaps, ghosts, Modes
<1>4. Truth'
    BY <1>1 DEF IInv, Truth, ghosts, Modes
<1> QED BY <1>1, <1>2, <1>3, <1>4 DEF IInv, ghosts

-----------------------------------------------------------------------------
(* The undo.                                                               *)

LEMMA PutBackInv == ASSUME IInv, NEW m \in Memory, PutBack(m) PROVE IInv'
<1>1. /\ mode \in {"failing", "restoring", "deleting"} /\ before.written[m] \in Content
      /\ written' = [written EXCEPT ![m] = before.written[m]]
      /\ UNCHANGED <<records, mode, doing, before, seen, ghosts>>
    BY DEF PutBack, IInv
<1>2. TypeOK'
    BY <1>1 DEF IInv, TypeOK, ghosts
<1>3. Gaps' /\ Truth'
    BY <1>1 DEF IInv, TypeOK, Gaps, Truth, ghosts
<1> QED BY <1>1, <1>2, <1>3 DEF IInv

\* What is gone leaves its memory to the pending undo.
LEMMA RemoveInv == ASSUME IInv, NEW r \in records, Remove(r) PROVE IInv'
<1>1. /\ mode \in {"failing", "deleting"} /\ r \notin before.records
      /\ records' = records \ {r} /\ gone' = gone \cup {r.memory}
      /\ UNCHANGED <<written, mode, doing, before, seen, untold, torn>>
    BY DEF Remove, NewRecords
<1>2. r.memory \in Name
    BY DEF IInv, TypeOK, Record
<1>3. TypeOK'
    BY <1>1, <1>2 DEF IInv, TypeOK
<1>4. WellFormed(records')
    BY <1>1, PartWellFormed DEF IInv
<1>5. \A k \in Name \ gone' : Of(records', k) = Of(records, k)
    BY <1>1 DEF Of
<1>6. Gaps'
    BY <1>1, <1>5 DEF IInv, Gaps, GapFree
<1>7. Truth'
    BY <1>1 DEF IInv, TypeOK, Truth
<1> QED BY <1>1, <1>3, <1>4, <1>6, <1>7 DEF IInv

\* An undo that ends has got back to the snapshot.
LEMMA UndoDoneInv == ASSUME IInv, UndoDone PROVE IInv'
<1>1. /\ mode # "free" /\ mode' = "free" /\ before' = NoSnapshot
      /\ untold' = before.untold /\ gone' = {}
      /\ UNCHANGED <<records, written, doing, seen, torn>>
      /\ doing = Nothing
    BY DEF UndoDone, IInv, TypeOK
<1>2. records = before.records
    BY DEF UndoDone, NewRecords, IInv, TypeOK
<1>3. written = before.written
    BY DEF UndoDone, Changed, IInv, TypeOK
<1>4. TypeOK'
    BY <1>1 DEF IInv, TypeOK, Modes
<1>5. Gaps'
    BY <1>1, <1>2 DEF IInv, Gaps
<1>6. Truth'
    BY <1>1, <1>2, <1>3 DEF IInv, Truth
<1> QED BY <1>1, <1>4, <1>5, <1>6 DEF IInv

\* What is kept is no longer promised.
LEMMA KeepInv == ASSUME IInv, AcceptCurrent \/ RestoreDone PROVE IInv'
<1>1. /\ mode # "free" /\ mode # "body" /\ mode' = "free" /\ before' = NoSnapshot /\ gone' = {}
      /\ untold' = before.untold \cup Changed
                   \cup {m \in Memory : \E r \in NewRecords \cap RecordsOf(m) : r.kb}
      /\ torn' = torn \cup {m \in gone : RecordsOf(m) # Of(before.records, m)}
      /\ UNCHANGED <<records, written, doing, seen>>
      /\ doing = Nothing
    BY DEF AcceptCurrent, RestoreDone, Keep, IInv, TypeOK
<1>2. TypeOK'
    BY <1>1 DEF IInv, TypeOK, Modes, Changed
<1>3. Gaps'
  <2> SUFFICES ASSUME NEW m \in Name \ torn' PROVE GapFree(records, m)
    BY <1>1 DEF Gaps
  <2>1. CASE m \in gone
    BY <1>1, <2>1 DEF IInv, Gaps, GapFree, RecordsOf
  <2>2. CASE m \notin gone
    BY <1>1, <2>2 DEF IInv, Gaps
  <2> QED BY <2>1, <2>2
<1>4. Truth'
  <2> SUFFICES ASSUME NEW m \in Memory \ untold' PROVE Tells(records, written, m)
    BY <1>1 DEF Truth
  <2>1. written[m] = before.written[m] /\ m \notin before.untold
    BY <1>1 DEF Changed
  <2>2. Commands(records, m) = Commands(before.records, m)
    <3>1. \A r \in records : r.memory = m /\ r.kb => r \in before.records
        BY <1>1 DEF NewRecords, RecordsOf, Of
    <3>2. before.records \subseteq records
        BY <1>1 DEF IInv, TypeOK
    <3> QED BY <3>1, <3>2 DEF Commands, Of
  <2> QED BY <1>1, <2>1, <2>2 DEF IInv, Truth, Tells
<1> QED BY <1>1, <1>2, <1>3, <1>4 DEF IInv

\* Every step keeps the invariant.
LEMMA NextInv == ASSUME IInv, [Next]_vars PROVE IInv'
<1>1. CASE UNCHANGED vars
  <2>1. TypeOK'
    BY <1>1 DEF vars, IInv, TypeOK, ghosts
  <2>2. Gaps' /\ Truth'
    BY <1>1 DEF vars, IInv, Gaps, Truth, ghosts
  <2> QED BY <1>1, <2>1, <2>2 DEF vars, IInv, ghosts
<1>2. Digest \subseteq Content
    BY DEF Content
<1> QED BY <1>1, <1>2, LookInv, AppendExpectingInv, BeginInv, WriteInv, RecordNoteInv, ModeInv, PutBackInv,
           RemoveInv, UndoDoneInv, KeepInv DEF Next, Undo

LEMMA Invariance == Spec => []IInv
<1>1. IInv /\ [Next]_vars => IInv'
    BY NextInv
<1> QED BY <1>1, InitInv, PTL DEF Spec

-----------------------------------------------------------------------------
(* No two operations of a memory ever have one number, and they are         *)
(* numbered 1, 2, ... without a gap, whatever the clock says, whichever     *)
(* transactions fail or die, wherever in their undo, and whatever the owner *)
(* reconciles; but for a memory of which an undo removed some operations    *)
(* and died: while it is pending, and after the owner kept the rest         *)
(* (evidence.py _append_locked; storage.py _restore, resolve_transaction).  *)
THEOREM NumberingTheorem == Spec => []WellNumbered
<1>1. IInv => WellNumbered
    BY DEF IInv, WellNumbered, Numbered, Numbers, WellFormed, Orderly, Gaps, GapFree, RecordsOf
<1> QED BY <1>1, Invariance, PTL

(* An operation that required a previous digest directly follows the        *)
(* operation that left it (append with require_previous).  An undo that     *)
(* died half-way may have removed that one, but nothing takes its place.    *)
THEOREM ExpectationTheorem == Spec => []ExpectationsHold
<1>1. IInv => ExpectationsHold
  <2> SUFFICES ASSUME IInv, NEW r \in records, r.expected # Anything
               PROVE  /\ r.sequence = 1 => r.expected = NoDigest
                      /\ \A s \in RecordsOf(r.memory) : s.sequence = r.sequence - 1 => s.new = r.expected
                      /\ r.sequence > 1 /\ r.memory \notin gone \cup torn =>
                            \E s \in RecordsOf(r.memory) : s.sequence = r.sequence - 1
    BY DEF ExpectationsHold
  <2>1. r.memory \in Name /\ r.sequence \in Nat \ {0} /\ r \in RecordsOf(r.memory)
    BY DEF IInv, TypeOK, Record, RecordsOf, Of
  <2>2. ASSUME r.sequence > 1, r.memory \notin gone \cup torn
        PROVE  \E s \in RecordsOf(r.memory) : s.sequence = r.sequence - 1
    <3> DEFINE R == RecordsOf(r.memory)
               n == Cardinality(R)
    <3>1. {s.sequence : s \in R} = 1 .. n /\ n \in Nat
        BY <2>1, <2>2, FS_CardinalityType DEF IInv, Gaps, GapFree, RecordsOf, WellFormed, Orderly
    <3> HIDE DEF n
    <3>2. r.sequence - 1 \in 1 .. n
        BY <2>1, <2>2, <3>1
    <3> QED BY <3>1, <3>2
  <2> QED BY <2>2 DEF IInv, WellFormed, ExpectedIn, RecordsOf
<1> QED BY <1>1, Invariance, PTL

(* Outside a transaction the last operation of a command tells what the KB  *)
(* has put into the note (lifecycle.py _rewrite, learning.py remember),     *)
(* however the undo of failures and crashes went; except, until the next    *)
(* operation, where kb migrate or the repair of a note without an id has    *)
(* changed it, or the owner has kept what a crash left.                     *)
THEOREM TruthTheorem == Spec => []RecordsTellTheTruth
<1>1. IInv => RecordsTellTheTruth
    BY DEF IInv, RecordsTellTheTruth, Truth
<1> QED BY <1>1, Invariance, PTL

-----------------------------------------------------------------------------
(* Consolidation.  What waits to be remembered without force has been      *)
(* earned in the repository of its episode: what was earned once stays so, *)
(* because no episode is ever removed.                                     *)

\* Runs of one repository that are independent and mention the text.
Corroborate(S, text, repository) ==
    /\ \A e \in S : e.repository = repository /\ Normal[text] \in Mentions(e)
    /\ \A d, e \in S : d # e => d.task # e.task \/ d.commit # e.commit \/ d.cited # e.cited

EarnedFact(f, repository) ==
    IF f.kind = "procedure"
    THEN \E e \in stored : f = Procedure(e) /\ e.success /\ Proof(e) \cap proven \cap Evaluation # {}
    ELSE \E S \in SUBSET stored : Cardinality(S) >= Threshold /\ Corroborate(S, f.text, repository)

Plain == {f \in Fact : f.kind # "procedure"}
Earned(repository) == {f \in Fact : EarnedFact(f, repository)}

EarnedCall(c) ==
    /\ c.episode \in stored
    /\ c.todo \in Seq(Plain)
    /\ c.step # "gate" => c.episode.repository = Here
    /\ ~c.force => c.chosen \in Seq(Earned(c.episode.repository))

CallsInv == \A p \in Learner : learning[p] # Waiting => EarnedCall(learning[p])

LearnInv == FactsAreEarned /\ IsFiniteSet(stored) /\ CallsInv

\* recurrence counts runs: it finds as many episodes that are independent.
LEMMA RecurrenceCorroborates ==
    ASSUME IsFiniteSet(stored), NEW text, NEW repository,
           Recurrence(stored, text, repository) >= Threshold
    PROVE  \E S \in SUBSET stored : Cardinality(S) >= Threshold /\ Corroborate(S, text, repository)
<1> DEFINE X == {x \in stored : x.repository = repository /\ Normal[text] \in Mentions(x)}
           R == {Run(e) : e \in X}
           g == [r \in R |-> CHOOSE e \in X : Run(e) = r]
           S == {g[r] : r \in R}
           h == [e \in S |-> Run(e)]
<1>1. \A r \in R : g[r] \in X /\ Run(g[r]) = r
    OBVIOUS
<1>2. S \subseteq X /\ X \subseteq stored
    BY <1>1
<1> HIDE DEF g, X
<1>3. IsFiniteSet(S)
    BY <1>2, FS_Subset
<1>4. \A e \in S : Run(e) \in R /\ e = g[Run(e)]
    BY <1>1
<1> HIDE DEF R
<1>5. h \in Bijection(S, R)
    <2>1. \A e \in S : h[e] = Run(e)
        OBVIOUS
    <2>2. h \in [S -> R]
        BY <1>4
    <2>3. \A d, e \in S : h[d] = h[e] => d = e
        BY <1>4, <2>1
    <2>4. \A r \in R : g[r] \in S /\ h[g[r]] = r
        BY <1>1, <2>1
    <2> HIDE DEF S, h
    <2> QED
        BY <2>2, <2>3, <2>4 DEF Bijection, Injection, Surjection, IsInjective
<1>6. Cardinality(R) = Cardinality(S)
    BY <1>3, <1>5, FS_Bijection DEF ExistsBijection
<1>7. Recurrence(stored, text, repository) = Cardinality(R)
    BY DEF Recurrence, R, X
<1>8. Corroborate(S, text, repository)
    <2>1. \A e \in S : e.repository = repository /\ Normal[text] \in Mentions(e)
        BY <1>2 DEF X
    <2>2. \A d, e \in S : d # e => Run(d) # Run(e)
        BY <1>4
    <2> QED
        BY <2>1, <2>2 DEF Corroborate, Run
<1> QED
    BY <1>2, <1>6, <1>7, <1>8

\* What was earned stays earned.
LEMMA EarnedStays ==
    ASSUME stored \subseteq stored', proven \subseteq proven', NEW repository
    PROVE  /\ \A f : EarnedFact(f, repository) => EarnedFact(f, repository)'
           /\ Earned(repository) \subseteq Earned(repository)'
<1>1. \A f : EarnedFact(f, repository) => EarnedFact(f, repository)'
    BY DEF EarnedFact, Corroborate
<1> QED
    BY <1>1 DEF Earned

LEMMA CallStays ==
    ASSUME stored \subseteq stored', proven \subseteq proven', NEW c, EarnedCall(c)
    PROVE  EarnedCall(c)'
<1>1. Earned(c.episode.repository) \subseteq Earned(c.episode.repository)'
    BY EarnedStays
<1> QED
    BY <1>1, SeqMonotonic DEF EarnedCall

\* Observations and failed hypotheses are plain facts.
LEMMA ObservedType ==
    ASSUME NEW e \in Episode PROVE Observed(e) \in Seq(Plain)
<1> DEFINE K == [kind : {"fact", "negative-result"}, text : DOMAIN Normal]
           a == [i \in DOMAIN e.observed |-> [kind |-> "fact", text |-> e.observed[i]]]
           b == [i \in DOMAIN e.failed |-> [kind |-> "negative-result", text |-> e.failed[i]]]
<1>1. e.observed \in Seq(DOMAIN Normal) /\ e.failed \in Seq(DOMAIN Normal)
    BY ConsolidationAssumption
<1>2. a \in Seq(K) /\ b \in Seq(K)
    <2>1. \A n \in Nat : [1 .. n -> K] \subseteq Seq(K)
        <3> HIDE DEF K
        <3> QED
            BY SeqDef, Zenon
    <2>2. /\ Len(e.observed) \in Nat /\ e.observed \in [1 .. Len(e.observed) -> DOMAIN Normal]
          /\ Len(e.failed) \in Nat /\ e.failed \in [1 .. Len(e.failed) -> DOMAIN Normal]
        BY <1>1, LenProperties
    <2>3. a \in [1 .. Len(e.observed) -> K] /\ b \in [1 .. Len(e.failed) -> K]
        BY <2>2
    <2> HIDE DEF a, b, K
    <2> QED
        BY <2>1, <2>2, <2>3
<1>3. Observed(e) \in Seq(K)
    BY <1>2, ConcatProperties DEF Observed
<1>4. \A i \in 1 .. Len(Observed(e)) : Observed(e)[i] \in Plain
    <2>1. \A i \in 1 .. Len(Observed(e)) : Observed(e)[i] \in Range(Observed(e)) /\ Observed(e)[i] \in K
        <3> HIDE DEF K
        <3> QED
            BY <1>3, LenProperties, ElementOfSeq DEF Range
    <2> QED
        BY <2>1 DEF Plain, Fact
<1> QED
    BY <1>3, <1>4

-----------------------------------------------------------------------------
\* The notes and the ghosts are as they were, or there are more episodes and more evidence.
LEMMA NotesStay ==
    ASSUME LearnInv, UNCHANGED <<notes, forced, rejected, gathered>>,
           stored \subseteq stored', proven \subseteq proven'
    PROVE  Corroborated' /\ EvidenceGathers' /\ NotLearnedAnew'
<1>1. Corroborated'
    <2>1. \A f \in Fact : EarnedFact(f, Here) => EarnedFact(f, Here)'
        BY EarnedStays
    <2> QED
        BY <2>1 DEF LearnInv, FactsAreEarned, Corroborated, EarnedFact, BearOut, Corroborate
<1>2. EvidenceGathers' /\ NotLearnedAnew'
    BY DEF LearnInv, FactsAreEarned, EvidenceGathers, NotLearnedAnew
<1> QED
    BY <1>1, <1>2

LEMMA LearnInitially == LearnInit => LearnInv
<1> SUFFICES ASSUME LearnInit PROVE LearnInv
    OBVIOUS
<1> USE DEF LearnInit
<1>1. LearnTypeOK
    BY DEF LearnTypeOK
<1>2. Corroborated /\ EvidenceGathers /\ NotLearnedAnew
    BY DEF Corroborated, EvidenceGathers, NotLearnedAnew
<1>3. IsFiniteSet(stored) /\ CallsInv
    BY FS_EmptySet DEF CallsInv
<1> QED
    BY <1>1, <1>2, <1>3 DEF LearnInv, FactsAreEarned

\* Episodes and evidence come, and evidence is spoilt.
LEMMA StoresKeep ==
    ASSUME LearnInv, \/ \E e \in Episode : Capture(e)
                     \/ \E i \in Evidence : Store(i) \/ Spoil(i)
                     \/ UNCHANGED learnVars
    PROVE  LearnInv'
<1>1. /\ UNCHANGED <<notes, forced, rejected, gathered, learning>>
      /\ stored \subseteq stored' /\ proven \subseteq proven'
    BY DEF Capture, Store, Spoil, learnVars
<1>2. LearnTypeOK'
    BY <1>1, ConsolidationAssumption DEF LearnInv, FactsAreEarned, LearnTypeOK, Capture, Store, Spoil, learnVars
<1>3. IsFiniteSet(stored')
    BY FS_AddElement DEF LearnInv, Capture, Store, Spoil, learnVars
<1>4. CallsInv'
    BY <1>1, CallStays DEF LearnInv, CallsInv
<1> QED
    BY <1>1, <1>2, <1>3, <1>4, NotesStay DEF LearnInv, FactsAreEarned

\* A call comes in, goes on or ends, and the notes are as they were.
LEMMA CallKeeps ==
    ASSUME LearnInv, NEW p \in Learner, NEW c, c = Waiting \/ (c \in Calls /\ EarnedCall(c)),
           learning' = [learning EXCEPT ![p] = c],
           UNCHANGED <<stored, genuine, notes, proven, forced, rejected, gathered>>
    PROVE  LearnInv'
<1>1. LearnTypeOK'
    BY DEF LearnInv, FactsAreEarned, LearnTypeOK
<1>2. CallsInv'
    <2>1. \A q \in Learner : learning'[q] # Waiting => EarnedCall(learning'[q])
        BY DEF LearnInv, FactsAreEarned, LearnTypeOK, CallsInv
    <2> QED
        BY <2>1, CallStays DEF CallsInv
<1> QED
    BY <1>1, <1>2, NotesStay DEF LearnInv, FactsAreEarned

LEMMA ConsolidateKeeps ==
    ASSUME LearnInv, NEW p \in Learner, NEW e \in Episode, NEW force \in BOOLEAN, Consolidate(p, e, force)
    PROVE  LearnInv'
<1> DEFINE c == [step |-> "gate", episode |-> e, force |-> force, todo |-> Observed(e), chosen |-> <<>>]
<1>1. Observed(e) \in Seq(Plain) /\ Observed(e) \in Seq(Fact)
    BY ObservedType, SeqMonotonic DEF Plain
<1>2. c \in Calls
    BY <1>1 DEF Calls
<1>3. EarnedCall(c)
    BY <1>1 DEF EarnedCall, Consolidate
<1> QED
    BY <1>2, <1>3, CallKeeps DEF Consolidate

LEMMA GateKeeps == ASSUME LearnInv, NEW p \in Learner, Gate(p) PROVE LearnInv'
<1> DEFINE c == learning[p]
           f == Head(c.todo)
           recurs == Recurrence(stored, f.text, c.episode.repository) >= Threshold
           d == [c EXCEPT !.todo = Tail(@), !.chosen = IF c.force \/ recurs THEN Append(@, f) ELSE @]
<1>1. c \in Calls /\ EarnedCall(c) /\ c.step = "gate" /\ c.todo # <<>>
    BY DEF LearnInv, FactsAreEarned, LearnTypeOK, CallsInv, Gate, Waiting
<1>2. f \in Plain /\ Tail(c.todo) \in Seq(Plain) /\ Tail(c.todo) \in Seq(Fact) /\ f \in Fact
    BY <1>1, HeadTailProperties, SeqMonotonic DEF EarnedCall, Plain
<1>3. recurs => f \in Earned(c.episode.repository)
    <2> SUFFICES ASSUME recurs PROVE EarnedFact(f, c.episode.repository)
        BY <1>2 DEF Earned
    <2>1. IsFiniteSet(stored)
        BY DEF LearnInv
    <2>2. \E S \in SUBSET stored : Cardinality(S) >= Threshold /\ Corroborate(S, f.text, c.episode.repository)
        BY <2>1, RecurrenceCorroborates
    <2> QED
        BY <1>2, <2>2 DEF EarnedFact, Plain
<1> HIDE DEF f, recurs, c
<1>4. d \in Calls
    <2>1. (IF c.force \/ recurs THEN Append(c.chosen, f) ELSE c.chosen) \in Seq(Fact)
        BY <1>1, <1>2, AppendProperties DEF Calls
    <2> QED
        BY <1>1, <1>2, <2>1 DEF Calls
<1>5. EarnedCall(d)
    <2>1. ~c.force => (IF c.force \/ recurs THEN Append(c.chosen, f) ELSE c.chosen) \in Seq(Earned(c.episode.repository))
        BY <1>1, <1>3, AppendProperties DEF EarnedCall
    <2>2. /\ d.episode = c.episode /\ d.step = c.step /\ d.force = c.force /\ d.todo = Tail(c.todo)
          /\ d.chosen = IF c.force \/ recurs THEN Append(c.chosen, f) ELSE c.chosen
        BY <1>1 DEF Calls
    <2> HIDE DEF d
    <2> QED
        BY <1>1, <1>2, <2>1, <2>2 DEF EarnedCall
<1>6. learning' = [learning EXCEPT ![p] = d]
    BY DEF Gate, c, f, recurs
<1> HIDE DEF d
<1> QED
    BY <1>4, <1>5, <1>6, CallKeeps DEF Gate

LEMMA ProveKeeps == ASSUME LearnInv, NEW p \in Learner, Prove(p) PROVE LearnInv'
<1> DEFINE c == learning[p]
           e == c.episode
           evaluated == e.success /\ e.actions # <<>> /\ Proof(e) \cap genuine \cap Evaluation # {}
           chosen == IF evaluated THEN Append(c.chosen, Procedure(e)) ELSE c.chosen
           d == [c EXCEPT !.step = "remember", !.chosen = chosen]
<1>1. c \in Calls /\ EarnedCall(c) /\ c.step = "gate" /\ genuine \subseteq proven
    BY DEF LearnInv, FactsAreEarned, LearnTypeOK, CallsInv, Prove, Waiting
<1>2. e \in Episode /\ e \in stored /\ Procedure(e) \in Fact
    BY <1>1 DEF EarnedCall, Calls, Fact
<1>3. evaluated => Procedure(e) \in Earned(e.repository)
    <2> SUFFICES ASSUME evaluated PROVE EarnedFact(Procedure(e), e.repository)
        BY <1>2 DEF Earned
    <2>1. Procedure(e).kind = "procedure"
        BY DEF Procedure
    <2> QED
        BY <1>1, <1>2, <2>1 DEF EarnedFact
<1> HIDE DEF evaluated, e, c
<1>4. chosen \in Seq(Fact)
    BY <1>1, <1>2, AppendProperties DEF Calls
<1>5. ~c.force => chosen \in Seq(Earned(e.repository))
    BY <1>1, <1>3, AppendProperties DEF EarnedCall, e
<1> HIDE DEF chosen
<1>6. /\ d \in Calls /\ d.step = "remember" /\ d.chosen = chosen
      /\ d.todo = c.todo /\ d.episode = e /\ d.force = c.force
    BY <1>1, <1>4 DEF Calls, e
<1> HIDE DEF d
<1>7. e.repository = Here => EarnedCall(d)
    BY <1>1, <1>2, <1>5, <1>6 DEF EarnedCall, e
<1>8. learning' = [learning EXCEPT ![p] = IF e.repository # Here THEN Waiting ELSE d]
    BY DEF Prove, c, e, evaluated, chosen, d
<1> QED
    BY <1>6, <1>7, <1>8, CallKeeps DEF Prove

LEMMA EndKeeps == ASSUME LearnInv, NEW p \in Learner, Refuse(p) \/ Consolidated(p) PROVE LearnInv'
    BY CallKeeps DEF Refuse, Consolidated

\* The note of the fact is new, or gains the evidence, or is left alone.
LEMMA RememberKeeps == ASSUME LearnInv, NEW p \in Learner, Remember(p) PROVE LearnInv'
<1> DEFINE c == learning[p]
           e == c.episode
           f == Head(c.chosen)
           d == [c EXCEPT !.chosen = Tail(@)]
<1>1. c \in Calls /\ EarnedCall(c) /\ c.step = "remember" /\ c.chosen # <<>>
    BY DEF LearnInv, FactsAreEarned, LearnTypeOK, CallsInv, Remember, Remembering, Waiting
<1>2. e \in Episode /\ f \in Fact /\ Tail(c.chosen) \in Seq(Fact)
    BY <1>1, HeadTailProperties DEF Calls
<1>3. Proof(e) \subseteq Evidence
    BY <1>2, ConsolidationAssumption DEF Proof
<1>4. ~c.force => f \in Earned(Here) /\ Tail(c.chosen) \in Seq(Earned(Here))
    BY <1>1, HeadTailProperties DEF EarnedCall
<1>5. /\ notes' = [notes EXCEPT ![f] = Noted(@, e, f)]
      /\ forced' = IF notes[f] = NoNote /\ c.force THEN forced \cup {f} ELSE forced
      /\ rejected' = IF notes[f] = NoNote /\ f \in Unsafe THEN rejected \cup {f} ELSE rejected
      /\ gathered' = gathered \cup {<<e, f>>}
      /\ learning' = [learning EXCEPT ![p] = d]
      /\ UNCHANGED <<stored, genuine, proven>>
    BY DEF Remember
<1>6. d \in Calls /\ EarnedCall(d)
    BY <1>1, <1>2, <1>4 DEF Calls, EarnedCall
<1> HIDE DEF c, e, f, d
<1>7. /\ notes \in [Fact -> [live : BOOLEAN, evidence : SUBSET Evidence] \cup {NoNote}]
      /\ NoNote \notin [live : BOOLEAN, evidence : SUBSET Evidence]
    BY ConsolidationAssumption DEF LearnInv, FactsAreEarned, LearnTypeOK
<1> DEFINE Note == [live : BOOLEAN, evidence : SUBSET Evidence]
           n == notes'[f]
<1>8. n = Noted(notes[f], e, f)
    BY <1>2, <1>5, <1>7
<1>9. /\ n \in Note /\ n # NoNote
      /\ n.live => Proof(e) \subseteq n.evidence
      /\ notes[f] = NoNote => (n.live <=> f \notin Unsafe)
      /\ notes[f] # NoNote => n.live = notes[f].live /\ notes[f].evidence \subseteq n.evidence
    <2>1. notes[f] \in Note \cup {NoNote}
        BY <1>2, <1>7
    <2> HIDE DEF n
    <2>2. CASE notes[f] = NoNote
        <3>1. n = [live |-> f \notin Unsafe, evidence |-> Proof(e)]
            BY <1>8, <2>2 DEF Noted
        <3>2. n \in Note /\ n.evidence = Proof(e)
            BY <1>3, <3>1
        <3>3. n.live <=> f \notin Unsafe
            BY <3>1
        <3> HIDE DEF Note
        <3>4. n # NoNote
            BY <1>7, <3>2 DEF Note
        <3> QED
            BY <2>2, <3>2, <3>3, <3>4
    <2>3. CASE notes[f] # NoNote /\ notes[f].live
        <3>1. n = [notes[f] EXCEPT !.evidence = @ \cup Proof(e)]
            BY <1>8, <2>3 DEF Noted
        <3> QED
            BY <1>3, <1>7, <2>1, <2>3, <3>1
    <2>4. CASE notes[f] # NoNote /\ ~notes[f].live
        BY <1>7, <1>8, <2>1, <2>4 DEF Noted
    <2> QED
        BY <2>2, <2>3, <2>4
<1>10. \A g \in Fact : g # f => notes'[g] = notes[g]
    BY <1>5
<1>11. notes' \in [Fact -> Note \cup {NoNote}]
    <2>1. DOMAIN notes' = Fact /\ notes' = [g \in Fact |-> notes'[g]]
        BY <1>5, <1>7
    <2>2. \A g \in Fact : notes'[g] \in Note \cup {NoNote}
        BY <1>7, <1>9, <1>10
    <2> HIDE DEF Note
    <2> QED
        BY <2>1, <2>2
<1> HIDE DEF n
<1>12. LearnTypeOK'
    BY <1>2, <1>5, <1>6, <1>11 DEF LearnInv, FactsAreEarned, LearnTypeOK
<1>13. CallsInv'
    <2>1. \A q \in Learner : learning'[q] # Waiting => EarnedCall(learning'[q])
        BY <1>5, <1>6 DEF LearnInv, FactsAreEarned, LearnTypeOK, CallsInv
    <2> QED
        BY <1>5, <2>1, CallStays DEF CallsInv
<1>14. Corroborated'
    <2>1. \A g : EarnedFact(g, Here) => EarnedFact(g, Here)'
        BY <1>5, EarnedStays
    <2>2. ASSUME NEW g \in Fact \ forced', notes'[g] # NoNote PROVE EarnedFact(g, Here)
        <3>1. CASE notes[g] # NoNote
            BY <1>5, <2>2, <3>1 DEF LearnInv, FactsAreEarned, Corroborated, EarnedFact, BearOut, Corroborate
        <3>2. CASE notes[g] = NoNote
            BY <1>4, <1>5, <1>10, <2>2, <3>2 DEF Earned
        <3> QED
            BY <3>1, <3>2
    <2> QED
        BY <2>1, <2>2 DEF Corroborated, EarnedFact, BearOut, Corroborate
<1>15. EvidenceGathers'
    <2> SUFFICES ASSUME NEW x \in gathered'
                 PROVE  notes'[x[2]] # NoNote /\ (notes'[x[2]].live => Proof(x[1]) \subseteq notes'[x[2]].evidence)
        BY DEF EvidenceGathers, Proof
    <2>1. CASE x = <<e, f>>
        BY <1>9, <2>1 DEF n
    <2>2. CASE x \in gathered
        <3>1. x[2] \in Fact /\ notes[x[2]] # NoNote
              /\ (notes[x[2]].live => Proof(x[1]) \subseteq notes[x[2]].evidence)
            BY <2>2 DEF LearnInv, FactsAreEarned, LearnTypeOK, EvidenceGathers
        <3> QED
            BY <1>9, <1>10, <3>1 DEF n
    <2> QED
        BY <1>5, <2>1, <2>2
<1>16. NotLearnedAnew'
    <2> SUFFICES ASSUME NEW g \in rejected' PROVE notes'[g] # NoNote /\ ~notes'[g].live
        BY DEF NotLearnedAnew
    <2>1. CASE g \in rejected
        <3>1. g \in Fact /\ notes[g] # NoNote /\ ~notes[g].live
            BY <2>1 DEF LearnInv, FactsAreEarned, LearnTypeOK, NotLearnedAnew
        <3> QED
            BY <1>9, <1>10, <3>1 DEF n
    <2>2. CASE g \notin rejected
        BY <1>5, <1>9, <2>2 DEF n
    <2> QED
        BY <2>1, <2>2
<1> QED
    BY <1>5, <1>12, <1>13, <1>14, <1>15, <1>16 DEF LearnInv, FactsAreEarned

\* A note is retired, edited or deleted.
LEMMA ApartKeeps == ASSUME LearnInv, NEW f \in Fact, SetApart(f) \/ Delete(f) PROVE LearnInv'
<1> DEFINE Note == [live : BOOLEAN, evidence : SUBSET Evidence]
<1>1. /\ notes \in [Fact -> Note \cup {NoNote}] /\ NoNote \notin Note /\ notes[f] \in Note
      /\ UNCHANGED <<stored, genuine, learning, proven>>
    BY ConsolidationAssumption DEF LearnInv, FactsAreEarned, LearnTypeOK, SetApart, Delete
<1>2. /\ \A g \in Fact : g # f => notes'[g] = notes[g]
      /\ SetApart(f) => notes'[f] \in Note /\ ~notes'[f].live
      /\ Delete(f) => notes'[f] = NoNote
      /\ notes' \in [Fact -> Note \cup {NoNote}]
    <2>1. CASE SetApart(f)
        <3>1. notes' = [notes EXCEPT ![f] = [notes[f] EXCEPT !.live = FALSE]]
            BY <2>1 DEF SetApart
        <3>2. [notes[f] EXCEPT !.live = FALSE] \in Note /\ ~[notes[f] EXCEPT !.live = FALSE].live
            BY <1>1
        <3>3. ~Delete(f)
            BY <1>1, <3>1, <3>2 DEF Delete
        <3> HIDE DEF Note
        <3> QED
            BY <1>1, <3>1, <3>2, <3>3
    <2>2. CASE Delete(f)
        <3>1. notes' = [notes EXCEPT ![f] = NoNote]
            BY <2>2 DEF Delete
        <3>2. ~SetApart(f)
            BY <1>1, <3>1 DEF SetApart
        <3> HIDE DEF Note
        <3> QED
            BY <1>1, <3>1, <3>2
    <2> QED
        BY <2>1, <2>2
<1>3. LearnTypeOK'
    BY <1>1, <1>2 DEF LearnInv, FactsAreEarned, LearnTypeOK, SetApart, Delete
<1>4. CallsInv'
    BY <1>1, CallStays DEF LearnInv, CallsInv
<1>5. Corroborated'
    <2>1. \A g : EarnedFact(g, Here) => EarnedFact(g, Here)'
        BY <1>1, EarnedStays
    <2>2. ASSUME NEW g \in Fact \ forced', notes'[g] # NoNote PROVE EarnedFact(g, Here)
        <3>1. g \notin forced /\ notes[g] # NoNote
            BY <1>1, <1>2, <2>2 DEF SetApart, Delete
        <3> QED
            BY <2>2, <3>1 DEF LearnInv, FactsAreEarned, Corroborated, EarnedFact, BearOut, Corroborate
    <2> QED
        BY <2>1, <2>2 DEF Corroborated, EarnedFact, BearOut, Corroborate
<1>6. EvidenceGathers' /\ NotLearnedAnew'
    <2>1. \A x \in gathered' : x \in gathered /\ x[2] \in Fact /\ (Delete(f) => x[2] # f)
        BY DEF LearnInv, FactsAreEarned, LearnTypeOK, SetApart, Delete
    <2>2. \A g \in rejected' : g \in Fact /\ (g = f => SetApart(f)) /\ (g # f => g \in rejected)
        BY DEF LearnInv, FactsAreEarned, LearnTypeOK, SetApart, Delete
    <2> QED
        BY <1>1, <1>2, <2>1, <2>2 DEF LearnInv, FactsAreEarned, EvidenceGathers, NotLearnedAnew, Proof
<1> QED
    BY <1>1, <1>3, <1>4, <1>5, <1>6 DEF LearnInv, FactsAreEarned

(* Whatever is captured, damaged, retired or deleted while learners work,   *)
(* what they noted without --force was found by enough independent runs, or *)
(* confirmed by an evaluation; notes gather all evidence of their fact, and *)
(* what was retired is not learned anew (learning.py consolidate_episode,   *)
(* remember).                                                               *)
THEOREM FactsTheorem == LearnSpec => []FactsAreEarned
<1>1. LearnInv /\ [LearnNext]_learnVars => LearnInv'
    <2> SUFFICES ASSUME LearnInv, [LearnNext]_learnVars PROVE LearnInv'
        OBVIOUS
    <2> QED
        BY StoresKeep, ConsolidateKeeps, GateKeeps, ProveKeeps, EndKeeps, RememberKeeps, ApartKeeps DEF LearnNext
<1>2. LearnInv => FactsAreEarned
    BY DEF LearnInv
<1> QED
    BY <1>1, <1>2, LearnInitially, PTL DEF LearnSpec
=============================================================================
