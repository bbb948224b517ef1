# A formal model of autonomic-obsidian-kb

`autonomic_kb` (under `src/src/autonomic_kb/`) keeps the memory of coding agents as
Markdown notes in an Obsidian vault. Short-lived `kb` processes and an MCP server change
the vault; Obsidian, sync tools and people change the same files without telling them.
This directory holds TLA+ modules that model the parts whose correctness depends on the
order of steps, TLC configurations that check them, and TLAPS proofs.

    tlc -workers 2 -config MCSemanticTransaction.cfg MCSemanticTransaction
    tlapm SemanticTransactionProofs.tla

## Inventory

Paths are relative to `src/src/autonomic_kb/`.

| Component | State | Operations | Talks to | What is hard; what makes it correct |
|---|---|---|---|---|
| Vault lock (`storage.py:35-71`) | `.kb-writer.lock` (flock), a thread lock per vault, a thread-local set of held vaults | enter, re-enter, leave | every writer | one holder across threads and processes; re-entry does not deadlock or release early |
| Semantic transactions (`storage.py:175-459`) | notes, ledger files, `.kb-transactions/ID.json` and `ID/`, `.kb/rolled-back/` | begin (snapshot), commit, roll back, recover, `kb reconcile` | vault lock; all commands that edit notes run inside one | crashes at every step, editors that take no lock, hard-linked snapshots: all or nothing, and nothing of the editors' work lost |
| Learning (`learning.py`) | notes, index, evidence | remember, distil episodes | transaction, index, ledger, security | admission: what may become active without review |
| Lifecycle (`lifecycle.py`) | notes' status and directory | promote, revalidate, supersede, merge, split | index rows read before the lock; transaction | check-then-act over the lock; a retired note must not come back, a replaced one must have a successor |
| Healing (`healing.py`) | notes, `.kb/backups` | heal, compact, forget | validation before the lock; transaction | a plan applied to a vault that has changed |
| Validation (`validation.py`) | none | validate, queue | index, repository files | which statuses it looks at |
| Evidence and ledger (`evidence.py`) | content-addressed records; append-only operations | put, verify, append, last_for | transaction (operations are protected, evidence is not) | sequence numbers from files; records of rolled-back work |
| Knowledge index (`index.py`) | SQLite rows, manifest of mtime/size/inode/ctime, identities | index_vault, get, all_notes | vault files, transactions (a refresh recovers) | stale rows, duplicates, SAVEPOINT inside a connection |
| Context inventory and receipts (`context_state.py`, `mcp_server.py:429-470`, `retrieval.py:347-375`) | acknowledged revisions per session, receipts | get, acknowledge, check | retrieval | unlocked overwrite, epochs, a stale receipt |
| Task leases (`leases.py`) | one file per task | acquire, find, release | vault lock | expiry, unlocked find that unlinks |
| Retrieval (`retrieval.py`, `read_policy.py`, `security.py`) | none of its own | retrieve, gates | index, inventory | the budget loop ends within budget; gates |
| Telemetry (`telemetry.py`), episodes (`episodes.py`) | JSONL files, migration marker | append, migrate | vault lock | crash between files of the migration |
| Applicability, sufficiency, scoring, tokenizer, compiler | none | pure functions | retrieval | boundary cases of version ranges |
| CLI, MCP server, replay, benchmark, migrations, graphs, observability, dashboards, config, markdown, scripts | - | - | - | dispatch, I/O and reports |

Interactions. Everything that edits notes runs `with semantic_transaction(vault)`, which
holds the vault lock. Commands other than `remember` read the index **before** they enter
the transaction. Index refreshes (also those of readers) call `recover_transactions`, which
refuses to go on while the journal of an interrupted transaction is there.

`PROJECT.json` lists the hazards of this code, each at its line, with the properties that
cover it or the reason none does yet.

## Modules

    SemanticTransaction ─ SemanticTransactionProofs
        │ implements
    AtomicVault ◄── why a transaction is one step in Lifecycle and Consolidation
    OperationLedger ┐                            (a transaction and its undo, record by record)
    Consolidation   ┴──── OperationLedgerProofs  (one transaction per candidate, no lock between them)
    Lifecycle ─────────── LifecycleProofs
    KnowledgeIndex ────── KnowledgeIndexProofs   (one refresh under the lock)
    EvidenceStore ─────── EvidenceStoreProofs    (no lock)
    ReadGate ─ Retrieval ─ RetrievalProofs       (one request)
    ContextInventory ──── ContextInventoryProofs (many calls, no lock)
    VaultLock ┐
    TaskLease ┼────────── LockedStoresProofs
    Telemetry ┘
    MCLockedStores = VaultLock, TaskLease, Telemetry side by side
    MCOperationLedger = OperationLedger, Consolidation side by side

Each module's header comment says which lines it models; `PROJECT.json` maps every
definition to its lines. Definitions marked "A mutant of ..." are plausible bugs beside the
definition they replace. No specification uses them; they show that a property can fail.

### SemanticTransaction

A file is a name (`dir`) for an inode, whose bytes are in `data`. This is the level at
which the design argues: KB writes are atomic (`Replace`: a new inode under the name), so
the hard link the snapshot made still has the old bytes; in-place saves of editors
(`ExtSave`) change the inode and so appear under both names. `snap` is the snapshot
directory, `aside` is `.kb/rolled-back/`, `journal` is the journal file in its three forms
(none, `files: null`, `files` recorded) and `recorded` the inode numbers in it. `vault_lock` admits one holder, whose
program counter is `phase`, with `todo`, `doomed`, `from` and `unavailable` as the local
variables of its loops. Every system call that matters is a step of its own, so that
crashes and outsiders fit between any two:

| Actions | Code |
|---|---|
| `Begin`, `SnapshotStat`, `SnapshotLink`, `SnapshotSkip`, `SnapshotDone`, `SnapshotFail` | `semantic_transaction` 424-443, `_snapshot` |
| `Write`, `MoveLink`, `MoveUnlink`, `Unlink` | what the bodies do: `_rewrite` and `_archive` (atomic_write, then move_into), ledger appends, `forget --hard` (one unlink, and then only the new ledger record) |
| `Commit`, `Fail`, `SetAside...`, `Restore...`, `RollbackDone`, `RollbackIncomplete` | `semantic_transaction` 446-459, `_restore` |
| `Crash` | any death of the process; also an OSError out of `_restore`, which leaves the journal the same way |
| `Recover`, `AcceptCurrent`, `RestoreSnapshot`, `Resolve...` | `recover_transactions`, `resolve_transaction` |
| `ExtSave`, `ExtReplace`, `ExtDelete`, `SnapshotLost`, `EmptyRolledBack` | editors, sync tools, people |

Three ghosts observe the run and are read by no guard. `expected[p]` is what `p` must hold
if the transaction is undone: its bytes at the start, updated by in-place saves to the
original inode, and `Unknown` once an outsider has replaced or removed the name. `touched`
are the names whose present state is an uncommitted change. `exempt` are names whose
snapshot or record an outsider has spoilt.

Bodies do not write a name that was just hard-deleted, and they move a note only after
having rewritten it: both are facts about all callers in `lifecycle.py`, `healing.py` and
`learning.py`, and the proofs need the second.

Properties: `BeforeStateRecoverable`, `RollbackExact`, `NoPartialTransaction`,
`ReconcileExact`, `DeletesOnlyNewFiles`, `RollbackLeavesOthersAlone`, `MissesOnlyWhatWasLost`; the
comments above them in the module say what each means. The exactness properties are
conditional on `CanLink`: the module docstring of `storage.py` promises them for linked
snapshots. Without links an in-place save between the snapshot and a KB write of the same
note is lost on rollback. `MissesOnlyWhatWasLost` and the last two before it need no links.

### AtomicVault

What SemanticTransaction is for, with no inodes, links, journal states or loops: `vault`
(path to content, `Unknown` where nothing can be promised) and `mode`. Only `Commit`,
`Accept` (the owner keeps what a crash has left) and outsiders change the vault; `Begin`, `Abandon`, `Undo` keep every known
path (`Keeps`), and `Restore` every known path that had content. `Purge` is there because
the code does it (finding `delete_new`); without it the refinement fails.

The mapping (`Logical`, `Mode` at the end of SemanticTransaction): with no journal the vault
is what the files hold; with a prepared one it is `expected`, and `Unknown` for exempt paths;
while the snapshot is taken it is `expected` too, or nothing where the file is gone. So the
KB's writes in the body are invisible, and a rollback has to *end* at files that agree with the
abstract vault, which never moved. A write of the KB before the snapshot is complete
would likewise show when the transaction is abandoned or undone.

### VaultLock

`vault_lock` for one vault, one step per statement that another thread can interleave with:
the `RLock` of the process, the lock file and its flock, and the thread-local set of held
vaults. A thread calls (`Call`), calls again from inside a body (`CallAgain`), finds its
nested call refused (`Refused`, an exception), and leaves level by level. A process may die
at any point (`Crash`), which frees its flock. The `msvcrt` branch has the same steps.
`MutualExclusion` is what all writers rely on; `AlwaysReleased` says that no order of
nested calls, exceptions and deaths loses the lock.

### OperationLedger

Records are files, numbered by reading all records of their memory (`NextNumber`, `LastFor`
order by number, time and identity). Commands append inside a transaction, after writing the
note (`WriteNote`, `RecordNote`); agents append directly and may expect a previous digest (`Look`,
then `AppendExpecting`: another may append in between). The clock may step back. Two
commands leave a change without a record under its memory: `kb migrate --apply` records nothing
(`Migrate`), and `heal` records the repair of a note without an id under the path of
the note (`WriteNameless`). Records the code cannot read are skipped by it and are not
modelled.

A transaction is a `mode`: `body`, then `free` again, or `failing` (the undo after an
exception), or `crashed`, from which the owner accepts the vault (`AcceptCurrent`) or undoes
it, keeping the new files (`restoring`) or not (`deleting`). An undo puts back one note
(`PutBack`) or removes one operation (`Remove`) at a time, in the order of the code: after an
exception new files go first, in the order of their names, which begin with the time; with
`--delete-new` they go last. `Crash` is possible between any two of these steps, and the
reconciliation can be chosen anew. Agents append also while a journal is pending
(`append` does not run `recover_transactions`), but then the undo takes their operations for
new files.

So an undo that removed operation n+1, died before it removed n+2, and was then accepted leaves
a gap. The ghosts say where: `gone` are the memories of which the pending undo has
removed operations, `torn` those of which the owner kept the rest. `untold` are the
memories whose note has changed since their last operation: by `Migrate`, `WriteNameless` or by
what was kept of a crash.

`WellNumbered`, `ExpectationsHold` and `RecordsTellTheTruth` are the three promises, each with
these exceptions and no other. The numbers of a memory are unique whatever happens; a gap is
only where an undo died. After a gap the operation that an expectation spoke of may be missing,
but no other is in its place.

### Lifecycle

One level up: a memory has a `status` and a `place` (the directory of its file), `content`
is what `scan_content` would find in it, `lapsed` says that an invalidation rule of the
note fails, `retracted` that RETRACT is the last operation in its ledger. A command of a
process is two steps, `Read...` (index refresh, checks, `_note`) and `Apply...` (the whole
transaction); in between, `job[p]` holds what the command remembers: the paths (`at`) and
statuses (`move`: previous status reviewable and path in the inbox) of the rows it saw.
`remember` reads and writes in one transaction and is one step. That `Apply...` is atomic is
what SemanticTransaction shows; `Abort` is the failing transaction.

`HomeOf` is the directory of a type. That of hypotheses is `00-inbox`, which is also the
default inbox (`learning.py:551-574`, `config.py:66`): an active hypothesis stays in the
inbox. `Hypothesis = {}` is a vault whose `inbox_dir` is configured to be another. A healer
redacts secrets in strings only (`redact_value`, `security.py:113-133`), while the scan also
looks at the text of other metadata, so `ApplyHeal` chooses which of the quarantined notes are
clean afterwards; no property says that all are.

Three ghosts: `reviewed` are the memories a reviewer or a trusted caller has activated;
`marked` those a healer has ever marked stale; `overtaken[p]` those of the pending command of
`p` whose status or place another step has changed since the command read them. The last is
how the properties name the races of this code: nothing is checked again under the lock,
so `RetiredStaysRetired`, `ConflictOnlyLeftSo` and `RetractedIsGone` hold but for a command that
was overtaken on that very memory. They hold with any number of commands, not only for one
at a time. `ConflictOnlyLeftSo` lists every way out of a conflict, the unmarked one included:
`heal` marks a conflicted note stale when its rule is broken (`validation.py:562`), and
`revalidate` then makes it active with nothing replaced. `ActiveIsFiled` and `OnlyAdmitted`
are about vaults with perishable notes; the first leaves out what was `marked`, the second
says that only notes with a rule are.

Abstracted: scores and thresholds are a free choice among the statuses they decide;
near-duplicates and expected value in `compact` are any set of notes of the statuses it
looks at; link and metadata repairs, and evidence attached to a duplicate (Consolidation), change
neither status nor place.

### KnowledgeIndex

`disk` holds what a file says and its stat; `rows`, `links` and `manifest` are the
database. A refresh scans the paths in order; a file may be edited, touched or removed between its
stat and its reading (`Visit`, `Read`), between the scan and the second reading that a
changed row identity forces (`RereadParse`, `RereadStat`), and after. `Assign` fixes who holds
which identity, `Apply` writes rows, links and manifest in one savepoint, `Fail`
rolls it back. `OpenAfterUpgrade` is a schema version that drops the manifest, or everything. Texts that
name notes are tuples, so that "the identity of a duplicate" is a real concatenation that a
note can also declare. Digests of paths may collide (`Digest`).

`IndexExact` compares a quiet refresh with what a reader of the vault would say, links
included (`Meaning` is a second, declarative definition of what a link text can mean).
`IdentityStays`: a note that holds an identity keeps it while duplicates come and go.

### EvidenceStore

`put`, `capture` of an episode and `evidence_valid` of several processes, without a lock, one step per file
or database access; others damage, forge, restore and remove files between any
two. An episode cites its own object and whatever its caller names with `--evidence`
(`cli.py:135`, `433`; `episodes.py:43-60`), which nothing verifies and which may never have been
stored (`Citation`): what `EpisodesAreSound` promises is its own object. Whether evidence counts
is asked when it is used (Consolidation, `evidence_valid`). An identity stands for subject and content: digests are taken to be injective. `checks`
is the table of verdicts, keyed by the stat of the file. The assumption it rests on is
the code's own (`docs/reliability-contract.md:33`): every change of a file changes its
ctime. The ghost `moments` of a check remembers what the file has been since the call, so
that `ProofIsGenuine` and `RefusedForCause` say what a concurrent check can promise.

### Consolidation

From episodes to memories. `Capture` stores an episode and its evidence; `kb consolidate`
(`Consolidate`) decides for one observation after the other whether it recurs (`Gate`,
which reads all episodes each time, without a lock), whether the episode proves a procedure
(`Prove`), and then remembers the candidates (`Remember`, each in a transaction of its own,
which may fail: `Refuse`). In between others capture, consolidate, retire, edit and delete
(`SetApart`, `Delete`), and evidence is damaged and repaired. A memory is the fact it
states, since its identity is a digest of that and of where it applies. `Lifecycle` has
the status and place a remembered note gets; here a note is live or apart (quarantined,
retired or edited, so that only its identity is recognised), with the evidence it lists.

`FactsAreEarned` joins three promises. `Corroborated`: what was learned without `--force`
was found by enough episodes that differ in task, commit or cited evidence, or was
proven by an evaluation; capturing, trying or consolidating again does not help. An
episode counts whatever part it gave the text: also where it failed with it, as the
code has it. `EvidenceGathers`: a live note lists the evidence of each episode its fact was
remembered of. `NotLearnedAnew`: what was retired or corrected does not come back while its
note is there.

### ContextInventory

Hosts retrieve with a session and an epoch, retain what was delivered, and acknowledge the receipt
later, perhaps after another epoch began, perhaps naming another session, perhaps while
another acknowledgement reads and replaces the same inventory file (`ReadInventory`,
`WriteInventory`: no lock is taken here). `retained` is what a host really has. `vault` and
`index` differ until a call refreshes.

A receipt is checked in the steps of the code (`mcp_server.py:429-450`): `CallReceipt`
refreshes, `LookUp` takes what is visible from one reading of all notes, `Compare` reads the
source of one memory after the other again (`index.get`), and `Answer` or, for an
acknowledgement, `Accept` ends it. Other calls may refresh the index between any two of these,
so a memory may be found visible as it was then and unchanged as it is now. `was` remembers what
each note has been since the call: `ValidWasTrue` promises that each memory was visible at
some moment of the check and as delivered at some moment of it, and
`MCContextInventoryAtOnce` (Findings) shows that the two moments can differ. Abstracted: the
gates, evidence among them, are one bit of a note (`visible`); of the two refreshes a
check makes in a row the second is left out, since nothing is read between them.

### TaskLease, Telemetry

`TaskLease` counts time in half seconds, since `_stamp` truncates to seconds. An agent
works while it believes it holds the lease (`belief`); it may ask for less than no time, die, be late, and
release a lease that has since gone to another. `HolderIsOnFile` says that the file
and the agent agree until the lease ends.

`Telemetry` is two append-only files, a migration from `.kb/` that may be cut short between
any two of its steps and is run again, `repair`, and the pairing of outcomes. A file is a bag of rows. An append is one write of one line.
`HistoryIsKept` joins what an import promises (`ImportedOnce`) and what an append does (`RecordedStays`).

### ReadGate, Retrieval

`ReadGate` has the predicates over notes: trust, scope, temporal and read gates, instruction
authority, claims that contradict each other, duplicates, and the two orders in which
`retrieve` (`Eligible`) and the MCP server (`VisibleNotes`) apply them. `Retrieval` is one
request, with steps for the gates, the searches, the scores, the allocation (`Take`,
`PassOver`), the loop that makes both representations fit (`DropLabels`, `ShrinkLast`, `DropLast`) and the
delivery. Scores, overlaps and rankings are free choices: the properties hold
whatever they are. A text is its cost in tokens per layer and the roles it fills.

### MC modules

They give the constants values, define symmetry sets and views, and say which `part` of the
run a state belongs to: it is chosen initially and never changes. `MCLockedStores` and
`MCOperationLedger` put specifications that share no state side by side, of which only those of
the part move. `MCLifecycle`, `MCOperationLedger` and `MCContextInventory` also look at
one specification in several small instances; `InPart` says what a step of each may lead to
(which memories exist, how many edits or operations there are).

## Runs

| Run | Instance | Question |
|---|---|---|
| `transaction` | 2 names, 4 inodes, 2 contents, links | Is the before-state recoverable at every crash, undone exactly by rollback and reconciliation, and does the whole implement AtomicVault? |
| `transaction_copies` | 1 name, 4 inodes, 2 contents, no links, at most 1 file aside when a transaction begins | What can a rollback miss, and does it leave alone what the transaction did not change? |
| `lifecycle` | 2 processes; a perishable memory and a hypothesis that contradict each other and are edited; the perishable one and an unauthorized instruction, also contradicting; all three with 1 process; callers may promote | Can commands that race, healers among them, let in, misfile, bring back, settle, revive or orphan a memory but by the races the properties name? |
| `locked_stores` | 3 threads of 2 processes, 2 nested calls; 2 agents and a clock to 12; 4 kinds of rows, 2 processes | The lock and the two small stores under it |
| `index` | 3 paths, 3 contents, 2 stats that can be given back, 2 changes | Is the index what a rebuild would be? |
| `ledger` | 1 memory, 4 operations, 2 times, 1 agent; 2 memories, 1 note without an id, 3 operations of commands; 2 learners, 4 episodes of 2 repositories | One order, gaps only where an undo died; does the last operation tell what the note has; is every fact earned? |
| `evidence` | 2 identities of one content, 2 processes, 3 changes of files, a caller that names one identity as evidence | Do verdicts outlive their files? |
| `context` | 2 memories, 2 calls at a time; 2 sessions, 2 epochs, 2 receipts, 1 edit; 1 session, 1 epoch, 1 receipt, 2 edits | Is anything left out that its host has not, and is a valid receipt one whose memories were there and as delivered? |
| `retrieval` | 3 rows of 10 kinds of notes, 2 checkouts, 6 requests | Does the answer fit, tell the truth, and end? |
| `delete_new`, `index_reread`, `lifecycle_heal` | 1 name; 2 paths; 2 memories and 1 process | violations, see Findings |

### Bounds

Two names are what a move needs, and more names only repeat the per-name loops: the code
never relates three. `Inode` bounds the files alive at once: per name a current and a saved
one, and a third is freed and used again when a name is replaced twice. With two contents a
save can differ from both neighbours of a comparison or coincide with one. `MaxAside` bounds
the files set aside by earlier rollbacks when a transaction begins; these are read by
nothing but `EmptyRolledBack`, and occupy inodes, so that without the bound
`transaction_copies` spends its states on vaults with no inode left; in the other runs it is
above what the inodes allow. For the links case the proofs remove the bounds altogether.

Two processes are what a check-then-act race needs, and two memories what a replacement
needs; three make merges and splits real (many by one), which need no race: what
they retire and activate is the same list of notes. One memory perishes in each part, so that
heal marks it stale in every status. What makes a note unsafe is an edit in the first part (a
secret) and a candidate in the others (an injection).
Three nested-call levels, two processes and a third thread give the lock each pair of
waiting threads: of one process and of two. The lease clock outlasts two leases of two
minutes. Three paths and two changes let a note collide with two others, move away and back, and an editor
return an old mtime; two receipts and one edit let an acknowledgement be older than
another, in an epoch of its own, and of text that is no longer current. A check can only be
misled by a note that changes and changes back, which is what the two edits are for; one receipt is then enough. Four operations are a committed one, two of a
transaction whose undo dies between them, and an agent's; where no agent
appends, three are a committed one and the two of a transaction. With one digest a note is
absent, written, or written again, and a second value would only be another way to be
wrong. The four episodes are a run, the same run tried again, an independent
success with an evaluation, and a run elsewhere: with `Threshold` 2 the first two are one too
few. `Fragile` bounds what may be damaged to the evaluation. In `evidence`, three changes are a put, a damage and a repair.
Three rows let an answer with two items be shrunk, dropped and have a neighbour
found by a link; the kinds of notes are those that some gate, role or cost tells apart.

All bounds are constants and guards of steps; no run has a state constraint.

### Symmetry and views

Names, inodes, contents, processes, sessions, epochs and digests are only compared for
equality, so permuting them is sound for the invariants and action properties. The memories of
`lifecycle` are not symmetric, since they are of different kinds. `Reachable` hides the bytes of inodes no name
refers to: `Replace` overwrites them before anything can read them. `WithoutReview` leaves
out the ghost `reviewed` where only the properties that do not mention it are at stake;
`WithoutNames` leaves out which name an operation has and whether an agent appended it in the
part about numbers and expectations, which do not depend on that while `WellNumbered` holds
(`RecordsTellTheTruth` does, and is asked in the part that shows them); `WithOutlook` does not
tell checks from one another that can change nothing more in the part about inventories, which
asks nothing of their answer. Runs with
liveness properties use neither symmetry nor views.

Deadlock is checked in every run but `retrieval`, where a call ends. Where outsiders can
always act this says little; that holders do not get stuck is `AlwaysReleased` and, of one
call, `Ends`.

### Fairness

- VaultLock: weak fairness of each thread's steps once it is in `vault_lock`. A body ends
  and nests finitely often. No fairness between threads that wait: the
  code has none, so no property says that a given thread gets in.
- Retrieval: a call runs until it returns (`WF(Next)`).

Each property has a mutant in `PROJECT.json`, under which it fails in the same run.

## Proofs

| Module | Theorems | Hypotheses beyond the types of the constants |
|---|---|---|
| `SemanticTransactionProofs` | `TypeCorrect`; `BeforeStateIsRecoverable`, `RollbackIsExact`, `RollbackIsComplete`, `ReconcileIsExact`; `ReconcileDeletesOnlyNewFiles`, `RollbackKeepsOtherInodes`, `RollbackMissesOnlyWhatWasLost`; `ImplementsAtomicVault` | the second group and the refinement speak of filesystems with links (`CanLink`), the third of any |
| `LockedStoresProofs` | `MutuallyExclusive`, `NeverWaitsForItself` | none |
| | `OneHolderAlways`, `HolderIsOnFileAlways` | releases name their agent (`~Nameless`) |
| | `TelemetryKeepsHistory`, `TelemetryMeasuresNoDoubt` | the vault is not synchronised between machines (`~Syncs`) |
| `OperationLedgerProofs` | `NumberingTheorem`, `ExpectationTheorem`, `TruthTheorem`; `FactsTheorem` of Consolidation | none |
| `LifecycleProofs` | `AdmissionTheorem`, `FiledTheorem`, `DurableTheorem` (of memories without invalidation rules), `ReplacedTheorem`, `ForgottenTheorem`; `RetirementTheorem`, `ConflictTheorem`, `RetractedTheorem` | none |
| `KnowledgeIndexProofs` | `IndexIsConsistent`, `HolderKeepsIdentity`, `RefreshReadsNotes` | a change of a file gives it a new ctime (part of the model) |
| | `RefreshIsExact` | the same, and `NoLinkNamesDuplicate` |
| `RetrievalProofs` | `BudgetIsKept`, `StateIsTrue`, `DecisionsAreTrue`, `ListedIsEligible` | none |
| `EvidenceStoreProofs` | `EpisodesTheorem`, `RowsTheorem`, `ProofTheorem`, `RefusalTheorem` | a change of a file gives it a new stamp (part of the model) |
| `ContextInventoryProofs` | `InventoryTheorem`, `LeftOutTheorem`, `CheckTheorem` | finitely many calls at a time |

With these every safety property of the passing runs, invariants and action properties
alike, is a theorem. Each holds for all values of the constants: any number of names,
inodes, threads, agents, memories, notes, processes and sessions. The
hypotheses are where the program's own guarantee ends, and configurations under Findings
show what happens beyond them: without links `MCSemanticTransactionInodeReuse`, with nameless
releases `MCLockedStoresNameless`, with synchronised vaults `MCLockedStoresSynced`,
and without the second moment of `ValidWasTrue` `MCContextInventoryAtOnce`. The theorems of
Lifecycle, OperationLedger and EvidenceStore have no hypotheses: where the code breaks a
simpler promise, the property itself names the step that does (`OvertakenOn`, `HealedBy`,
`torn`, `untold`). Almost none of the properties is inductive
by itself; each module defines an `IInv` that is, with one lemma per action or group of
actions, and derives the properties from it. TLC checked the long ones on the runs'
instances before they were proved.

**SemanticTransaction.** `IInv == TypeOK /\ ControlInv /\ WrittenInv /\ (CanLink => LinkInv)`:

- `ControlInv`: which journal goes with which phase, and what the loops' variables may
  hold there;
- `WrittenInv`: an inode that a name or a saved copy refers to holds bytes somebody wrote;
- `SnapshotInv`: while the snapshot is taken, the visited names that nobody disturbed have
  their saved inode, recorded inode and expected content in step;
- `AliasInv`: during that time, names that share an inode with one another or with a saved
  copy wait for their stat or are recorded right: an in-place save through one name
  is then a save of exactly those names whose `expected` it changes;
- `PreparedInv`: once prepared, saved inodes are the recorded ones, no name the KB has
  written refers to one of them, a name not touched still is its recorded inode, and
  the recorded inode of a name not exempt has the expected bytes;
- `UndoInv`: what the names that left `todo` hold during a rollback or reconciliation.

That links keep the recorded inode allocated, so that `Free` cannot return it, is the step
that fails without `CanLink`, and it fails in the program too (Findings,
`MCSemanticTransactionInodeReuse`). The refinement uses `IInv` and `PreparingInv`: until
the snapshot is complete every file still has its expected bytes, or is gone. Each of its
lemmas names the abstract action a step maps to, or shows that `Logical` and `Mode` do not
change (`Hidden`).

`NamesInv` is what is left of this without `CanLink`. An inode number may then be used again,
so it says nothing of bytes, only that the record tells files that were there from files that
were not, and that a name the body has not touched still is its recorded inode. It is
enough for what `--delete-new` may pick and for what a rollback must leave alone.

**VaultLock.** `Marks(t)`: what a thread's place in the code says of its two locks, its depth
and the thread-local set. Nested calls keep the marks because they touch the RLock only.

**TaskLease.** While a look at the file is followed by its write or removal, the
vault lock is held by that agent (`FileLocked`), so the file is still what was seen.

**Telemetry.** Until the marker is set nothing is recorded, and a file has some of the legacy
rows, each once (`UnmarkedInv`), so that a repeated import adds what is missing and no more.
While an import is under way it has the lock, and what it will write is what `Merged`
still gives (`Importing`): `repair` changes how a legacy file is written, not its rows.

**OperationLedger.** Gaps are what makes this hard: the number of operations does not tell the
highest number any more. `Highest` and `Orderly` say of a set of records that every
set of operations of a memory has one with the highest number, and no two have one number;
`ExpectedIn` that what was expected is what the operation before left, if that is there. All three
hold of every subset of records of which they hold (`WellFormed`, `PartWellFormed`), so of the
ledger in the middle of any undo, and appending keeps them (`AppendWellFormed`). `GapFree` is
not kept by subsets; `Gaps` says of which memories it holds: of those neither `gone` nor
`torn`, in the ledger and in the snapshot. `Truth` lets the note of the open command be one
operation ahead, and says that an undo ends at a snapshot that told the truth.

**Consolidation.** `EarnedCall`: what waits to be remembered has been earned at the time it was
chosen. It stays earned since no episode is ever removed. `Run` and `Recurrence` count
runs; that a count of `Threshold` means a set of so many episodes, pairwise independent, is
where cardinalities come in. Which evidence was `proven` when it was chosen is part of the ghost
state: evidence may be damaged later, and a memory that was earned stays.

**Lifecycle.** Two invariants. `IInv` is about what activation rests on. What a command remembered
when it read is enough under the lock: `Fit(p)` (what it may activate was authorized and in
a place it will be filed from, or has been marked stale since), `Succeeded(p)` (a replacement
retires no successor of its own). `Healed` says that only notes with rules are ever marked,
which gives `DurableTheorem`: to a memory without rules nothing of this applies. `AllCurrent` is
about racing commands: as long as no other step has overtaken a pending command on a
memory, that memory has the status and place the command read, and what the command checked
then is still so. With `WhoChanges` (a step that changes a status is the end of some command, or
`remember`) the three action properties follow, each by the command that did it: it either was
overtaken on the memory, or had checked what the property asks.

**EvidenceStore.** `RowRead(p)` and `Verified(p)`: the row a check has read, and the verdict it is
about to save, tell of the file if it still has their stamp, because every later change
has a later stamp (`Past`, `RowsArePast`).

**KnowledgeIndex.** `RowInv` ties a row to its note by the ctime: if the manifest still has
the ctime of the file, the row has its content, unless a note was edited while it was read
a second time (`spoilt`, finding `index_reread`). `ScanInv` says the same of what a refresh
has in hand, for each of the states a path goes through, and `DesiredInv` that the rows it is
going to keep already have the identity they shall have, so that `Apply` cannot meet a
taken one. That identities come out unique is a fact about `Identities`, a function
recursive in the order of paths: `IdentitiesGiven` shows that it has a solution,
`FirstFreeIsFree` that one of so many suffixes is free, `IdentitiesApart` that no two are
equal. `MadeOf` then tells whose an identity is.

`NoLinkNamesDuplicate` is the one hypothesis: no link text is a declared identity
followed by the digest of a path and a suffix. A link that is written so leads to the duplicate
that happens to have that identity, which depends on who came first, while `Meaning` knows only
declared identities: with such a link in the run, TLC finds `IndexExact` violated. The run has
none. `RefreshReadsNotes` (notes without links) and the other theorems do not need it.

**Retrieval.** `Spending`: what remains and what the items cost stay within the budget, where
the cost is a sum over the items. `Judged`: the verdict is true of the items at
every turn of the loop, because `Refit` judges again; and what is delivered costs no more than what
was fitted, because leaving out known items or missing roles never costs more
(`DeliveredLess`). `Decided`: rows are taken once. `ListedIsEligible` is a fact about
the two gates: contradictions among more notes are more.

**Induction.** The library's induction theorems take an operator and cannot be used here. Where
a proof needs induction (the identities of duplicates, the sums of costs), the principle
is derived for sets: a set of naturals with 0 and with the successor of each of its members is
`Nat` (`SetInduction`), which follows from `WFMin` of the strict-subset ordering on finite
sets.

**ContextInventory.** `Watched(p)`: what vault and index say of each memory has been noted since
the call began; `Answered(p)`: what was found visible, and what was compared and found
unchanged, was so at a noted moment; `Numbered`: receipts get a number of their own.

Model-checked only: the liveness properties `AlwaysReleased` and `Ends`, since fairness is out of the prover's reach. That a mutant violates a property is shown by
TLC alone, and so are the findings.

## Findings

Runs that expect a violation:

1. `delete_new`: `kb reconcile --restore-snapshot --delete-new` on a journal that was
   interrupted while snapshotting treats `files: null` as an empty record; every note is
   "new" and is unlinked (`storage.py:312`, `325-327`, `378-380`).
2. `index_reread`: a note that is read a second time because its row identity changes keeps
   what it declared at the first reading with the stat of the second; an edit in between is
   never noticed again (`index.py:274`).
3. `lifecycle_heal`: the validator reports a broken rule of a note whatever its status
   (`validation.py:562`), `heal` marks that note stale in the inbox, and stale notes pass the
   read gate. The documents say that a candidate "is not retrieved until a reviewer promotes it
   with the CLI" (`integrations/mcp/README.md:20`). `revalidate` then makes it active without
   the blockers of `promote`.

Configurations that are kept beside them, each with one property that TLC finds violated
by what the code does:

| Configuration | Property | What happens |
|---|---|---|
| `MCSemanticTransactionInodeReuse` | `RecordedInodeMeansUnreplaced` | Where links fail, a recorded inode number is used again by the file that replaced the note, and the rollback keeps the uncommitted text (`storage.py:231`). |
| `MCLifecyclePromote` | `OnlyInboxPromoted` | `promote` checks the status before the lock and not under it (`lifecycle.py:78-83`), so that it activates a memory retired in between, although it says that only inbox memories can be promoted. |
| `MCOperationLedgerRestored` | `NoMisleadingRecord` | `kb reconcile --restore-snapshot` without deletion puts the note back and keeps the record of its change. |
| `MCContextInventoryOverlap` | `AcknowledgedIsKept` | Two acknowledgements of one session at a time: the later write loses the earlier (`context_state.py`, no lock). Nothing wrong is delivered: the host is sent the memory again. |
| `MCContextInventoryAtOnce` | `ValidWasTrueAtOnce` | A check takes visibility from one reading and each source from a later one (`mcp_server.py:445-448`). A note that is delivered, then visible with other text, then hidden with the old text is found valid if refreshes fall between. |
| `MCLockedStoresNameless` | `OneHolder` | `release` without an agent name removes whoever's lease it is. |
| `MCLockedStoresSynced` | `ImportedOnce` | The marker of the telemetry import is in the synchronised vault, the legacy files are not: another machine's rows are never imported. |

`SameEligibility` (Retrieval) is `VisibleIsEligible` in both directions, as
`docs/v3-implementation.md:21` has it: the MCP server shows less than retrieval would deliver, since it
has neither `allow_untrusted` nor `cross_repo` and counts duplicates as parties
to a conflict.

Observed while modelling, without a property of their own: `forget --hard` unlinks a path it read
before the lock and records RETRACT also when the note has moved (`healing.py:365-379`;
disclosed in `RetractedIsGone`); `kb migrate --apply` and the repair of a note without an id
leave no operation under the memory (`migrations.py:46-55`, `healing.py:170`, `228`; in
`RecordsTellTheTruth`); the ledger keeps a gap when an undo dies half-way and the owner then
accepts the vault (`storage.py:219-222`, `378-380`; in `WellNumbered`); a conflicted note with a
broken rule leaves the conflict by way of stale (in `ConflictOnlyLeftSo`); the scan matches
secrets in values that are not strings, `redact_value` does not redact those
(`security.py:113-133`), so that such a note stays in quarantine with its secret; the event `retrieve.completed` reports the state from before
the answer was made to fit; a conflicted note of another repository makes an
empty answer say "conflicting_evidence", since the trust gate comes before the scope gate; a receipt is
checked in a context without task, date or permissions, so memories that needed them
never validate again.

## Not modelled, and why

- Journals of release 0.3.0 (`before` inline), path containment checks and pruning of
  backups: input validation, and files no other step reads.
- Parsing and rendering (Markdown, YAML, dates, version strings), scoring, tokenizing, the secret scan, the detection
  of roles in a text: data without state. Models name their
  results (a cost, a set of roles, what a scan would find).
- Link and metadata repairs in `heal`, but for what the repair of a note without an id leaves in
  the ledger (`WriteNameless`).
- Rank policy, calibration, shadow runs, replay and benchmark: offline arithmetic. A rank
  policy changes orders, and Retrieval allows every order.
- Migrations, but for what they do to a note and not to its ledger (`Migrate`): one loop of
  rewrites in one transaction. Dashboards, graphs and
  observability: read-only views. The CLI and the dispatch of the MCP server.
- Usage tables and statistics of the index.

Assumed of the outside: the ctime of a file changes with every change
(`docs/reliability-contract.md:33`); one `write` of one line is not torn; the clock does not
step back while a lease runs; digests are injective; callers own no outer SQLite
transaction (only tests do).

## Plan

Done: the core (transactions, lifecycle), its refinement, the stores and services
around it, in the order of the dependencies above, and the safety properties of all of
them as theorems. Left, by weight:

1. `LinksExact` without `NoLinkNamesDuplicate`, for links that name no duplicate.
2. An abstract specification of the evidence store and of the index as a cache of what a
   check or a refresh would say, and the refinement.
3. Version requirements and token layers as bounded functions against a reference
   definition.
