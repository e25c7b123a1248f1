# Verification of unasked

`unasked` is a command-line laboratory for "unasked" discoveries: a run freezes
a Git commit, an explorer proposes candidates, a plan is executed and replayed
in worktrees, reviewers challenge it, and an authority kernel turns a
reproduced candidate into a signed, auditable certificate. Everything is kept
as files of a run directory. There is no server: processes and threads that
share the directory are serialised by file locks, and any of them may die
between two writes. What has to be right is therefore (a) the locks, (b) the
append-only ledger and the write-once files under crashes, (c) the state machine
of a candidate, (d) the two-step authorization that commits to a snapshot
of all that, (e) the loop that spends a budget on an external provider and the
processes of that provider, and (f) the certification that reads many runs at
once, without their locks, and answers for all of them.

This directory holds TLA+ models of these parts, TLC configurations that check
them on small instances, and theorems whose proofs the TLA+ proof system checks.
Paths below are relative to the repository; `X` stands for
`src/unasked/X`.

## 1. The system

| Component | State it keeps | Operations | What is hard | What makes it correct |
|---|---|---|---|---|
| `locking.py` | an `RLock` per process and path, an OS lock per path, a thread-local depth per path | `exclusive_file_lock`, `file_lock_held_by_current_thread` | threads and processes, re-entrance, failing paths, death of a holder | exclusion per path, exact depths, RLocks balanced, no hold for ever |
| `ledger.py` | `events.jsonl`: hash-chained lines | `append`, `verify`, `read_all` | concurrent writers, torn tails, short writes, power loss | one contiguous chain, an acknowledged entry is never replaced, an append-only log |
| `records.py`, `util.py` | JSONL files, write-once JSON files | `append_jsonl`, `read_jsonl`, `atomic_write` | partial appends, a lost newline | what is readable is what was written |
| `policy.py` | none | transition table, capabilities | long sequences of legal moves | separation of duties, rejections are final |
| `project.py` | the run directory, the candidates | `create_run`, `create_candidate`, `transition_candidate`, `authorize_verified`, `write_candidate_artifact`, `append_record`, `list_candidates` | a crash between a file and its event, a retry that is refused by a write-once file | events are backed by files, states by evidence, evidence is immutable |
| `workflow.py` | as above, plus observations | `observe`, `add_expectation`, `propose_candidate`, `plan_experiment`, `execute_experiment`, `add_review`, `replay`, `import_external_replay` | compound operations of up to a dozen writes | the lifecycle holds after any interruption |
| `authority.py` | verdict, certificate, commit marker | `evaluate`, `prepare_authorization`, `commit_authorization`, `audit_certificate` | everything may change between prepare and commit; the commit may die between its writes | what is committed is what was signed; an audited certificate stays so |
| `index.py` | SQLite rows | `upsert_candidate`, `upsert_run` | an unlocked reader writes rows | a row never runs ahead of the evidence |
| `artifacts.py` | content and metadata by digest | `put_bytes`, `put_file`, `verify` | concurrent puts, crash between content and metadata | content is immutable, a put can be repeated |
| `explorer.py`, `budget.py` | a meter, the trace of actions | `run`, `_propose` | budget limits, late answers, partial proposals | limits are never exceeded, the loop ends |
| `outcomes.py` | none | `classify_outcome` | empty and contradicting assertions | supporting and falsifying exclude each other |
| `trust.py`, `attestations.py` | none; a policy is loaded anew for every verification | `load_trust_policy`, `verify_dsse_statement`, `verify_*` | thresholds, several keys of one person, time windows that end between two verifications | a threshold counts distinct trusted persons, nobody acts in two roles |
| `trials.py` | reports | `certify_m0_v2`; aggregation of reports | the walk over the matrix takes no lock, and every file is read more than once | an answer rests on the commits that the runs really hold and on signatures that count |
| `providers.py` | the buffers and events of one call | `JsonSubprocessProvider.invoke`, `drain`, `_ProviderProcessTree` | three threads and any number of processes, a shared limit, time-outs, a kill that races an exit | the limit holds, a cut answer is marked, nothing survives the call, the call returns |
| `repository.py`, `observer.py`, `sandbox.py`, `executables.py`, `baseline.py`, `schemas.py`, `resources.py`, `protocol.py`, `cli.py` | none that is shared | Git, scanning, subprocesses, validation, arguments | I/O | outside the models, see section 7 |

How they interact. Every operation that changes a run enters
`Project.mutation(run_id)`, an `exclusive_file_lock`; inside it writes files
(`_write_once`), records (`append_jsonl`) and events (`EventLedger.append`,
which takes the ledger's own lock), and finally the index row. The workflow
composes these writes; the authority reads all of them, twice, and adds its
own. `list_candidates` and `verify_ledger` take no lock, and neither does the walk
of `certify_m0_v2`, which only takes a run's lock inside `audit_certificate_v2`. The
explorer calls a provider between its own writes; what the provider's processes do is
bounded by the call alone.

## 2. The modules

| Module | Models | State | Actions |
|---|---|---|---|
| `RunLock` | `locking.py`, and from `project.py` the rule that the ledger lock is asked for inside the mutation lock | `rowner`, `rcount` (the RLocks), `flock` (the OS lock), `depth` (`_LOCAL.depths`), `frames` (open `with` bodies), `want`, `pc`, `calls` | one per step of `exclusive_file_lock`: `Call`, `AcquireRLock`, `Reenter`, `OpenLockFile`, `Flock`, `LockFails`, `LeaveInner`, `LeaveOuter`, `Unflock`, `ReleaseRLock`; `Crash` of a process |
| `AppendOnlyLog` | the promise of a ledger | `log`, `sealed` | `Persist` |
| `EventLedger` | `EventLedger.append` and `_scan` | `lines`, `torn`, `synced`, `tornSynced` (the file), `holder`, `pc`, `entry`, `acked` | `Begin`, `Lock`, `Scan`, `ScanRefuses`, `WriteFirst`, `WriteRest`, `ShortWrite`, `WriteRaises`, `Sync`, `Unlock`, `Crash`, `PowerLoss` |
| `Policy` | `policy.py` and the capability each transition asks for | none | none |
| `Lifecycle` | a candidate's life under the policy, no storage: proved about, not run | `history` | `CreateCandidate`, `TransitionCandidate`, `AuthorizeVerified` |
| `RunStore` | the files of a run and the operations of `project.py` and `workflow.py` | `dirs`, `file`, `history`, `tail`, `commands`, `expectations`, `observations`, `scan`, `ledger`, `torn`, `index`, `listing`, `job` | one per operation (they leave their writes in `job`), one per kind of write, `Crash`, `PartialAppend`, `ListRead`, `ListWrite` |
| `Authorizations` | the promise of the authority kernel | `evidence`, `offers`, `status` | `Gather`, `Prepare`, `Begin`, `End`, `Lose` |
| `Authority` | prepare, commit and audit of `authority.py`, over `RunStore` | `prepared`, `signed` | `Prepare`, `Commit`, and all of `RunStore` |
| `ArtifactStore` | `artifacts.py` without any lock: `put_bytes`, `put_file`, `verify` | `object`, `meta` (the files), `kept` (what a power loss cannot undo), `pc`, `task`; `seen` and `damaged` are history variables | one per file access: `Copy`, `Look`, `Write`, `Validate`, `Find`, `Store`, `Load`, `VerifyLook`, `VerifyMeta`, `VerifyHash`; `Fail`, `Damage`, `Flush`, `PowerLoss` |
| `Explorer` | the loop of `explorer.py` and the meter of `budget.py` | `pc`, `setting`, `meter`, `turn`, `status`; on disk `start`, `turns`, `turnEvents`, `result`, `expectations`, `candidates`; `calls` and `aborted` are history variables | one per write or call of another component: `Enter` to `ResultEvent`; `Tick`, `Abort` |
| `Provider` | one call of `JsonSubprocessProvider.invoke` on POSIX | of the processes `place`, `code`, `intact`, `wrote`; of the reader threads `taken`, `kept`, `chunk`, `reader`, `broken`, `overflow`; of the writer thread `request`; of the process tree `terminated`, `refused`; of the caller `main`, `late`, `lapsed`, `response` | the caller: `Start`, `Waited`, `Close`, `Reap`, `Joins`, `Check`, `Copy`; a reader: `Read`, `Count`, `GiveUp`, `ReadFails`; `WriteRequest`; any process: `ProgramStep` |
| `Trust` | `trust.py`: loading a policy, counting signers, qualification | none | none |
| `Certification` | `certify_m0_v2` while the runs go on | `clock`, `result`, `commit` (the world), `pc`, `at` (the walk), `bundle`, `signing` (what was handed in), `outcome`; `opened` and `closed` are history variables | the world: `Tick`, `CompleteRun`, `CommitRun`; the producers: `Assemble`; the call, one action per reading: `Begin`, `OpenEntry`, `CheckHead`, `CheckResult`, `CheckAttestations`, `AuditCertificates`, `CompareMarkers`, `CompareEvents`, `Evaluate`, `Certify` |
| `MCRunLock`, `MCEventLedger`, `MCAuthority`, `MCArtifactStore`, `MCCertification` | the instances TLC checks | | |
| `RunLockProofs`, `EventLedgerProofs`, `LifecycleProofs`, `ArtifactStoreProofs`, `ExplorerProofs`, `ProviderProofs`, `CertificationProofs`, `RunStoreProofs` | theorems about the module they are named after, in `RunStoreProofs` about `Authority` as well | | |
| `RunStoreInvariants` | the inductive invariants of `RunStoreProofs` and what they are made of | none of its own | none |

Composition. `RunLock` and `EventLedger` are below `RunStore`: that one operation
at a time is in progress, and that an event is appended whole or leaves a torn
tail, is what they establish, and `RunStore` assumes it. `Authority` extends
`RunStore`, which extends `Policy`; `Lifecycle` extends `Policy` alone, so that what is
proved about it rests on the same transition table that the guards of `RunStore` use.
`EventLedger` instantiates `AppendOnlyLog` and `Authority` instantiates `Authorizations`: the
status of an authorization is read off the writes left in `job`, the audit and the
verdict on disk.
`Explorer` stands above `RunStore`: what it calls is one step there that succeeds or
raises, and what such a call writes is in `RunStore`. `ArtifactStore` is below
everything and takes no lock, so it is modelled at every file access. `Provider` is
what one call in `Explorer` consists of: that it returns, with an answer that is
complete or says that it is not, is what it establishes and `Explorer` assumes.
`Certification` extends `Trust` and sees of every run what a reader without the lock
can see of a commit of `Authority`: nothing, VERIFIED, the marker, the recorded event,
in that order (`CommitRun`).

Abstractions. A digest is the whole chain it commits to (collision freedom). A
payload, an artifact, a review are members of small sets; an experiment's result
and a replay's status keep the values the guards tell apart, among them the
supporting outcome of an execution whose status is not `SUCCEEDED`. An execution or a
replay that is denied leaves fewer command records than a complete one: the denied command is
the last that was tried, and the capture of the differences comes after it (`Recorded`). An operation
evaluates its guards when it starts and then makes its writes one by one:
nothing else writes meanwhile, because it holds the mutation lock, but it may
die before every write, and a write may be refused (`_write_once` of a file that
exists, an append to a torn ledger) and then ends the operation where it
stands. `append_jsonl` may reach the disk in part; what the next append does to a
line without its newline is modelled for `states.jsonl` and `observations.jsonl`, since
it makes them unreadable. A candidate is taken to name every observation and the first
expectation.
In `Provider` bytes are counted and not told apart, and the join of a thread may give
up at any moment. In `Certification` a signature is named by the key it verifies
under, a run has at most one candidate, and the producers' documents need not be true:
each may list the runs it likes. There is one isolation statement and one checkpoint for the
whole matrix instead of one per run, and `AuditCertificates` leaves out the envelope of the
authority itself (`authority.py:2451-2463`, `authority.py:2548-2550`), which is verified like
the other statements; no property is about either, since the audit refuses every certificate
before it gets there (section 5).
In `Explorer` expectations and candidates carry the number of the turn they come from, which
is what `explorer-provenance.json` records. A ledger that was torn during a turn rejects
the provenance and then refuses the event of the turn as well, which nothing catches: the
investigation ends between turn record and event (`torn`).

## 3. The runs

| Run | Question | Bounds |
|---|---|---|
| `RunLock` | exclusion, exact depth, balance, no hold for ever | 2 processes, 3 threads, 2 paths, 3 nested calls |
| `EventLedger` | chain, no replacement, refinement of `AppendOnlyLog` | 2 writers, 3 payloads of 2 runs, 3 lines, 2 faults |
| `LedgerShortWrite` | is every acknowledged event recorded? No | as above |
| `RunStore` | what the evidence guarantees after interruptions | 1 candidate that may be rejected, 1 observation of a scan that may be repeated once, 1 command record, 1 review type, 1 expectation, 2 faults, 34 events |
| `Authority` | prepare, interleaved changes, commit, audit, refinement of `Authorizations` | 2 candidates, 2 kernels, 1 fault, 35 events |
| `AuthorityProgress` | interrupted and undisturbed commits; index rows under unlocked readers | 1 candidate, 2 kernels, 2 readers, 2 faults, 34 events |
| `CommitIsAtomic` | is a commit atomic under a crash? No | as above, without readers |
| `ArtifactStore` | concurrent puts and verifications without a lock | 2 threads, 2 contents, 2 metadata, 1 damaged file or power loss, any number of failing calls |
| `Explorer` | budget, records, result and end of an investigation | 3 turns, 1 tool call, 2 candidates, 1 experiment, 2 ticks of time, request sizes below and above the limit |
| `Provider` | limit, completeness, survivors and end of one provider call | a leader and 2 descendants, a limit of 2 bytes, reads of 2 bytes, 3 bytes written to each stream |
| `Certification` | what an answer rests on while the runs go on | 2 variants of 1 positive and 1 control case, threshold 1, commits in 2 runs, 1 unfinished run, 7 sets of documents, 13 ways to sign, 2 moments of time |
| `EarnedIsDemonstrated` | is a matrix that earned M0 answered so? No | as above |

Why the bounds are enough. Two writers, two kernels, two readers and two
candidates are what it takes to race; a third adds no new kind of
conflict because every conflict is over one lock, one ledger head or one row.
Three nested calls open the mutation lock twice and the ledger lock inside. Three
ledger lines give a first, a middle and a last one. Thirty-four events hold a
whole investigation of one candidate and the repetition of an intake that died; the runs of the authority start from two
investigations that were carried out by the write sequences of `RunStore`
itself (`MCAuthority!Investigated`), candidate 1 still without its last review,
so that evidence still changes while preparations exist. Two faults give a crash
and a second one in the repair. Review types and rejection states differ by name
only, so at most one of each is used. In `RunStore` the candidate can be rejected in every
state that allows it, which is where `HistoryIsLegal` could fail with a candidate that comes
back. One command record leaves no room for an execution that was denied on the way and has
fewer of them than a complete one, which takes three; no property reads their number, and
the theorems hold for any.
In `ArtifactStore` the second content is there to be the
wrong one at an address; threads and metadata are interchangeable, and the run uses
that symmetry, which is sound for its invariants and action properties. In `Explorer`
each dimension of the budget is small enough to be exhausted while the others are
not, and a limit of one lets "nothing left" and "just enough" both happen; three
turns are what a tool call and two proposals take. In `Provider` three bytes on a
stream make a whole read and a rest, two streams of which each fits the limit alone do
not fit it together, and two descendants let one leave the group while the other stays;
a longer chain of forks brings the same. In `Certification` a run that is walked before,
at and after a commit, a claimed control, a listed run without a commit, and a commit
that is not listed all occur in two cases of two variants; the thirteen ways to sign are
one in order, one negative and eleven that are wrong or short in one way each: an
unsound statement, an evaluation that overstates or contradicts itself, a policy that is
for shadow use, that runs out between two verifications or gives one person two roles,
the same key twice, two keys of one person, a revoked key, a key of another role.

Fairness. `RunLock` assumes weak fairness of the steps of a thread that has
asked for a lock or is inside a body: the interpreter keeps scheduling threads,
the OS wakes a waiter of a free lock, and bodies end. It does not assume that
calls are made, fail or that processes die. Weak fairness is enough for
`EveryHoldEnds` because who holds never waits for who waits. `AuthorityProgress`
assumes only that the operation that holds the lock goes on to its next
write. `Explorer` assumes weak fairness of the program's own steps, since a
provider call is bounded by a timeout and every tool and experiment by a limit, but
not that time passes and not that the provider answers in any particular way.
`Provider` assumes weak fairness of the caller's thread, whose waits and joins have
time-outs, and of the two reader threads. The wait after a kill has no time-out;
it ends because the leader was killed, which is part of the model, not of the fairness.
It assumes nothing of the provider's processes: they may write, fork and keep the
pipes open for ever.
No other run needs fairness. `CHECK_DEADLOCK FALSE` stands where the
system may really be at rest: a candidate in a final state, a bounded ledger, a
finished investigation, a call that returned, a certification that was answered.

## 4. The properties

* Locks: `MutualExclusion`, `HeldIsExact`, `RLockBalanced`, `EveryHoldEnds`.
* Ledger: `ChainIntact`, `AcknowledgedNotReplaced`, `ImplementsAppendOnlyLog`; and,
  proved only, `OneRun` and `WriterSawLastLine`.
* Policy, proved only: `SeparationOfDuties`, `VerifiedCameTheWholeWay`.
* Run store: `EventsAreBacked` (nothing is claimed before it exists: no artifact or
  transition in the ledger, and no complete scan, whatever attempts of it died before),
  `HistoryIsLegal`, `StateIsEvidenced` (a state binds the evidence that is there
  now), `InterruptedExecutionIsFinal`, `LostHistoryStaysLost` (no later operation
  hides a hole between the records and the ledger), `IndexNeverAhead`, and of the intake
  `SpoiltIntakeStaysSpoilt` (an `observe` that died after its first record can be
  repeated and ends, but records its identifiers twice, so that `identity_bound` refuses
  every authorization in that run).
* Authority: `VerdictFollowsSignedGraph` (nothing comes between what was signed and the
  verdict, so of two preparations over one ledger head one gets through),
  `AuditedEvidencePrecedesVerdict`, `AuditIsStable`, `CommitCompletes`,
  `UnauditableOnlyByFault`, and `ImplementsAuthorizations`: evidence is frozen from the
  beginning of a commit on, commits are carried out one at a time and over what was
  prepared, and neither an interrupted commit nor a certificate that ceased to audit is
  ever made good.
* Artifact store: `AddressIsDigest`; `PutIsSound` and `VerdictIsSound` (an answer was
  true of both files together at some moment of the call, which looks at them one
  after the other); `CompleteStaysComplete`; `LatePutKeepsMetadata`.
* Explorer: `BudgetKept` (over what is on disk and over restarts, where the meter of
  a dead process is gone), `EveryCallIsRecorded`, `ResultIsTrue`,
  `ExhaustedLeavesNothing` (a turn that is recorded as exhausted, or whose answer came when
  the time was up, left no expectation and no candidate, hence no plan),
  `CandidatesAreExplained`, `InvestigationEnds`.
* Provider: `OutputWithinLimit` (one limit for two threads that fill and one that
  copies), `WholeOrFlagged` (nothing is dropped without exit 75 or an error),
  `NoDescendantOutlives`, `KilledIsFlagged` (a leader that this call killed is not shown
  as one that ended), `InvokeReturns`.
* Certification: `NoCommitIsHidden` (a commit that was there when the walk came to its
  run, or recorded when it left it, is in the answer), `AnswerCountsCommits` (the numbers
  behind an answer are commits, and M0 needs the threshold of them), `AnswerIsSigned`
  (for every statement enough persons of its role, nobody in two roles, and a policy in
  force at the moment of the answer).

Every property of a passing run has a mutant: an operator in the same module,
marked "Seeded bug", that changes one definition the way a plausible error in the
code would, and violates the property under the same configuration.

## 5. What the code does not promise

Three runs end in a counterexample, each against a sentence of the repository:

* `LedgerShortWrite`: `append` does not look at how much of its line the file
  system took (`ledger.py:479`). The entry is acknowledged although only a part
  is on disk, and the torn tail stops every later append. `CHANGELOG.md:72`
  speaks of a durable append. What does hold is `AcknowledgedNotReplaced`.
* `CommitIsAtomic`: `commit_authorization` is documented as atomic
  (`authority.py:1372`), but a crash between the VERIFIED transition and the
  marker leaves a VERIFIED candidate that was never committed and never can be:
  `ImplementsAuthorizations` says that at least nothing mistakes it for one.
* `EarnedIsDemonstrated`: `certify_m0_v2` takes the bytes of a run's result, which
  `_verify_matrix_run_result` requires to be the run's `investigation/result.json`
  (`trials.py:1236`), and hands them to `audit_certificate_v2` as the subject of the
  isolation statement (`trials.py:1539`), which refuses them unless they are the
  candidate's `replay/result.json` (`authority.py:2394`). No document is both, so every
  matrix with a certificate is refused, and `M0_DEMONSTRATED` is never the answer of any
  behaviour of the model. `tests/test_m0_v2.py:563` expects the answer from
  "authenticated runs" and gets it because its fixture replaces both functions
  (`tests/test_m0_v2.py:497`). The theorems about `Certification` do not use this
  refusal: they hold whatever certificates an audit lets through.

Three more things worth knowing, without a run of their own:

* A crash in `create_candidate` between `candidate.json` and the first state record
  makes `list_candidates` raise for the whole run (`project.py:445`, `project.py:674`),
  so the index that `README.md:249` calls rebuildable is not. `ListRead` of `RunStore`
  has the guard; `IndexNeverAhead` is what holds of the rows.
* `_write_or_load_metadata` looks for the sidecar and writes it without a lock
  (`artifacts.py:271`), so of two puts of one digest that overlap the second replaces
  the metadata of the first, which may have been returned already.
  `tests/test_artifacts.py:30` says that the first metadata wins. It matters because
  `_read_reference` (`workflow.py:506`) accepts a reference only if it equals the
  metadata of the store. What holds is `LatePutKeepsMetadata`: a put that begins after
  the object is complete never does this. Two puts that overlap and both find nothing are
  excused by it, because the code does let the first reference be lost.
* The gates of a commit check the files and the state history, but not that each piece
  of evidence has its ledger event. The audit does. A crash in `add_review` between
  file and event is therefore found only after the certificate is issued
  (`UnauditableOnlyByFault`).

## 6. The theorems

Each theorem holds for every value of the constants that satisfies the
assumption named in the component's module, and its proof is checked to the last
leaf by TLAPS with Z3, Zenon and LS4.

**`RunLockProofs`** (`RunLockAssumption`: each thread belongs to one process,
`NoThread` is no thread, `Below` gives each path the paths that must be held before it is
asked for, and the nesting is bounded by a number). `TypeCorrect`, `Exclusive`, `HeldExactly` and `Balanced`
state the type invariant, `MutualExclusion`, `HeldIsExact` and `RLockBalanced`. None is
inductive: mutual exclusion of bodies follows from two locks of which each thread
takes one in each branch. The inductive invariant is
`IInv == TypeOK /\ BodyInv /\ RLockInv /\ FileInv`:

* `BodyInv`: the thread-local depth of a path is the number of its open bodies, and
  only the first of them is an outer one. Without it, leaving an outer body could
  unlock the file under an inner one.
* `RLockInv`: a thread with a body of a path, open or in flight, owns that path's
  RLock, whose recursion count is exactly that number. It separates the threads of
  one process, and makes a release by `finally` legal after every failure.
* `FileInv`: an open body has the file lock in its thread's name; a thread asks for
  the file lock only at depth zero and gives it back only at depth zero. It separates
  the processes.

The cardinality lemmas (`PositionsCount` and the ones behind it) relate pushing and
popping a frame to the depth.

**`EventLedgerProofs`** (`LedgerAssumption`: every payload has a run, the bounds are
numbers, `NoWriter` is no writer). `AlwaysChained`, `AlwaysOneRun`, `SawLastLine` and
`NeverReplaced` state `ChainIntact`, `OneRun`, `WriterSawLastLine` and
`AcknowledgedNotReplaced`; `Implements` states that `EventLedger` implements
`AppendOnlyLog` under the refinement mapping of the durable lines. The inductive
invariant is `IInv == TypeOK /\ LockInv /\ WriterInv /\ LinesInv /\ DiskInv`:

* `LockInv`: who is past the lock holds it, so a scan cannot be outdated by another
  writer.
* `WriterInv`: an entry about to be written was built from the very lines that are in
  the file, belongs to their run, and stands behind no durable torn tail; between
  `write` and `fsync` it is recorded or is itself the torn tail. This is what lets an
  append preserve the chain.
* `DiskInv`: no more lines are durable than there are, a durable torn tail is behind
  the last of them, and every acknowledged entry is among the durable lines or is the
  durable torn tail. `AcknowledgedNotReplaced` alone is not inductive: without the
  relation to `synced` a power loss could cut an acknowledged entry off.

The refinement needs the invariant too: a `Sync` behind a sealed tail is excluded by
`WriterInv`, and the links of the grown log are those of `ChainIntact`.

**`ArtifactStoreProofs`** (`StoreAssumption`: the marks for an absent or a damaged file
are no content and no metadata). `AddressesHold`,
`PutsAreSound`, `VerdictsAreSound`, `CompleteStays` and `LatePutsKeep` state
`AddressIsDigest`, `PutIsSound`, `VerdictIsSound`, `CompleteStaysComplete` and
`LatePutKeepsMetadata`; `TypeCorrect` the types. There is no lock to argue with, so the
inductive invariant `IInv == TypeOK /\ TaskInv /\ AddressInv /\ FoundInv` is about
what each call still knows:

* `TaskInv`: past its copy a put holds the content whose digest it writes to.
* `AddressInv`: an address that was not damaged holds nothing or its own content, in the
  files and in what a power loss would leave.
* `FoundInv`: what a call found still holds, or a fault undid it in its sight; and a call
  that goes to store metadata has seen the object incomplete. This carries an
  observation over the steps of the others to the moment the call returns.

**`ExplorerProofs`** (`ExplorerAssumption`: limits are numbers, and a limit on turns,
time and bytes is positive). `WithinBudget`, `CallsAreRecorded`, `NothingLeft`,
`AllExplained` and `ResultsAreTrue` state `BudgetKept`, `EveryCallIsRecorded`,
`ExhaustedLeavesNothing`, `CandidatesAreExplained` and `ResultIsTrue`; `TypeCorrect`
states that the meter never leaves its limits. The inductive invariant has seven parts:

* `StartInv`: before `start.json` there is nothing, which is why the fresh meter of a
  new attempt tells the truth.
* `CallInv`: how far calls, turn records, events and the meter are apart at each place
  of the loop, and that a call that is made has room.
* `RoomInv`: between the check of a dimension and its counting the room is still there;
  without it `Count` could leave the limits.
* `CandidateInv`: in a live process the meter counts what is on disk, and the candidate
  a turn is about is the newest one and has a plan or not as the place says.
* `ExplainInv`: only the newest candidate can lack its provenance.
* `LeftInv`: everything in the run was left by a turn that was counted, and by the present
  one only where the proposal has got that far. Without it a new turn could share its number
  with an expectation that is already there.
* `StoryInv`: no turn that ends an investigation is followed by another, and the status
  is the one the last turn calls for.

**`LifecycleProofs`** (no constants). `DutiesSeparated` and `CameTheWholeWay` state
`SeparationOfDuties` and `VerifiedCameTheWholeWay`. The invariant `LifeInv` says more
than both: a history is a beginning of the main path with at most one record that leaves
it, at the end (`PathInv`), and every record was made by a role that may make it
(`RoleInv`).

**`ProviderProofs`** (`ProviderAssumption`: the limit and the size of a read are positive,
the leader is none of the descendants). `OutputBounded`, `GroupGone`,
`NoKillPassesForAnExit` and `NothingDroppedSilently` state `OutputWithinLimit`,
`NoDescendantOutlives`, `KilledIsFlagged` and `WholeOrFlagged`; `TypeCorrect` the types,
of which the counts are the interesting part: what remains of the limit never drops
below zero. The inductive invariant has six parts:

* `SizeInv`: what was copied was buffered, what is buffered fits, what was read was
  written.
* `TreeInv`: after the signal, unless it was refused, the group is empty and stays so,
  since only a process in the group could put another one into it.
* `LeaderInv`: a leader that was killed leaves a trace, the time-out of the caller or the
  overflow of a reader, before the caller looks at its exit code. Which thread sent the
  signal does not matter.
* `ReaderInv`: until the limit is reached a reader has kept what it took; a reader that
  ended without error or overflow saw the end of the stream, hence the death of all.
* `JoinInv`: the caller answers when each reader has ended or its join gave up.
* `ResponseInv`: what was copied after complete joins is still what is buffered.

**`CertificationProofs`** (`CertificationAssumption`: positives and controls are disjoint,
there is a positive, the walk visits every run once; `SigningAssumption`: policies and
envelopes have the form the schemas demand). `CommitsAreListed`, `CommitsAreCounted` and
`AnswersAreSigned` state `NoCommitIsHidden`, `AnswerCountsCommits` and `AnswerIsSigned`,
for any cases, any order of the walk, any policies and envelopes and any number of runs
that go on meanwhile. `SignatoriesQualify` is the lemma about `Trust` they rest on: a
verified statement has as many persons behind it as its role's threshold asks for. The
inductive invariant is `TypeInv /\ WalkInv /\ SignedInv /\ CountInv`:

* `WalkInv`: the runs before the present entry are settled (what they showed on
  opening and closing agrees with the matrix), those behind it untouched. It is what
  turns comparisons made at different moments into one statement about the answer.
* `SignedInv`: a verification of the first entry speaks for all, because the policy and
  the envelopes do not change, although they are loaded anew.
* `CountInv`: what was signed is what was recomputed from the matrix.

**`RunStoreProofs`** (`RunStoreAssumption`: the bounds are numbers, `Review` are review
types, `Withdrawal` are rejections). `HistoriesAreLegal`, `StatesAreEvidenced`,
`RowsAreRecorded`, `ClaimsAreBacked` and `InterruptedIsFinal` state `HistoryIsLegal`,
`StateIsEvidenced`, `IndexNeverAhead`, `EventsAreBacked` and
`InterruptedExecutionIsFinal`, `TypeCorrect` the types. An operation looks
at the store once, when it starts, and may die at any write after that, so what keeps the
store sound has to be said of the writes that are still to be made. The inductive invariant
is `IInv == TypeOK /\ Good(job) /\ StoreInv`. `Good` says of the writes left in `job`:

* `Chained`: each state may follow the one before it, which is the last on disk, unless
  its file lost a newline, or an earlier one in the job.
* `Warranted`: the evidence of each state is on disk with the content the record will
  bind, or is written before it; if that write is refused, the operation ends there.
* `Indexed`: a state that goes to the index is recorded, or is recorded before.
* `Scanned`: before the scan come the records and the events of all observations, or those
  of an earlier attempt are there. A torn ledger stops the job at its next event, which
  is why another event has to stand between that of the last observation and the scan.
* `Rooted`: no state without the directory of its candidate.

`OperationStarts` shows it of what each operation leaves in `job`, `GoodStays` that it
survives a write, a refused write and a partial append. `StoreInv` is what the store then
keeps: the properties, `DirInv` (no history without a directory), `IndexInv` and `ListInv`
(a row of the index, or one a reader is about to write, is a recorded state).
`InterruptedIsFinal` needs besides that every operation that writes a result writes the
environment first (`OperationIsOrdered`).

`ClaimsAreBacked` adds `ClaimInv` to `IInv`. `Led` says that an event about a file in
`job` has the file on disk or written before it; `Headed` that the event of a move that
comes next is about the newest record of a history that can be read, behind every record
the ledger already has an event of, and one further back in `job` stands directly behind
its state record. Without the second part an event could repeat a move or come before
its turn. `MovesAreRecorded`, the part of `EventsAreBacked` about moves, is stated with
positions instead of filtered sequences, which means the same because a legal history has
no state twice, and can be reasoned about.

`SpoiltStaysSpoilt` states `SpoiltIntakeStaysSpoilt`. What keeps a dead `observe` from
being repaired by a later one is that a new one writes a record and an event of every
observation, and so never closes the gap. `IntakeInv` makes that a count: an
operation that still has to write a record of an observation has its event directly
behind (`Coupled`), so as long as both files can be read no observation has more events than
records, one that is owed included, and the number of records that have no event and will get
none never falls (`Widens`).

`LostStaysLost` states `LostHistoryStaysLost`, where a history counts with all that the
operation in progress will still write of it (`ToCome`). An operation that moves a candidate
filters out of `job` one move at a time, so the proof is about the shape of `job`:
`AboutOne` says that it is writes that bring neither a state nor a move nor a proposal
(`Hushed`), or such writes and then one transition to a state that may follow the current one
(`Turning`), or the event of a move whose record is written, and the index (`Owing`), or
the rest of a `Proposal` of a candidate the ledger does not have yet (`Proposing`).
`Balanced` is what such jobs leave: never as many moves logged as the history has records,
and a logged proposal only behind the first three states. `TurnInv`, both together, is
inductive over `IInv`. Then a write that is made only shifts a state or an event from `job`
to the disk (`LostAhead`), an operation that starts can complete nothing, because one
move adds one record and one event and so keeps their difference (`LostAtStart`, `OneMoreMove`),
and an operation that is given up or cut short takes away what would have come and mends
nothing (`GivingUp`, `LostAtFailure`).

**The authority**, in the same module: `RunStoreProofs` extends `Authority`, since its
behaviours are those of `RunStore` with two more operations. `VerdictsFollowSignedGraphs`,
`AuditedEvidencePrecedes`, `UnauditableByFaultOnly`, `AuditsAreStable` and
`AuthorityImplements` state `VerdictFollowsSignedGraph`, `AuditedEvidencePrecedesVerdict`,
`UnauditableOnlyByFault`, `AuditIsStable` and `ImplementsAuthorizations`;
`AuthorityKeepsEvidence` states that what holds of the run store under its own operations
still does. They start from `AuthorityInit`, the empty run, so they also cover what the
runs leave out by starting at `Investigated`. The inductive invariant `AInv` is, besides
`IInv` and `ClaimInv`:

* `Funded`: no candidate without an expectation. Hence no operation after the commit
  records a first expectation, whose event the audit counts.
* `JobInv`: what is left in `job` is the rest of an operation that writes nothing of an
  authorization (`Harmless`), or the rest of a commit at stage `n` of ten (`Stage`). A
  stage says which of the commit's files are there and, on a ledger that is whole
  (`Issued`), that its entries stand at fixed places behind the signed ledger head and
  the history is the signed one with VERIFIED added or still to be added (`Bound`).
  An audit is decided by the last write of the ten, so everything it will look at has to
  be carried along from the first.
* `AllFrozen`: of every candidate whose verdict is written or on its way the signed files
  are on disk (`Sealed`), the history extends the signed one by nothing but VERIFIED and a
  withdrawal (`Extends`), no event that an audit may rely on is behind the signed ledger
  and the verdict is the next one (`Behind`), and no operation in progress will change
  any of this (`Spared`). That no guard asks for it makes this the hard part: a review or a
  replay of an authorized candidate can be started, and is refused by the write-once
  file of the evidence it would replace (`Guarded`).
* `MarkedFirst`: no marker without a verdict.
* `AllMarked`: a candidate that is VERIFIED, whose marker and evidence are in a ledger
  that can be read, audits. With `AllFrozen` it makes the audit depend on the four
  things that `AuditsAreStable` and `UnauditableByFaultOnly` name.

TLC checked this invariant on a small instance before it was proved. `AuthorityImplements`
goes through the operations by what they do to the status of a commit: nothing
(`Gather`, or a stutter, where `AllFrozen` keeps the evidence of a candidate whose status is not
`open`), `Begin`, `End`, and for a torn ledger or a spoilt history `Lose`, of all
candidates at once whose certificate stops to audit. That nothing lost ever audits again
rests on the whole of `AInv`: the events that are missing cannot be written, because the files
they would follow are there.

Only proved: `TypeOK` of `RunLock`, `EventLedger`, `ArtifactStore`, `Explorer`,
`Provider` and `RunStore`, and everything about `Lifecycle`. Only model-checked: the
liveness properties (`EveryHoldEnds`, `InvestigationEnds`, `InvokeReturns`,
`CommitCompletes`), which the proof system does not cover (fairness and ENABLED are out of
its reach).

## 7. Not modelled, and the plan

Not modelled in modelled components:

* `create_run` and the files a run starts with, which are written before any other
  operation can find the run; the capture of worktree changes and of custody
  attestations, which are further write-once files with an event.
* the aggregation of trial reports, the legacy structural audit and the legacy
  `certify_m0`, which can only answer no: pure functions of documents.
* the job objects of Windows and the runner a provider needs there; the temporary files
  that a dead `put_file` leaves behind, which nothing reads.

Not modelled at all: `outcomes.py`, a pure function whose result `RunStore` takes as
given; Git plumbing and text scanning, which read an immutable commit; the deterministic
baseline, a function of recorded observations; the sandbox's limits of a child process;
argument parsing and static schemas. Cryptography is external and taken to be sound.

What is worth doing next, in order:

1. `create_run` and the custody attestation.
2. `Outcomes` (pure, against a reference definition).
