# ESKA: TLA+ verification

ESKA is a command-line toolkit and IDE server for 1C:Enterprise projects kept in
Git: it creates and inspects projects, edits and renames metadata, builds
artifacts with the platform's `ibcmd`, shelves and switches tasks, and serves an
editor over stdin and stdout. This directory holds TLA+ models of the parts
where order, failure and concurrency decide whether the user's files survive,
the TLC runs that check them on small instances, and TLAPS proofs for every
instance. All paths below are relative to `src/`; `core` stands for
`crates/eska-project-core/src/project`, `ide` for `crates/eska-project/src/ide`,
`build` for `crates/eska-build-runtime/src/build`, `vcs` for
`crates/eska-vcs/src`.

- [1. The system](#1-the-system)
- [2. The models](#2-the-models)
- [3. Runs, bounds and fairness](#3-runs-bounds-and-fairness)
- [4. Proofs](#4-proofs)
- [5. Where code and documents differ](#5-where-code-and-documents-differ)
- [6. Plan, and what stays outside](#6-plan-and-what-stays-outside)

To repeat a check: `tlc -workers 2 -config RenameOutside.cfg MCRenameJournal`
(section 3 names the module of each configuration), and `tlapm` on each module
named `...Proofs` for the proofs.

## 1. The system

`docs/architecture.md` draws the crates. A thin shell (`src/`) delegates to
component processes; those share nothing but files: the project source, its
`.eska` directory, the Git repository, the user's configuration and the build
cache. Within a process only the IDE server has threads of its own; everything
else is sequential code that other processes, editors, Git and crashes can
interrupt between any two system calls.

| Component | State | Operations | What makes it hard | What makes it correct |
|---|---|---|---|---|
| Metadata write journal (`core/metadata_rename/transaction*`, `core/metadata_edit/write.rs`) | project source; `.eska/metadata/rename` with staged bytes, `journal.json`, `ready`, `finished`; `write.lock` | acquire, prepare, publish, commit, rollback, clean up, inspect, recover | several files and directories change without a transaction; crashes inside recovery; editors that take no lock | all or nothing; recovery possible from every crash; outside bytes kept; a decision is never reversed |
| IDE server runtime (`ide/runtime.rs`, `server.rs`) | bounded queue behind a mutex, channel to the writer, atomics, park token, server state | read, enqueue, cancel, execute, publish, flush, stop | three threads, out-of-band cancellation, batches, back-pressure, four ways to end | every request answered once; a timely cancellation works, a late one hides nothing; ids freed exactly when written; no lost wake-up |
| IDE file events (`ide/events.rs`, `metadata.rs`) | sequence number and refresh flag per project | apply, overflow, reset, reopen | notifications are refused, purged, out of order | a lost change is never forgotten |
| Managed builds (`build/*`) | infobase with owner and state, lock file, artifact, passport, backups, workspace | build, build with passport, forced build, clean, cancel | crash between any two steps, two files published as one, a child in a container | artifact and passport belong together and are truthful; failures keep the previous pair; only the lock holder works on the infobase |
| Artifact import (`crates/eska-build-runtime/src/artifact`) | source tree, staged tree | inspect, replace | two directory renames, staleness check | the old or the new tree, never none |
| Shelves and switching (`vcs/vcs/shelves`, `vcs/project/switch.rs`) | shelf directory and protecting ref, restore journal, index, working tree, HEAD | shelve, unshelve, switch | five kinds of state in Git and on disk, a user who edits meanwhile, failing hooks | the only copy of a change is never deleted; no change reaches another branch; an interrupted restoration can be repeated |
| Task start, save, finish (`vcs/project`, `vcs/vcs/repository.rs`) | branch and tracking refs, index, worktrees, remote | read, fetch, compare, move a ref by compare-and-swap, switch, delete, stage, commit, restore the index | what was read before the network call is used after it; other worktrees and Git commands | no commit loses its last reference; a reported success is true; no branch moves under a worktree |
| Query sessions (`ide/query`, `core/query/recovery`, `core/query/session.rs`) | checkpoint file with its lock, the server's cache of it, session, upload, the client's buffer and plan | open, resume, prepare, applied, abort, upload, commit, remove | compare-and-swap between windows, crash between apply and receipt, lost replies | no draft overwritten, the intent of a plan stays stored until it is settled, an undisturbed application can be reconciled |
| Analyzer configuration (`crates/eska-analyzer`) | generated settings file, leases | prepare, publish | stale read against a manual edit | no lost update |
| Component processes (`crates/eska-tool-runtime`) | child, up to three pipes, reader and writer threads, deadline, grace | capture, query, input, exchange, cancel, time out, kill, reap | drain, timeout, cancellation and exit race; descendants keep pipes open | the whole output or a truthful error, grace before a kill, no orphan, an end |
| Onboarding (`core/onboarding`) | project files, `eska.toml` | create, init, clone | partly written project | nothing foreign overwritten |
| Metadata workspace (`core/metadata_workspace`) | lazy tree, bounded cache, hashes, search index | expand, read, index, invalidate, refresh | files change under it and it is told late, twice or never | no answer older than what it was told; a ready index is complete |
| Parsing, formatting, queries, command lines, views | pure functions | — | large data, little order | functional tests |

How they interact. The IDE server calls the journal for every write, and a
write that cannot be reread sets its own refresh flag. Metadata commands of the
command line call the same journal from other processes: `write.lock` orders
them. Builds read the same source without a lock and take their own lock on the
infobase. Switching a task moves the source under all of them; it is an
"outside edit" for the journal. Every component process is started by the shell
through `eska-tool-runtime`.

`PROJECT.json` lists all components with their status, and every hazard with its
line and the properties that cover it.

## 2. The models

### RenameJournal and AtomicEdit

`RenameJournal` is `transaction.rs` with `recovery.rs`, `properties.rs`, `io.rs`
and the compare-and-replace writer of `metadata_edit/write.rs`. One step is one
file-system operation, so that a crash (`Crash`), an I/O error (`IoFails`), an
editor (`ForeignEdit`, `ForeignClash`, `ForeignPayload`, `Resolve`) or another
writer comes between any two.

| State | Code |
|---|---|
| `file`, `loc`, `payload`, `clash` | bytes of a member, the name a path has, the untouched part of a moved directory, something else at the other name |
| `dir`, `staged`, `entries`, `goal`, `decided` | the journal directory and what is in it |
| `holder`, `op`, `pc`, `mode`, `idx`, `verdict`, `result` | the `Guard`, its position in `publish`, `rollback`, `cleanup` |
| `token` | the inspection token a client gives back to `recover` |

Actions follow the code in its order: `CheckClear`, `CreateJournal`, `StageFile`,
`StageMoves`, `MakeReady`, `ReviewPasses/Fails`, then for each file
`StageReplacement`, `CompareAgain`, `SwapFile`, for each move `CheckMove`,
`SwapMove`, then `Verify…`, `WriteMarker`, `Decide`, `CleanupStep`,
`RemoveDirectory`; and `Inspect`, `Recheck`, `Rollback`, `DiscardStep` for
recovery. Both kinds of journal share them; `Kind` selects where a rename (whose
review compares the whole inventory) and a linked property edit (whose caller
supplies `before` and `after` checks) differ. Bytes are `old`, `new` or
`foreign`. A journal takes the source from `Base` to `goal`; the next one may
take it back, as undo does. `BeginScalar` is the single-file edit that uses the
lock but no journal.

`AtomicEdit` is what callers rely on: one version before, one version after, one
step in between, and an answer that fits. `Atomic` in `RenameJournal` maps the
journal to it: the version is the one recovery would end in.

What the model does not say: which files a rename touches, and that digests
could collide. Directory creation, `fsync` and the rename that follows it are
one step: the code syncs before every rename and the model has no disk cache.

### IdeRuntime

`IdeRuntime` is `runtime.rs` with the parts of `server.rs` that scheduling and
cancellation can see. Three threads: `Reader` (`read_loop`, `enqueue`), `Worker`
(`run`, `process`, `process_one`, `send`, `flush`) and `Writer` (`write_loop`),
plus `Client` and `Fault`.

| State | Code |
|---|---|
| `jobs`, `pending`, `cancelled`, `bytes`, `overflow` | `Queue`, behind its mutex |
| `stop`, `exit`, `ready`, `published`, `written`, `token` | the atomics of `Shared` and the park token |
| `channel` | `sync_channel(1)` |
| `reader`, `worker`, `writer`, `server` | positions and locals of the threads |
| `sent`, `started`, `applied`, `doomed`, `stale`, `overrun`, `announced`, `delivered` | history the properties need |

A frame is a sequence of items, a batch is a frame with several, and a method is
reduced to whether it is allowed in the present state, whether it can fail, what
it changes and which events it emits. Whether a progress event is coalesced, a
refresh fails or an event follows a file change is nondeterministic.

Simplifications: an item is one byte of the queue; the client sends each frame
at most once and nothing after `exit`; the three atomics `stop` sets are set in
one step, and so are `send`'s look at the stop flag and its `try_send`;
`too_large` frames, panics, diagnostics, mutex poisoning and `manifestChanged`
are left out; per-project sequence numbers are in `MetadataSession`. When the
worker returns the process ends, whatever the other threads do, as `main` does.
File notifications that a refresh purges from the queue are the ones the protocol
tells the client to cover by a second refresh (`docs/ide-protocol.md:372`).

### ManagedBuild

`ManagedBuild` is `infobase.rs`, the build path of `execute.rs`, the
cancellation of `tool.rs` and the passport of `manifest.rs`: `Capture`,
`TryLock`, `Inspect`, `Remove`/`RemoveSome`, `Make`, `Own`, two stages of
`Spawn`, `Enter`, `NativeEnds`, `Interrupt` or `Reap`, then `Mark`, `Check`, and
the publication `BackUp`, `Unlink`, `Link`, `Sweep`, `Prune` with the rollback
`Undo`, `Redo`. A build with a passport runs each publication step for two targets,
so that it may die or fail between the staged files' removal, that of each backup
and the return.

| State | Code |
|---|---|
| `root` | managed directory: owner marker, `state.json`, data |
| `base` | the base configuration file |
| `dest`, `backups`, `held` | published files, hard-link backups, files another program keeps open |
| `lock` | the lock file beside the infobase |
| `proc`, `native`, `orphan`, `space`, `pidfile`, `signalled` | each process, its `ibcmd`, an `ibcmd` that outlived it, its workspace with `ibcmd.pid`, the interrupt flag |
| `before`, `settled`, `paired`, `stuck` | history: files when the lock was taken, files of the last build that reached all its destinations, builds that make a passport, failed builds whose artifact could not be removed again |

Commands are `build`, `recreate` (forced), `passport` and `clean`. Of the inputs
only the base configuration is modelled, because everything else a passport
names is hashed from the bytes that are copied; hashing the base and copying it
are one step each. An interrupt reaches the recorded process at once. All
builds of the model share one infobase and one output. Output paths that two
projects share, plan resolution, preflight, created output directories and the
files an orphaned `ibcmd` writes are not modelled.

### Shelves

`Shelves` is `vcs/vcs/shelves/mod.rs` with its `files.rs`, the Git commands of
`vcs/vcs/command.rs` it calls and the switch of `vcs/project/switch.rs` around
them, with Git's index and working tree.

| State | Code |
|---|---|
| `head`, `tip`, `index`, `tree`, `ilock` | HEAD, the tree of each branch, the index, the files, `index.lock` |
| `shelf` | per branch: `metadata.json` (none, torn, whole), `ready`, payload files, protected objects, `restore.json` and the index image |
| `pc`, `to`, `follow`, `own`, `undo`, `left`, `copy` | the running operation, its target and shelf, whether it rolls back, the paths its loop has still to visit, the temporary copy it has beside one of them |
| `owed`, `home`, `touched` | history: contents the user wrote and has not replaced, the branch each was written on, whether a running operation was disturbed |

Capture is `Plan`, `CopyIndex`, `CopyPath`, `ProtectIndex`, `CreateMetadata`,
`FillMetadata`; cleaning `StartClean`, `DiscardPath`, `DiscardIndex`,
`RemovePath`, `VerifyClean` or `CleanFails`, `MarkReady`; restoration `Select`,
`CreateIndexImage` to `FillJournal`, for each path `StageCopy` and `PutPath`, then
`LockIndex`, `SwapIndex`, `Compare`, `ConsumeFiles`, `ConsumeMetadata`; the switch
`Checkout`, `SwitchBranch`, `StayOnBranch`, `SwitchFails`. Files that
`write_new` fills in place are created in one step and filled in another, so
that a crash between them leaves them torn. `files::restore` writes
`.eska-restore-<pid>-<nanos>` beside its file (`StageCopy`) and renames it
(`PutPath`): the names are the paths `Temps`, which are untracked files to Git and
to the user like any other, and what is in such a file, whole or torn, is the one
content `Scrap`, since nothing reads it back. The user edits at any moment; between
commands he also deletes, stages, commits, discards and removes a stale
`index.lock`, a torn `metadata.json` or a temporary copy left behind
(`RemoveStray`).

`Exposed` names the contents `NothingLost` does not promise to keep: what the
user writes into a file that a running operation has read already. A commit is
identified with its tree; raw index stat data, file modes and ignored files are
left out, and so is a `.gitignore` that would hide a temporary copy; a Git process
is assumed to die with the command that started it.

### TaskWorkflow

`TaskWorkflow` is `start.rs`, `save.rs` and `finish.rs` over `repository.rs`,
`network.rs` and `command.rs`. Every read, fetch, comparison, look at the
worktrees, compare-and-swap and Git command is a step, and between any two the
user, a linked worktree and colleagues act (`Others`).

| State | Code |
|---|---|
| `policy` | `remote`, `finish` and `delete` of the resolved policy |
| `heads`, `tracking`, `remote` | local branches, remote-tracking references, the remote |
| `at`, `linked`, `index`, `tree` | the two worktrees, index and files of the main one |
| `command`, `phase`, `began`, `known`, `tip`, `target`, `snapshot` | position and locals of the command |
| `watched`, `mine`, `born` | history: whether the worktrees are still as the command saw them, commits made here, a counter |

A commit is the set of commits reachable from it, so "is an ancestor of" is
inclusion; files are a commit's or `Edited`. `start` is `BeginStart`, `Fetch`,
`Compare`, then `Forward` (`git merge --ff-only`, when base was active) or `Look`
and `Move` (the compare-and-swap of an inactive branch), `Create`; `finish` is
`BeginFinish`, `Fetch`, `Compare`, `Look`, `Move`, `Verify`, `Switch`, `Ask`,
`Delete`; `save` is `BeginSave`, `CommitOnly`, `Restore`. Left out: clone,
detached and unborn HEAD, an in-progress Git operation, a sibling's staging,
conflicts. The integration target is the base, as in every preset; a snapshot of
the index and the staging after it are one step, and so is a `git commit`.

### QuerySessions

`QuerySessions` is `core/query/session.rs`, `core/query/recovery` and
`ide/query`: one window in full and any number of others as one lock holder that
replaces the same checkpoint.

| State | Code |
|---|---|
| `disk`, `file`, `peer` | the source, the checkpoint file, what another window compared under the lock |
| `cache`, `upload`, `session`, `job` | recovery state of the server, upload, entry of `sessions.rs`, the publication in progress |
| `buffer`, `adapter` | the native text model, the plan the client was handed |
| `due`, `alone`, `trouble` | history: an intent nobody has settled, whether only the plan changed the source, a bound |

The revision of a checkpoint is the hash of its contents, so it is the record
itself. A request publishes in three steps: what it wants (`Resume`, `Prepare`,
`Applied`, `Abort`, `Remove`, `Commit`, `OpenSession`), `Lock` with the
comparison, then `Install`, `Lose` (replaced, but the reply or the process is
lost) or `Fail`. `Apply`, `Save`, `Edit`, `Reload`, `Crash` are the editor.

Assumed: the client has no upload left when it closes a session. Without that an
upload begun on a record with an intent could be committed after another window
prepared an identical one, and drop it: the commit compares hashes, not history.
Left out: constructors over a session, several records of an owner, protocol
1.15, quotas, the guard of the store's location, and the native version in a
record. Two things the model makes visible that are no violations: after
preparing with a dirty owner, saving it before applying makes the
acknowledgement refuse until the output is saved too; and another window may
settle an intent whose plan is still in the first window's hands.

### ComponentCall

`ComponentCall` is one call of a component process in `eska-tool-runtime`
(`capture.rs`, `query.rs`, `process.rs` and what formatter and extensions add).
`way` selects the transport: a query, a doctor check (with a grace after
cancellation), a probe (with a hook that ends what it started in a container), an
input capture (with a writer thread) or an interactive exchange.

| State | Code |
|---|---|
| `pc`, `status`, `stopping`, `result`, `ready` | position and locals of the caller |
| `reader`, `writer`, `channel` | the threads and their channel |
| `child`, `heir`, `pipe`, `produced` | the child, a descendant that inherited its pipes, their bytes |
| `flag`, `elapsed`, `graceOver`, `hooked` | cancellation, the two clocks, whether the cleanup hook ran |

The child is arbitrary: it writes, reads, forks a descendant and exits as it
likes. So is the process of a probe's hook, `distrobox enter ... kill`: `Hook` starts
it and waits, `HookEnds` is its end, with or without an effect, or never. Starting
threads is part of `Spawn`. Left out: finding and verifying the
executable, decoding replies, delegation of a whole command. A probe's hook is
skipped when its adapter has exited, and an exchange has no timeout.

### MetadataSession

`MetadataSession` is one open project: `ProjectSession` of
`core/metadata_workspace` (`session.rs`, `cache.rs`, `refresh.rs`, `search/`), what
`ide/events.rs` and `ide/metadata.rs` do with it, and the watcher of the client as
`docs/ide-protocol.md` asks for it.

| State | Code |
|---|---|
| `session` | `nodes`, `objects`, `expanded`, `by_path`, the descriptor cache, `fingerprints` |
| `index` | `SearchIndex` |
| `server` | `refresh` and `file` of `ProjectState` |
| `queue`, `lost` | file packets in the queue of the runtime, its `overflow` flag |
| `disk`, `client` | the source files, the watcher |
| `untold`, `work` | history: changes the session has not been told of, edits and restarts of the index |

`Loads` and `Verified` are the two reads around every answer; each operator gives
the set of outcomes, because a writer may come between them. `Children`,
`Properties`, `IndexControl`, `Refresh` are requests, `IndexStep` one descriptor
while nothing waits, `FilesChanged` and `FileOverflow` the notifications, `Edit`,
`Send` and `Resume` the outside. A descriptor is the object it declares with the
names of the objects below it; its path is known through the names of its owners,
so that objects stand for paths. A `Refresh` is taken whenever it likes, also
before packets that wait, as if the client had sent it before them.

Left out: the generation (a counter every invalidation raises; a request of an
older one is refused without effect), predefined data, modules, support policy,
the cache on disk, property edits, several projects, `manifestChanged`. The least
recently used entry of the cache is any entry.

### MC modules

`MCRenameJournal`, `MCIdeRuntime`, `MCManagedBuild`, `MCShelves` and
`MCMetadataSession` give the instances: which move carries which file, what each
client sends, the trees of the branches, what a descriptor may contain, and the
symmetry of processes and of temporary names (they are only compared for
equality, and no liveness is checked with them). The other modules need only a
configuration.

## 3. Runs, bounds and fairness

Every property has a mutant: a definition of the module replaced by a plausible
mistake, the operator before it whose comment says `Mutant`. With the mutant the
same run finds the property violated. `PROJECT.json` lists them.

| Run (module) | Instance | Checks | States |
|---|---|---|---|
| `rename_outside` (`MCRenameJournal`) | 2 writers, 2 files, 1 move, 1 fault, 2 edits | `Recoverable`, `WriteAhead`, `PreservesOutside`, `DecisionStands` | 625 000 |
| `property_journal` (`MCRenameJournal`) | 1 writer, 2 files, no moves, 2 faults, fair | `AtomicSpec`, `Settles` | 37 000 |
| `ide_safety` (`MCIdeRuntime`) | six connections, queue of 3 requests and 2 bytes | `Accounting`, `CancelInTime`, `AcknowledgesListed`, `LossSeen`, `EventFirst` | 277 000 |
| `ide_ending` (`MCIdeRuntime`) | two connections, three ways to fail, fair | `StopsPromptly`, `ExitFlushes`, `Answered`, `Ends`, `Indexed` | 100 000 |
| `ide_constructor` (`MCIdeRuntime`) | one connection | violates `AcknowledgesEffects` | |
| `build_passport` (`MCManagedBuild`) | 2 processes, 3 builds, host, 2 edits, 1 failure | `PassportTruthful`, `FailureKeepsPair`, `AloneInData` | 362 000 |
| `build_mixed` (`MCManagedBuild`) | 2 processes, 3 builds of three kinds, container, 2 faults of all six kinds | `PairMatches`, `Survives`, `ReuseComplete` | 1 390 000 |
| `shelves` (`MCShelves`) | 2 branches, a tracked and a new file, 2 names of temporary copies, 5 contents | `TypeOK`, `NothingLost`, `AtHome`, `Repeatable` | 1 040 000 |
| `query_sessions` (`QuerySessions`) | 3 texts, 2 drafts, 3 buffer versions, 1 plan a session, 2 disturbances | `IntentCovers`, `Reconcilable`, `ReplacesKnown`, `DraftKept` | 1 370 000 |
| `task_workflow` (`TaskWorkflow`) | 3 branches, 2 worktrees, 6 policies, commits numbered to 3 | `NothingLost`, `ReportTruthful`, `WorktreeSafe` | 1 470 000 |
| `component_call` (`ComponentCall`) | 5 transports, limit 1, 2 bytes a stream, pipes of 1, input of 2, fair | `Truthful`, `GraceKept`, `Returns` | 358 000 |
| `metadata_session` (`MCMetadataSession`) | 3 nested descriptors, cache of 1, 2 edits, queue of 1 | `NothingForgotten`, `Coherent`, `ReadyIsComplete`, `Unrefused` | 554 000 |

What they show.

*Journal.* `Recoverable`: at every step, also inside another recovery, an
undecided journal of an untouched source meets no conflict, so that recovery can
always be completed. `WriteAhead`: the source is between two versions only while
a complete journal says how to restore it. `AtomicSpec`: that is enough for
all-or-nothing answers. `DecisionStands`: after `finished` nobody touches the
source again. `PreservesOutside`: bytes written by others are lost only in the
window between the last comparison and the rename that
`docs/metadata-editing.md` admits. `Settles`: a user who keeps asking for
recovery gets rid of the journal.

*Server.* `Accounting` ties the pending set to the replies still on their way
through queue, worker, channel and writer, and says that neither the reader's
refusals nor the worker's replies answer an item twice. `CancelInTime` is the
client's view of cancellation: it has seen `initialize` answered and cancels
before the worker begins, so the request is not executed, even when the frame
with the cancellation is refused by a full queue. `AcknowledgesListed` is the
other side. `LossSeen` and `EventFirst` are what lets a client trust its copy
of the tree. `StopsPromptly`, `ExitFlushes`, `Answered`, `Ends` and `Indexed`
are about parking, waking and ending.

*Builds.* `PairMatches`, `FailureKeepsPair` and `Survives` are about the
publication of two files without a transaction: never a pair of two different
builds, a failure returns to the previous pair or says that it could not, and
what the last build that reached all its destinations has published is in place or
in a backup until another build has reached all of its own. That other build need
not report it: see section 5. The first two except the builds in `stuck`, also
there. `ReuseComplete` and `PassportTruthful` are
about reuse: sources are imported only into an infobase whose creation ended,
and the base a passport claims is the base the artifact was made against.
`AloneInData` is the lock seen from `ibcmd`.

*Shelves.* `NothingLost`: every content the user wrote keeps a copy in the tree,
the index, a commit or a shelf, through capture, cleaning, rollback, switch,
restoration and consumption. `AtHome`: no content reaches a branch it was not
written on, in particular after a checkout hook fails. `Repeatable`: what an
interrupted restoration has put back is not taken for a foreign change, though a
temporary copy it left behind is, until somebody removes it.

*Workflow.* `NothingLost`: the ancestry checks and compare-and-swaps leave no gap
through which a deletion could drop the last reference of a commit.
`ReportTruthful`: at its end a successful start or finish has what it reports. Its
excuse, `OnBase /\ watched = "changed"`, is not empty: `start.rs:80` reads which
branch is active before the fetch and line 144 uses it after, so that
`git merge --ff-only` moves whichever branch is active by then. `WorktreeSafe`:
no branch moves under a worktree that the command could have seen.

*Query sessions.* `ReplacesKnown` is the compare-and-swap seen from the file,
`DraftKept` says who may change a draft, `IntentCovers` that a plan in a client's
hands can be reconciled, and `Reconcilable` that after a crash it is.

*Component calls.* `Truthful`: an output is everything its child wrote, and a
cancellation or timeout has its cause. `GraceKept`: nobody is killed before grace
and cleanup, and no child outlives the call. `Returns`: every call but an exchange
ends by itself and an exchange when it is cancelled, unless the caller waits where
nothing limits it. There are two such places, each in one transport, and nothing
else holds a call up (section 5): an input whose writer is blocked on a pipe that a
descendant keeps open (`Joining`), and a probe whose hook does not end (`Hooking`).

*Sessions.* `NothingForgotten` follows a change of a file from the watcher to the
session through every way a packet can get lost: there is always somebody who
knows that the session is behind. `Coherent`: whatever the project still answers
about a file it was told of, from the tree, the cache or the index, is the file.
`ReadyIsComplete`: an index that says so is the tree, after objects left it and
came back while it was built. `Unrefused` is the other side of the hashes that
guard against a writer between two reads: none of them outlives the news that
its file has changed.

Types. Where a theorem proves a type invariant for every instance no run repeats
it, except that of `Shelves`. `Accounting` includes the one of `IdeRuntime`.

Bounds. Two writers or processes suffice for every interference through one
lock. Two files and two moves give a first, a last, a carried and a free member
and every order between files and moves. Two faults let a recovery be
interrupted by a second failure; a third would interrupt the recovery of a
recovery, which starts from the same kind of disk state. Two outside edits cover
the edit and its resolution. Three builds are a creator, a reuser and a
competitor. In `IdeRuntime` queue limits (3 requests, 2 or 3 bytes) are small
enough that each limit refuses something, and `Histories` lists which frames a
client sends together and, where it matters little, in which order; everything
about their timing is left open. Two branches, a
path Git knows and one it does not, and four contents of the user let a shelf meet
one of its own and one foreign change of each kind; two temporary names let one
copy be left behind and another be written. Three texts are the source, a draft
and something else; one plan a session and a second session show every order of
application, receipt and restoration. Commits up to number 3 let each side be
ahead of the other once. A limit of one byte makes one stream stay below, meet
and exceed it, and pipes of one byte make a child wait. Three nested descriptors
are a root, an owner and an object below it, each of which may change, leave its
owner or become unreadable; two edits, a queue of one packet and any number of
refreshes give every order of loss, gap, reset and second refresh. The bounds in guards are
`MaxFaults`, `MaxEdits`, `MaxBuilds`, `MaxVersion`, `MaxSerial`, `MaxTrouble`,
`MaxCommits`, `MaxValue` and `MaxOutput`. `property_journal` has no moves: those are covered
by `rename_outside` and by the proofs, and its question, whether recovery ends,
does not depend on what is put back.

Deadlock is checked for the journal, the workflow and the query sessions, where a
next operation is always possible, and not for the others: a server idles while
its client is silent and its process ends, builds stop at `MaxBuilds`, the user
of the shelves at `MaxValue`, nothing need happen in a project nobody asks about,
and a component call is over once it returns.
Lost wake-ups are caught by `Answered`, `Ends`, `Indexed` and `Returns` instead.

Fairness. `RenameJournal.Fairness` has weak fairness of `Work`, a process that
is alive continues, and strong fairness of `Inspect` and `BeginRecover`: the
user tries again, and a lock that is free again and again is met free in the
end. No outside edit, crash or new operation is fair. `IdeRuntime.FairSpec` has
weak fairness of each thread, which the operating system schedules; the writer's
also says that the client reads stdout, which `docs/ide-protocol.md:322`
demands. Input and faults are unfair. `ComponentCall.FairSpec` has weak fairness
of the caller, of the reader and writer threads and of the clock; the child, its
descendant, the process of a probe's hook (`HookEnds`) and the user are unfair.
`ManagedBuild` claims no liveness: how long `ibcmd` takes is not the program's to
say; nor do the others, whose next step is the user's.

## 4. Proofs

`RenameJournalProofs` proves for all writers, files, moves, carriers, both kinds
and any number of faults and edits, under `JournalAssumption` only:

| Theorem | Statement |
|---|---|
| `TypeCorrect` | `Spec => []TypeOK` |
| `Invariant` | `Spec => []IInv` |
| `WriteAheadHolds` | `Spec => []WriteAhead` |
| `RecoverableHolds` | `Spec => []Recoverable` |
| `DecisionStandsHolds` | `Spec => DecisionStands` |
| `PreservesOutsideHolds` | `Spec => PreservesOutside` |
| `AtomicHolds` | `Spec => AtomicSpec`, if `MaxEdits = 0` |

None of the properties is inductive. `Recoverable` says nothing about a journal
that is still being staged, nor about how far the source has got, and so a step
could lead from it to a conflict. `IInv` adds

- `IDisk`: which directory contents are possible (`ready` implies a manifest and,
  while undecided, all members);
- `IControl`: at which disk state each step may run (publication only with a
  complete undecided journal, planning only without a directory);
- `IIndex`: the range of the loop index in each phase, and that staging has
  written exactly the members before it;
- `IChecked`: what the last comparison before a rename established, unless an
  outsider raced it; this is all `PreservesOutside` needs;
- `ISource`: for an untouched source, how far it is: forward, files before the
  index hold the goal and none is moved until all are written; backward, moves
  after the index are undone, then files; at the decision the source is whole;
- `IHistory`: without outside edits nothing is mixed once the directory is gone.

`StepInvariant` is split by conjunct (`StepType`, `StepDisk`, `StepIndex`,
`StepSource`, `StepChecked`, `StepHistory`) and within each by action. Three facts
carry the argument: files are all written before the first move, moves are all
undone before the first file is restored, and the marker appears only when the
source is whole. `WriteAhead` and `Recoverable` then follow from `IInv`, and the
two action properties from `IInv` and one step.

`AtomicHolds` needs its assumption: an outsider may leave a source that is no
version at all. `IInv` does not say who called, so `ICaller` does: only a
publication commits, a recovery never carries the verdict of one, and a journal
that is discarded while it could still be loaded has an untouched source. The
proof then follows the mapping. `StepWay`: a step either keeps a way back
(`Undecided /\ Loadable`) and the plan, or has none before and after and keeps the
source, or is one of `MakeReady`, `Decide`, `DiscardStep`. `StepValue`: hence
`Value` changes in a committing `Decide` only. `WorkAnswers` and
`FailureAnswers`: every step keeps the phase or releases the lock with an answer
that phase allows.

### TaskWorkflow

`TaskWorkflowProofs`, for all branch names, policies, numbers of commits and any
number of steps of other people (`BranchAssumption`, `NumberAssumption`,
`EditedAssumption`):

| Theorem | Statement |
|---|---|
| `TypeCorrect`, `Inductive` | `Spec => []TypeOK`, `Spec => []IInv` |
| `NothingIsLost` | `Spec => []NothingLost` |
| `ReportsAreTruthful` | `Spec => []ReportTruthful` |
| `WorktreesAreSafe` | `Spec => WorktreeSafe` |

The properties speak of the end of a command, or of one step; what a command
knows in between has to survive everything the others do. `Grow` is the fact all
rests on: no step but finish's deletion lets go of a commit, so an established
"is an ancestor of" stays true. `IPhase` says which command is in which phase,
`IRemote` that a fetch brings nothing older, `IMine` is `NothingLost` without the
tracking references a deletion could leave behind, `IFinish` and `IStart` say
phase by phase what was established, `IWatch` what was seen of the worktrees. A
command that gives up resets its variables (`LeaveSettles`), and so the lemmas
about these parts look only at steps that go on. `StepSafe` then proves the
action property from the invariant.

### QuerySessions

`QuerySessionsProofs`, for any texts, drafts and bounds (`TextAssumption`,
`BoundAssumption`, `NoneAssumption`):

| Theorem | Statement |
|---|---|
| `TypeCorrect`, `Inductive` | `Spec => []TypeOK`, `Spec => []IInv` |
| `ReplacesOnlyKnown` | `Spec => ReplacesKnown` |
| `DraftIsKept` | `Spec => DraftKept` |
| `IntentIsCovered` | `Spec => []IntentCovers` |
| `DiskIsRemembered` | `Spec => [](IPrepare /\ IDisk)` |
| `ApplicationsReconcile` | `Spec => []Reconcilable` |

What a request puts in place of the checkpoint was computed before the lock from
what the server had cached. `IJob` remembers how it was computed: which requests
keep the draft, which clear the intent, and that an upload kept it. `IUpload` is
why it kept the current one, `ISession` why only a session without an intent can
prepare, `ILock` why the file is still the one that was compared. `Requests`
establishes `IJob`; `Replacements` lists the ways the file changes, from which
the two action properties follow.

`Reconcilable` needs more than the current plan: a resumption compares the
document with the record, so an unsaved buffer must not hide a change of the disk
that the record does not know. `IDisk` says so while a plan is due, and rests on
`IPrepare`: a preparation begins from the disk of its record when nothing else is
due, and a commit keeps the disk of the record it replaces.

### ComponentCall

`ComponentCallProofs`, for every limit, pipe capacity, output and request size
(`CallAssumption`):

| Theorem | Statement |
|---|---|
| `TypeCorrect`, `Inductive` | `Spec => []TypeOK`, `Spec => []IInv` |
| `AnswersAreTruthful` | `Spec => []Truthful` |
| `GraceIsKept` | `Spec => []GraceKept` |

The argument is the end of a stream: once nobody holds the writing end nobody
will, so a reader that met the end has everything that was or will be written
(`IStream`), and what the caller accepts was reported by such a reader
(`IReport`). `IResult` says what each result presupposes, `IKill` why a child may
be killed.

### MetadataSession

`MetadataSessionProofs`, for any tree of objects, contents, cache, queue and
number of edits. The first two need no assumption. The others use
`SessionAssumption`, `TreeAssumption` (every object is under the root),
`ContentsAssumption` (a descriptor names only objects it declares, and may name
them all) and `NothingAssumption` (the mark for "not remembered" is none of the
things that can be remembered):

| Theorem | Statement |
|---|---|
| `Inductive` | `Spec => []IInv` |
| `NothingIsForgotten` | `Spec => []NothingForgotten` |
| `KnownInductive` | `Spec => [](IInv /\ IKnown)` |
| `AnswersAreCoherent` | `Spec => []Coherent` |
| `ReadyMeansComplete` | `Spec => []ReadyIsComplete` |
| `NothingStaysRefused` | `Spec => []Unrefused` |

`NothingForgotten` is inductive once the packets, the flags and the watcher have
their types (`IShape`). The only step with an argument is `FilesChanged`: a change
that is still untold after the first packet is in a later one, or was nowhere but
with a watcher that owes a refresh.

The other three are about what is still remembered of a file that was told of, and
none is inductive: a packet names paths, and the session forgets what it finds
under them. So `IKnown` says that nothing is remembered where a path does not lead
to it.

- The tree (`Tree`): what is exposed was declared by an expanded object as it was
  shown, and what is expanded has a path. Hence collapsing an owner takes away
  everything below it and leaves a tree.
- The cache: complete properties lie under an exposed path (`Reached`), and their
  text is the one that was hashed (`Matched`).
- The index (`Linked`, `Stated`): a record was given by a descriptor that was read,
  what such a descriptor declares has a record, and what was not read is pending
  or failed. So an index that has neither is the tree. A descriptor that was told
  of and is not marked stale gave what is in the file now (`Current`).
- The hashes (`Hashed`): each is known to the tree or to the index, so that the
  notification of a change forgets it. The code does forget these paths when the
  index starts anew, therefore this part, like `Unrefused`, ends there.

The hard step is `FilesChanged`. It collapses, invalidates the index by owner and
marks what is stale, and may give up in between when the root cannot be read;
`Invalidating`, `Indexing` and `Telling` say what each of these leaves. Which
of several enclosing owners the code picks for a path is not used. `Above` is
recursive; `AboveDef` shows that it has its defining equation, and
`TreeAssumption` serves as induction over the tree.

### ManagedBuild

`ManagedBuildProofs`, for any processes, base configurations, builds, edits and
faults, on the host and in a container (`ProcessAssumption`, `BaseAssumption`,
`CommandAssumption`, `BoundAssumption`):

| Theorem | Statement |
|---|---|
| `Inductive` | `Spec => []IInv` |
| `TypeCorrect` | `Spec => []TypeOK` |
| `PairsMatch` | `Spec => []PairMatches` |
| `NothingPublishedIsLost` | `Spec => []Survives` |
| `FailuresKeepPairs` | `Spec => []FailureKeepsPair` |
| `ReuseIsComplete` | `Spec => []ReuseComplete` |
| `ToolsAreAlone` | `Spec => []AloneInData`, if no build is killed, and none is interrupted in a container |
| `PassportsAreTruthful` | `Spec => []PassportTruthful`, if all builds make passports and no removal stops half-way |

None of these is inductive: each speaks of two files that are changed in up to
eight steps, any of which may fail or be the last. The argument is that the
holder of the lock (`ILock`) is alone with the files, so that its program counter
and the files it found (`before`) say where each of them is: `Placed` names, for
every phase and target, what stands at the destination and what the process has
noted as its backup; `Kept` adds which backups still exist. A process that dies
gives the lock away and leaves files of which only `Matched` and `Survives` are
known, and that is all the next holder needs. Four lemmas (`Quiet`, `Turn`,
`Infobase`, `Publication`) say once what a step of each kind leaves alone; every
action then has a lemma of its own. The proof found that `PairMatches` and
`FailureKeepsPair` fail with three faults, beyond the runs' bound (section 5).

The last two theorems hold under hypotheses on `Commands` and `Faults`, which are
the limits section 5 names; TLC shows a counterexample when one of them is
dropped. `PassportTruthful` needs two more invariants: the base a build has
copied is the base its infobase was created from, recorded with and is reused by
(`IClaims`), and the number of a build names no file before it publishes
(`IFresh`).

### Shelves

`ShelvesProofs`, for any branches, files and contents and any number of edits,
commands, failures and crashes (`BranchAssumption`, `BoundAssumption`,
`TipAssumption`, `TempAssumption`):

| Theorem | Statement |
|---|---|
| `Inductive` | `Spec => []IInv` |
| `TypeCorrect` | `Spec => []TypeOK` |
| `NoChangeIsLost` | `Spec => []NothingLost` |
| `ChangesStayHome` | `Spec => []AtHome` |
| `RestorationsRepeat` | `Spec => []Repeatable` |

The properties look at the repository, most of them while nothing runs; what a
session relies on in between is not in them, and so none but the type invariant
is inductive. `IInv` has one part for each property, and one for the temporary copy.

- `SafeInv` is `NothingLost` with what the session answers for, phase by phase:
  from its copying on, what the user has in the index and in the planned files is
  what the shelf has, before the cleaning the payload and the reference are
  complete (`IndexSaved`, `FilesSaved`), and what is about to be consumed is back
  (`Back`). Files that were edited after they were read are no exception: their
  contents are `Exposed`, and so not owed. `CommittedFree` is why a file may be
  overwritten with that of the base, `Works` why no step touches the shelf of
  another branch, `Bounded` why a new content is none of the old ones.
- `CopyInv` says that a session has a temporary copy only while it puts a path back,
  under a name that is not in its own shelf, and that the copy holds `Scrap`: so
  writing, renaming or leaving it touches nothing the user wrote.
- `HomeInv` adds that a shelf holds nothing of another branch (`ShelvesAtHome`)
  and that what a checkout can carry was written while the switch ran
  (`NothingCarried`): a switch that leaves a dirty branch captures and verifies
  first.
- `RepeatInv` follows a restoration: the shelf has the commit of the branch
  (`BaseCurrent`, `TargetCurrent`), beside its plan the index is that of the base
  (`IndexPlanned`), the files are clean, then half put, then as the shelf has them
  (`Undisturbed`), and the journal is written after the image of the index
  (`Reviewed`). So the next attempt accepts what the last one left (`Acceptable`).

Steps that change the same things share a lemma: those that only look
(`SessionStep`), those that write one file of a shelf (`ShelfStep`), those that
write files of the user (`FilesStep`). `...Moves` says what such a step does,
`...Safe`, `...Home` and `...Repeat` that the three parts survive it.

### IdeRuntime

`IdeRuntimeProofs`, for any frames and batches, any client, any limits on jobs,
bytes and batches and any faults, under `FrameAssumption` (a frame is a sequence of
items, of one item unless it is a batch) and `LimitAssumption`:

| Theorem | Statement |
|---|---|
| `Inductive` | `Spec => []IInv` |
| `ChargedForWhatIsOwed` | `Spec => []Accounting` |
| `CancelledInTime` | `Spec => []CancelInTime` |
| `EffectsAcknowledged` | `Spec => []AcknowledgesListed` |
| `NoLossForgotten` | `Spec => []LossSeen` |
| `EventsComeFirst` | `Spec => []EventFirst` |
| `StopIsPrompt` | `Spec => []StopsPromptly` |
| `ExitIsFlushed` | `Spec => ExitFlushes` |

Only `LossSeen` is inductive, given the types. The others speak of what was
written, and so of what every thread had in its hands before. `IInv` follows a frame
from place to place: reader, queue, worker, channel, writer, written.

- `IPlaces`: a frame is at one place at a time and in one job, and what was begun
  has left the queue. That is why nothing is answered twice, though worker and
  reader both answer.
- `IWorker`, `IReader`, `IWriter`: what each holds at its step. The outbox of the
  worker is events, and behind them at most one answer, to the job in hand, that
  releases exactly its requests (`Cargo`); the answers collected so far are one for
  each request before the current item, and nothing behind it was begun
  (`Working`).
- `IPending`: what the queue is charged for is owed by a place that will release
  it. It may be more once the connection ends or `exit` was read, since answers are
  thrown away then. `ILimits` does the same for bytes: `Charged` counts them item
  by item, so a job that is taken lowers them by exactly its size, also when a
  refresh has purged its notifications (`Faithful`).
- `IDoomed`: what was cancelled in time is marked for as long as it could still be
  begun. Its step needs `IReady`: whoever can have seen the answer to `initialize`
  finds `ready` set, so the cancellation is not ignored.
- `IApplied`, `IEvents`: which answers may still say `cancelled`, and that the event
  of a refresh is ahead of its answer at every place.
- `ICount`, `IExit`, `IComplete`: published is written plus what lies between; a
  frame with an `exit` is the last; and while the connection lasts a frame that is
  at no place was answered. When `flush` ends, the count says that channel and
  writer are empty, and so every frame is at no place (`Flushing`).
- `IStop`: once something was begun after the stop, the worker looks at the flag
  before it takes another job.

An action is described by what it moves, not by what it assigns. Twenty such
classes (`Handles`, `Takes`, `Ships`, `Receives` and so on) cover the actions
(`Classes`), and each part of `IInv` is kept by every class (`ShapeStep` to
`CompleteStep`). Before it was proved, TLC found no state of the instances of the
three runs that violates `IInv` (with `Entry` read as `Item`, which it can evaluate).

Checked by TLC only: all liveness. Liveness under fairness and `ENABLED` are out of
the prover's reach here, and so is induction over data, which nothing proved needs:
what `MetadataSession` needs of its tree is an assumption about sets, and sizes are
cardinalities.

## 5. Where code and documents differ

One is a run that TLC finds violated; `PROJECT.json` quotes the lines.

- `ide_constructor`: the four constructor methods change the retained draft but
  are missing from `commits_state`. A late cancellation replaces their
  acknowledgement by `requestCancelled` and the client loses the revision.

Known limits that the modules show when their constants or properties are
changed, and that the passing runs therefore exclude or excuse by name:

- Journal: cleanup removes `finished` before the directory itself. A process that
  dies in between leaves a directory without a marker: inspection answers that
  nothing was committed and every later write is refused until the user recovers.
  The source is not damaged: it is what was decided, and the recovery only removes
  the directory. `DecisionStands` speaks of the time before, while there is a marker.
- Journal: `Recheck` compares the inspected token with the journal, as the code
  does, but no property states what a client expects of it, namely that no other
  journal is recovered than the one it has reviewed.
- Builds: when the old artifact cannot be removed (a program holds it open on
  Windows), `restore_pair` first removes both destinations, ignoring failures: the
  intact passport is deleted and not linked back. The build then reports that it
  could not restore (`"restore"`), which `FailureKeepsPair` excuses.
- Builds: a build that dies between the two removals leaves a passport without its
  artifact. If the next build with a passport links its artifact, fails to link
  its passport and cannot remove its artifact again, `restore_pair` ignores the
  last failure and puts the old passport beside the new artifact, and the build
  reports an ordinary error. It takes three faults (`MaxFaults = 3`); `PairMatches`
  and `FailureKeepsPair` except such builds (`stuck`).
- Builds: backups go before the build returns (`execute.rs:594`, `650`). A build that
  dies after the removal of its artifact's backup, or an ordinary one that cannot
  remove its staged file or its backup and so reports an error
  (`execute.rs:590-597`), has put its own artifact in place, and what the last
  successful build reported is gone or in a backup nobody mentions.  `Survives`
  therefore counts a build as published once its last link is made.
- Builds: an ordinary build hashes the base configuration and loads the same path
  later. If the file changes in between and is then put back, a passport build
  reuses that infobase and claims a base it does not contain. `PassportTruthful`
  is checked and proved with passport builds only, which copy what they hash.
- Builds: a recursive removal that stops half-way may leave the owner marker and
  `state.json` beside torn data, and the next build reuses it. `ReuseComplete`
  admits such data by its name, `"torn"`.
- `ManagedBuild` with `Container = TRUE` and `Faults = {"signal"}` violates
  `AloneInData`: before the shell in the container has recorded its PID an
  interrupt kills only the adapter, the lock is freed and `ibcmd` goes on. With
  `Faults = {"crash"}` it does so on the host as well: `ibcmd` outlives a killed
  build. The lock cannot help there.
- After an ordinary build the passport of an earlier one stays beside the new
  artifact. No document says otherwise, so `PairMatches` speaks of artifacts that
  were made with a passport.
- Server: an `exit` notification that arrives while the queue is full is refused
  without an answer (`EnqueueRefuse`); the process then waits for the end of its
  input.
- Shelves: after a collision or a dirty result the rollback
  (`shelves/mod.rs:245-252`) overwrites the foreign edit it has just detected,
  although its comment speaks of "this operation's own writes"; `Exposed` excuses
  it. A crash in the middle of cleaning leaves a shelf that is not ready, which
  both `shelve` and `unshelve` refuse until the user recovers by hand; a torn
  `metadata.json` blocks every shelf operation (`RemoveTorn`) and a torn
  `restore.json` the restoration; a crash in `SwapIndex` leaves `index.lock`
  (`RemoveLock`). A crash between the creation of `.eska-restore-*` and its rename
  (`files.rs:138-157`) leaves that file in the working tree, and the next `unshelve`
  is refused as dirty (`shelves/mod.rs:531-538`) until the user removes it
  (`RemoveStray`); nothing removes it by itself, because its name contains the
  process and the time. `Repeatable` excepts both. After a failed cleaning with a
  successful rollback the shelf stays.
- Workflow: `git merge --ff-only` moves whichever branch is active by then, since
  `start.rs:80` looks before the fetch and `start.rs:144` decides after it; and a
  linked worktree that checks a branch out between the look at the worktrees and the
  compare-and-swap has it moved or deleted under it. `ReportTruthful` and
  `WorktreeSafe` except both by `watched`.
- Workflow: between `Compare` and `Verify` another fetch can move the tracking
  reference; finish then succeeds although the local base lacks the task, and
  nothing is lost. A deletion that fails after the switch leaves the user on the
  base, and repeating finish answers that this is no task branch. A stale tracking
  reference counts as published, because the fetch does not prune. What others
  stage between save's snapshot and its restoration is overwritten, which
  `save.rs` documents. A failing checkout hook leaves the switch done and the
  command failed.
- Component calls: two waits have no limit. `capture_input` joins its writer after
  it has killed the child (`capture.rs:97`), and a descendant that holds the input
  open without reading keeps it waiting. A failing probe first runs `distrobox enter
  ... kill` to its end (`capture.rs:53`, `build/tool/probe.rs:46`,
  `build/tool.rs:816`), before its child is killed; a container that hangs, a likely
  cause of the timeout, holds up the hook as well. Neither timeout nor cancellation is
  looked at meanwhile, though `build/tool/probe.rs:22` says that a probe has a finite
  duration. `Returns` names both.
- Component calls: `receive` (`capture.rs:151-158`) signals the child although
  `try_wait` may already have reaped it, while its streams are still open; the
  number may belong to another process by then, contrary to the comment "Signal
  only the owned process". The forwarding of an exchange's cancellation does the
  same. `ComponentCall` has no process numbers and does not show it.
- Sessions: the step of the index that meets a file changed without notice drops
  its hash (`cache.rs:299`), and until the change is told `metadata/properties` answers
  the new text beside the old branch, in the same generation.
  `docs/metadata-workspace.md:100-102` says that a missed event does not mix new
  properties with the old tree. `Coherent` speaks of told changes only.
- Sessions: `metadata/index start` on an index that exists drops the paths it knew
  and keeps the hashes. A descriptor that only the search had read and that
  changes is then refused as changed, even after a refresh of the root, until its
  owner is expanded. `docs/metadata-workspace.md:85` says that a root refresh resets
  all known branches; `Unrefused` excuses it by `work.restarted`.

## 6. Plan, and what stays outside

All that was planned around the user's changes is done: the journal, the server
runtime, builds, shelves and switching, the task workflow, query sessions,
component calls and the session of a project. What a next step would add:

| Next | Models | Main properties |
|---|---|---|
| `ArtifactReplace` | the two renames that replace the source tree on import, and their undo | the old or the new tree, never none |
| `AnalyzerConfig` | leases on the generated file and its publication | no manual edit is overwritten |

Both have their hazards listed in `PROJECT.json` without a property.

Not modelled: parsing, formatting, metadata rules, queries and configuration
formats, which are functions of large data with little order and are covered by
the repository's own tests; views of Git history, which only read; command
lines and presentation; the extension patch, which transforms a tree and then
runs a build; self update, whose download and replacement are external.
