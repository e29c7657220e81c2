# eud-agent: TLA+ specifications

eud-agent is a desktop app (Tauri 2: Rust core in `src-tauri/src`, React panel in
`panel`, C++ map library in `native/isom`) in which AI sessions author a StarCraft
map project.  Several sessions, and background workers they start, change one
project at the same time; each turn's work becomes one git commit.  The hard part of
the code is keeping those turns apart and keeping what they did through failures and crashes, and
that is what this directory specifies.

Paths below are relative to the repository root; `SRC` is `src-tauri/src`.

## 1. Inventory

| Component | State it keeps | Operations | Talks to | Correct when | Here |
|---|---|---|---|---|---|
| Project write coordinator (`write_coordinator.rs`) | registrations by request, path claims by request, one mutex per key | `request`, `release`, `claim`, `unclaim`, `clear_*`, `claimed_*`, `transaction` | every engine, every tool | one transaction at a time; nobody's registration or claim leaks | `WriteCoordinator` |
| Turn engine (`engine.rs`) | current request, phase, pending plan and write | `chat_turn`, `plan_feedback`, `plan_approve`, `cancel`, `settle_request`, `recover_*` | provider runtime, tools, git, journal | each turn commits its own work and gives the session back | `TurnCommits` |
| Tool execution (`tool_exec.rs`, `tools.rs`, `fs_tools.rs`) | execution lock, open request, write ticket | `begin_request`, `execute_scoped`, `claim_*_paths`, `register_write_request`, `clear_current` | coordinator, journal, project files | a call belongs to its request; a source file is claimed before it changes | `TurnCommits` |
| Git history (`git.rs`, `release.rs`) | the work tree and its index | `dirty_paths`, `commit_paths`, `commit_external_edits_except`, restore, revert, tag | engine | a commit holds what its turn owns | commits in `TurnCommits` |
| Request journal (`journal.rs`) | entries per request, archive | `record`, `persist`, `accept_entries`, revert | tools, engine, review | what was accepted is archived, the rest can be reverted | targets only |
| Run gate (`provider_tool_loop*`) | calls in flight, seen ids, completions, accepting/closed/fatal, transition and boundary flags | reserve, admit, execute, record, publish, close, drain | runtime, MCP server, tools, journal, receipt | no call acts after the run reported; results are durable; nothing turned away is lost | `RunGate` |
| Foreground run (`provider_runtime/runtime/`) | step or batch under way, cancellation, what it will report | adapter steps, tool batches, `finish_run`, `stop_run` | engine, run gate, adapter, panel | reports only over a drained, sound gate; a cancelled run ends | `ForegroundRun`, `RunPromise` |
| Native receipts (`provider_runtime`, `provider_tool_loop/receipt*`, `session.rs`) | one receipt file per run, the session record's conversation, receipts to retire | begin, mark, resolve, acknowledge, clear, hydrate, reset | engine, run gate, adapter, disk | a crash neither repeats a completed request nor goes on over an unconfirmed one, and the conversation is continued | `NativeReceipts` |
| Source writers (`tool_exec.rs`, `workspace.rs`, `native_project.rs`) | baseline per turn, journal per request | `file_write`, `file_edit`, create, delete, move, rename, `begin_turn` | project files, journal, the user's editor | no concurrent change is silently lost | `ConcurrentSources` |
| Map candidates and map safety (`mapsafe.rs`, `map_candidate.rs`, `map_agent.rs`) | source maps, backups, pending journals, session state | apply, undo, follow the source, recover at startup | native library, disk, map editors | an interrupted Apply is found and taken back, one that reported success never | `CandidateApply` |
| Native map library (`native/isom`) | map in memory: string table, references, WAV slots, assets | managed-sound calls, edit batch, save with its deletion of unused strings, verify, promote | map safety, candidates, disk | the caller is handed the input with exactly the requested change, or nothing | `GameStrings`, `NativeEdits`, `CandidateFile` |
| Transcript of direct providers (`provider_transcript.rs`) | generations and the pointer to one | publish, restore | runtime, disk | a crash leaves a readable conversation | not modelled |
| Workers and teams (`worker.rs`, `engine/worker.rs`, `team.rs`) | worker records under a parent | start, settle, continue, cancel | engines | at most three active; each settlement is reported once | failed turns only |
| Project registry, launch, rebind | open projects, bound sessions | open, close, launch, rebind | engines, files | a project is not closed under a running session | not modelled |
| Context, task state, memory, checkpoints, autonomous runs | append-only logs, progress | append, compact, resume | engine | what was delivered is what was committed | not modelled |
| Build, file formats, retrieval, setup, sign-in, provider clients, panel, terrain and vendored libraries | | | | | not modelled (section 8) |

What is hard in this code is listed, line by line, under `hazards` in
`PROJECT.json`.  In short:

* **Two threads per session.**  The engine runs async; a tool call runs on a blocking
  thread.  Stopping a provider run waits for that call for a grace period only, so it
  can outlive the turn, then claim, write or journal for a request that is over.
* **Two ways to keep commits apart.**  Canonical writers take the project transaction,
  git mutations take the same one; `fs_*` writers take none and rely on path claims.
  Some writers claim before they write, others after.
* **Six ways out of a turn**: settled, cancelled, failed, failed as a worker, parked for
  plan review, failed after approval.  Each must release the registration, end the
  claims and free the session, in its own order.
* **Calls beside the run.**  Native tool calls arrive while the run closes its gate; asks wait for a
  user; completions rewrite one receipt and go to the panel over a channel that the drain must empty.
* **Checked, then used**: the registration before the transaction, the claims before
  `git status`, `git status` before `git add`; a source file between a call's read and its write; a source
  map between its hash and its backup, and between the hash and the replacement that relies on it.
* **Several writes, no transaction on disk**: an Apply is backup, journal, map and session state; a native
  run is receipt, session record and receipt again.  Any write may fail and the app may die between two.
* **One string table for everything**: names, sounds and trigger texts share entries and reuse freed ids, and
  every save deletes what nobody refers to, so an operation on one can change what another one reads.

## 2. Plan

In this order, the most important behaviour first:

1. `WriteCoordinator`, `TurnCommits` and their proofs: done, this is the core.
2. `RunGate`, `ForegroundRun` and their proofs: done, with the promise `TurnCommits`
   relies on ("a run that reports has its calls behind it") as a specification of its own,
   `RunPromise`.
3. `ConcurrentSources` and its proofs: done; baselines, lineage and the three-way merge.
4. `NativeReceipts` and its proofs: done; crash and lost write between any two steps.
5. `CandidateApply` and its proofs: done; Apply, undo, commit, recovery.
6. `GameStrings`, `NativeEdits` as an implementation of `CandidateFile`, and their proofs: done.
7. Left: `Journal` (partial decisions and revert, the orphan journal of a late call), `Workers`, the
   registry's close gate.

Every safety property and both refinements that the runs check are proved.  Theorems left go with the modules left:
`InterruptedIsJournaled` over several sessions of one map, a journal's decisions and the orphan journal of a late call.

## 3. Modules

| Module | What it is |
|---|---|
| `WriteCoordinator` | the coordinator's state and one operator per operation |
| `TurnCommits` | engines, tool calls and git commits of one project, composed with the coordinator |
| `MCTurnCommits` | symmetry sets for TLC |
| `WriteCoordinatorProofs` | lemmas about the operators of the coordinator |
| `TurnCommitsProofs` | the inductive invariant and theorems about turns (section 6) |
| `RunPromise` | what a provider run promises the engine: effects, durability, outcome |
| `RunGate` | the tool gate of one run and the tasks and threads of its calls |
| `ForegroundRun` | the run itself, composed with `RunGate`; implements `RunPromise` |
| `MCForegroundRun` | symmetry sets for TLC |
| `ForegroundRunProofs` | the inductive invariant of a run, its theorems and the refinement |
| `ConcurrentSources` | the source tools of sessions on one project, with the user's editor |
| `MCConcurrentSources` | symmetry sets for TLC |
| `ConcurrentSourcesProofs` | lemmas about the merge and lineage, the inductive invariant and theorems |
| `NativeReceipts` | how a session continues a native conversation over failures and crashes |
| `NativeReceiptsProofs` | lemmas about the chain of receipts, its inductive invariants and theorems |
| `CandidateApply` | applying a candidate map, undoing it, and recovering at startup |
| `MCCandidateApply` | symmetry sets for TLC |
| `CandidateApplyProofs` | its inductive invariant and theorems |
| `GameStrings` | the string table of a map, its users and its sounds, as operators |
| `CandidateFile` | what a native map call promises its caller: the abstract specification |
| `NativeEdits` | the native calls from load to promotion, over `GameStrings`; implements `CandidateFile` |
| `MCNativeEdits` | the small maps TLC starts from |
| `GameStringsProofs` | what each operation on the string table changes, shares and keeps |
| `NativeEditsProofs` | the inductive invariant of a native call, its theorems and the refinement |

### WriteCoordinator

`active` is the `active` map (request to session), `claims` the `claims` map (request to
`PathClaim`), `lock` the mutex of the one key that is kept, `eps:<id>`: EPS tool
transactions, git mutations and claims all use it.  Registration, `owns`, `claim`, `unclaim`,
`clear_claims`, `clear_session_claims`, `release` and the three `claimed_*` readers are
operators of the same meaning; a component conjoins the ones it calls to its own action.  Each is
one critical section in the code, except `release`, which locks `active` and then `claims`; the model
does both at once (nothing reads the two together, so no observer can tell).

### TurnCommits

A session is two threads.

* The **engine**: `phase` says where it is, `cur` is the request its runtime holds,
  `ticket` its write ticket, `plan` whether it executes an approved plan, `next` where it
  goes after the commit it is about to make.
* The **tool thread**: `tool` is the one call that holds the execution lock, with the
  request that admitted it and its step: admitted, inside the transaction, written, left.

| Action | Code |
|---|---|
| `BeginRequest`, `ChatRefused` | `begin_request` and its two refusals |
| `EnterGit`, `SelectPaths`, `CommitPaths`, `CommitFails`, `UnclaimRecorded` | `run_git_mutation` with `commit_external_edits_except` (phase `external`) or `commit_owned_paths_with` (phase `boundary`), split where another thread can get in between: claims read, `git status` read, commit made, claims dropped |
| `RegisterTurn` | `register_write_request` in `chat_turn` |
| `RunCompleted`, `RunCancelled`, `IterationEnds`, `PlanAfterChanges`, `PlanWithoutChanges`, `TurnFails` | how `run_first_turn_with_resume_fallback` can return |
| `PlanApproved`, `PlanFeedback`, `Feedback...` | plan review |
| `SettleRequest`, `ReleaseRegistration`, `EndTurnClaims` | `settle_request`, `settle_write_lifecycle`, `end_turn_claims` |
| `RecoverFailure`, `ClearCurrent`, `CancelIdle` | `recover_read_failure`, `recover_write_failure`, `clear_current`, `cancel` of an idle session |
| `AdmitTool` ... `ClaimResult`, `ToolFails` | `execute_scoped` |
| `EditOutside` | edits nobody claims: the user's editor, a provider's shell |

`edits` is the work tree's difference from the last commit, each with the request that
made it and the kind of writer: a ghost that the properties need and the code does not keep.  The
kinds are `source` (claims first, transaction, journal), `journal` (transaction, journal, claims
afterwards) and `fs` (claims first, neither transaction nor journal).  `git add --all` and the selective
commit are told apart, since the former takes also what became dirty after `git status`.

### RunGate and ForegroundRun

`RunGate` is the shared state (`GateState`, the `closed` and `fatal` watch channels, the recording
mutex, the event channel, the `drained` notification) and, per call, the step `pc[c]` of the task or
blocking thread that carries it out.  Each action is one critical section or one call out of the gate.

| Action | Code |
|---|---|
| `EnsureScope`, `Reserve`, `Admit` | `ensure_scope`, `reserve_ids`, `admit` |
| `PublishStarted`, `Announce` | `publish_started`, `publish_completed`; both fail once the receiver is gone |
| `Subscribe`, `Look`, `WaitClosed`, `Answered` | the asking half of `execute_call` |
| `Decide`, `Register`, `Flag` | `execute_outcome`: boundary, write transition |
| `Execute`, `Effect` | `execute_for_run`: the execution lock and the scope test, then the work |
| `Record`, `Push`, `Persist` | `record_completion`: journal and checkpoint, gate state, receipt |
| `Drop`, `Notify` | `Drop for Admission` |
| `RecordFatal`, `StopAccepting`, `SendClosed` | an error of `dispatch_native` |

`ForegroundRun` adds the run: `at` is the place in `foreground`, `ending` what it is about to report,
`active` the call a direct batch waits for.  `Stop` and `Finish` send it through the same closing and
draining (`CloseGate` ... `WakeUp`) with an `ending` that says whether it gives up (`stop_run`) or has
more to check (`finish_run`, `FinishChecks`).  A batch that is cancelled or times out drops its dispatch
(`Abandon`): an ask goes with it, a blocking thread goes on.

The executing thread and what the transcript or receipt holds are `executed` and `durable`; with
`outcome` they are the variables of `RunPromise`, and the refinement mapping is by name.

Kinds of call stand for what the gate tells apart: it waits (`ask`), it needs the write workspace
(`mutate`), its arguments violate the schema (`usage`), anything else (`read`).  A batch's ids are taken
one at a time as its calls begin: nothing else reserves in a direct run, so nobody can tell.

### ConcurrentSources

`live` is the project's `src/` tree, `baseline` what `WorkspaceManager::begin_turn` captured for a session's
turn, `journal` what the session's request has done, `call` the one call inside the project transaction,
between its reads and its change.  A file is a fixed number of lines and a line's texts are its versions.

| Action | Code |
|---|---|
| `FileWrite`, `FileEdit`, `FileCreate`, `FileDelete`, `FileMove` | the tool of that name in `tool_exec.rs` up to its first change: reads, `source_lineage`, merge or refusal |
| `Commit`, `Fail` | `write_source`, `create_source`, `delete_source`, `move_source` and the journal entry; or an error |
| `BeginTurn`, `EndTurn`, `NewRequest` | `begin_turn` with `bind_source_baseline`; the turn recorder's end; `begin_request` |
| `UserSaves` | the user's editor, which takes no transaction |

`Lineage` folds the request's journal backwards, as `source_lineage` does: moves and renames lead a path back to
the one that was captured, a write gives the last content written there, a creation stops the search.  `CanMerge` and
`Merge` are `merge_concurrent_text`: the runs of changed lines of both sides, refused where two that are not the
same overlap.  A call that outlives its turn keeps what it has read; one that reads after the turn's end finds no
baseline directory and fails, so `Free` asks for the turn.  `seen` is a ghost: the contents a request captured or wrote.

### NativeReceipts

`saved` is the conversation in the session record, `conv` the runtime's, `adapter` the one the CLI would resume,
`receipts` the files under the journal directory, `acks` the `pending_acknowledgements`, `staged` a pending resume
transcript.  A native session is a number; receipts are named by run number and request, and run numbers start at
1 again with the app, so identities recur.

| Action | Code |
|---|---|
| `Open` | `hydrate` with `seed`: resolve the saved conversation along the receipts, or refuse |
| `Begin`, `Claim`, `Mark`, `StartFails` | `recover_native_conversation`; `persist_owned` creates the file, then writes it |
| `Publish`, `Complete`, `Interrupt`, `EndUnknown` | `NativeSessionStarted`; the end of `foreground`; `settle_interrupted_native` |
| `Save`, `SaveFails`, `Acknowledge`, `AckEnds` | `update_active_session`, then `acknowledge_persisted` |
| `Reset`, `FreshStart`, `Clear`, `ClearFails`, `ResetRuntime`, `ResetRecord`, `Restart` | `reset_conversation` and `fresh_start_with_transcript`, one receipt at a time |
| `Crash` | the app dies in any phase |

`Chain` is `resolve_native_conversation`: from the current conversation it follows the receipts that continue it, in
the order of their runs, and fails if any is left over.  Ghosts: `threads`, the conversations the user's next turn may
continue; `doubt`, that a run ended without a boundary; `unsaved`, completed requests no record follows yet.

### CandidateApply

`source` is each map's content on disk, `base` and `last` the session state (the source it follows; the Apply it can undo),
`journals` the pending journals, `tx` the transaction of each map.  Contents are numbers: a new save is a new number.

| Action | Code |
|---|---|
| `Check` ... `VerifyFails` | `apply_with_post_verify`: hashes; backup and journal; atomic replace; hash and reopen |
| `Commit`, `CommitFails`, `Finish` | `complete_apply`, `complete_pending` |
| `Rollback`, `Undo`, `GivesUp` | the tests of `CandidateMapSafe::undo`, for a commit that failed or for the user |
| `PutBack` | the backup replaces the source, in all four places that do it |
| `Restored`, `TakenBack`, `ForgetUndone` | the source is hashed again and the journal removed; `complete_undo` |
| `Follow`, `Edit` | `follow_source`, which takes no transaction; another program saving the map |
| `Crash`, `Clear`, `Recover`, `Recovered`, `Blocked`, `Ready` | `recover_pending_candidate_applies`, one journal after the other, ended by the first error |

A commit that is saved may still be reported as failed (the state is shown after it is saved): `Commit` goes to either
`saved` or `rollback`.

Putting a backup back is three steps, whoever does it: the source is tested (`Undo`, `Rollback`, `Recover`; a failed verification
tests nothing), it is replaced (`PutBack`), and it is hashed again.  `Edit` may come between any two: then `PutBack` overwrites that save, or
the second hash refuses to remove the journal.  `unread` holds the session states the startup under way cannot read or parse, which
`candidate_state_committed` passes over; `since` is the first content that is new since that startup began.

### GameStrings, CandidateFile, NativeEdits

A managed sound is an archive asset, a string with its path and a WAV slot with that string's id.  `GameStrings` has
the operations of MappingCore on them: `AddString` shares an equal string or takes the first id nobody refers to, `DeleteString`
spares a string the game uses and clears every other reference, `DeleteUnusedStrings` is the deletion every save begins with
(`changeVersionTo`), `Reloaded` is what is read back of a table that was written.  `CandidateFile` says
what a call hands over, as a relation of two maps for each request: the names and sounds asked for are as asked, every
other user reads the same text and every other sound keeps asset, string and slot.

| Action of `NativeEdits` | Code |
|---|---|
| `Start` | load, snapshots and refusals of `mapSoundAdd`, `mapSoundAddBatch`, `mapSoundReplace`, `mapSoundRemove`, `mapEdit` |
| `Mutate` | one sound or operation applied in memory, or the call fails |
| `Save`, `Verify`, `Promote`, `Finish` | checks in memory and `MapFile::save`, which deletes unused strings first, to a temporary; inventory and checks of the reopened file; `replaceFile`; last check |
| `Adopt`, `Discard` | the Rust caller replaces its map with the output or removes it |
| `Crash` | the process dies, files stay |

`mapEdit` promotes before it opens its output, the sound calls after; `Verified` and `Finish` keep that apart.  A call that fails removes
its temporary and its output (`Fail`), except that `mapEdit` leaves them when it cannot read an archive or hash its output (`LeaveFiles`).

The deletion before the save is a step of the map in memory (`mem' = Swept`) that no item of the request asks for.  A sound call compares every string
of the reopened file with its input, so on a map with a non-empty string nobody refers to it always fails; an edit compares no strings, and hands over a map without them.

### Faulty forms

A faulty form of an operation (its comment begins with "Faulty", or it stands in a section "Faulty forms")
belongs to no specification: it replaces its operation to show that the property named in `PROJECT.json` notices.

## 4. Properties

| Property | Says |
|---|---|
| `CommitsLeaveOthersSourceEdits` | no commit takes a source edit of another session's request in flight, unless the committing request claimed the path too |
| `CommitRecordsTheTurn` | a commit after a drained run leaves none of that turn's canonical edits behind |
| `GitRunsAlone` | git mutations exclude each other and every transactional write |
| `ToolsServeTheirRequest` | a call that outlives its turn never runs under a later request |
| `OneClaimantPerSession` | at most one request per session holds files back |
| `RegistrationsAreTickets` | registrations and tickets agree on every exit path |
| `TurnsEnd` | a turn whose run has ended gives the session back |
| `ReportedRunIsQuiet` | no call is in flight, or can be admitted, once a run reported a result |
| `ImplementsPromise` | a run that reports has made every effect durable, and none follows |
| `IdsAreServedOnce` | of calls with one id at most one is carried out |
| `CallsTurnedAwayAreReported` | a deferred mutation ends in a reported transition, a refused call in a boundary |
| `TranscriptIsPaired` | a run that reports has shown all events, every start with its completion |
| `CompletionsStayDurable` | receipt and transcript never lose a completion |
| `NoWakeUpIsLost` | a drain times out only over a call that is really in flight |
| `ClosedGateDrains` | a closed gate empties although nobody answers an ask |
| `CancelledRunEnds` | a cancelled run ends, whatever its calls and provider do |
| `StaleTargetsAreRefused` | no call replaces, removes or takes along a line its request has neither seen nor quoted |
| `ContinuesTheConversation` | the next run continues the conversation the last one reached, whatever was lost |
| `UnknownRunsStop` | after a run without a boundary nothing runs until a reset |
| `CompletedRequestsAreSaved` | a completed request is not run again before the record has caught up |
| `InterruptedIsJournaled` | bytes of an uncommitted Apply in a source have their journal on disk |
| `StartupTakesBackOnlyUnreported` | a startup changes a source only to take back, byte for byte, an Apply that never reported success and that no session state it can read names; it loses that Apply or a save made while it ran, nothing else |
| `HandsOverTheEdit` | a native call hands over the input with exactly the requested change, or nothing |
| `PromotedSoundMapIsExact` | the same of the output path of a sound call at any moment, after a crash too |
| `UsedSoundsSurvive` | no sequence of calls, and no deletion of a save, takes away a sound that is still referred to |

Four more state what a document or comment says and the code does not keep (section 7).

## 5. Runs

| Run | Bounds | Shows |
|---|---|---|
| `mixed` | 2 sessions, 2 requests, 1 path, all kinds, edits from outside | the commit properties under every overlap of writers on one file; no exit path leaks a registration or claims |
| `ends` | 2 sessions (one a worker), 2 requests, 1 path, fairness | every ended turn returns to idle |
| `reports` | 2 calls, 2 ids, all kinds, both modes, action limit 1 | what a run that reports has promised, against every way to close its gate |
| `stops` | 2 calls, 1 id, `read` and `ask`, both modes, fairness | closing empties the gate, cancelling ends the run |
| `sources` | 2 sessions, 2 files of 2 lines, 3 texts per line, 4 events | no stale line is overwritten, whatever turns, calls and the user's saves overlap |
| `receipts` | 2 requests, 4 runs | what the next run continues, after every lost write, crash and reset |
| `applies` | 2 maps, 5 contents, failing file operations, unreadable session states | every Apply, undo, crash and recovery, with a foreign save between any two steps |
| `sounds` | 4 string ids, 2 slots, 2 sounds, 1 name, 3 users; every start map of that size | what the native calls hand over, over what their saves delete |
| `feedback`, `blocked`, `rewritten`, `discarded` | the smallest instance that shows it | section 7 |

Two sessions are enough for every hazard but fairness among many waiters, because each
property speaks of one committer and one other.  Two requests let both sessions be in a
turn at once, or one session open a second request while a call of its first is running.
With one path every writer collides with every commit.  `Requests` is the pool of request ids: the code makes
fresh ones for ever, the model stops when they are used up, which is why those configs say `CHECK_DEADLOCK FALSE`.

For a run, each safety property relates a call to the run or to one other call, so two calls are enough: in a
native session they overlap at every step, in a direct run they make one batch or two rounds.  Two ids can collide.
`ActionLimit` (300 in the code) is 1, so that the boundary falls between two calls; it is 2 in `stops`, where both
calls may run.  A run stops when it is over: `CHECK_DEADLOCK FALSE`.

Two lines let two edits touch without overlapping, and be one run of changed lines; two files let a path be moved away and
back and created anew.  `MaxEvents` (turns, calls and saves) is 4: a capture, two calls and a foreign change at any place among
them; `MaxRuns` is 4: a chain of three receipts and the run that resolves it; `MaxContent` is 5: three Applies on two maps, or fewer and
foreign saves between them.  With these used up nothing is left to do in `sources`, `rewritten`, `receipts` and `discarded`
(`CHECK_DEADLOCK FALSE`).  Four ids hold two sounds and two names, with one that dangles beyond a table of two;
the maps TLC starts from include shared, missing and dangling ids, strings nobody refers to, and sounds of which some record is missing.

**Fairness of a turn** (`FairSpec` of `TurnCommits`).  A thread that can go on does: weak fairness on each engine's and tool's own
steps.  The project transaction is a `parking_lot::Mutex`, which hands over fairly after a bounded
time, hence strong fairness on entering it.  How a run ends, when a user opens, approves or cancels and
when a tool is called stays unfair: `TurnsEnd` starts when the run has ended.  That a cancelled call returns is the
code's own assumption (`ToolGoesOn`): no timeout is put on a blocking tool.

**Fairness of a run** (`FairSpec` of `ForegroundRun`).  Weak fairness on the run's own task and on each call's task or
thread: tokio and the OS schedule them, every mutex is held for a bounded time, and the grace period of a drain
ends (`FinishTimesOut`, `StopEnds`).  The provider, the user who answers an ask (`AnswerAsk`) and the one who cancels are
not fair; that is the point of the two properties.

## 6. Proofs

`TurnCommitsProofs` proves for every set of sessions, requests, paths, kinds, workers and exposed paths, from
the assumptions of `TurnCommits` only (`None` and `Outside` are no session, request or thread):

| Theorem | Statement |
|---|---|
| `InductiveInvariant` | `Spec => []IInv` |
| `TypeCorrect` | `Spec => []TypeOK` |
| `OneClaimant` | `Spec => []OneClaimantPerSession` |
| `RegistrationsAgree` | `Spec => []RegistrationsAreTickets` |
| `ToolsServe` | `Spec => []ToolsServeTheirRequest` |
| `GitAlone` | `Spec => []GitRunsAlone` |
| `TurnsKeepTheirEdits` | `Spec => CommitsLeaveOthersSourceEdits` |
| `TurnsAreRecorded` | `Spec => []CommitRecordsTheTurn` |

`IInv` adds to the invariants what makes them inductive:

* who is in the transaction is read off `git` and `tool` steps, and the holder is unique, so
  `GitRunsAlone` follows;
* every session's request is its own, handed out once, and a claim names the session whose
  current request it belongs to, so retiring a session's claims in `begin_request`
  leaves one claimant;
* a call's request is the session's current one: `begin_request` and `clear_current` both need
  the execution lock;
* a source edit of a request in flight is claimed by it, or its commit is about to drop
  the claim with the edit already recorded;
* a commit in progress has a snapshot that is not older than the claims that matter: a source writer that
  claims after the snapshot cannot write until the transaction is free again.  This is the reason
  `CommitsLeaveOthersSourceEdits` holds although the claims may be stale, and the reason it
  does not hold for `fs` writers.

`TurnsAreRecorded` has an invariant of its own beside `IInv`.  `CommitRecordsTheTurn` alone is not inductive, since a `journal` writer
writes before it claims.  `TurnRecorded` says that what a request wrote is in its journal as long as the request is to be committed, and is claimed
by it unless the very call that wrote it still holds the tool thread; that a drained run has no such call left; and
that its commit has read the claims, and then `git status`, with every edit of the turn in it.  It needs from `IInv` that the tool's request is
the session's, and that nobody else drops its claims.

There is one lemma per action, then `Next` by cases; the temporal steps come last.

`ForegroundRunProofs` proves every property of the run `reports` for every finite set of calls, every
ids, kinds, modes and action limit, from the assumptions of `RunGate` (`None` is no call; `Kinds` and `Modes` are
kinds and modes):

| Theorem | Statement |
|---|---|
| `RunInvariant` | `Spec => []IInv` |
| `RunTypeCorrect`, `RunQuiet`, `IdsOnce` | `[]TypeOK`, `[]ReportedRunIsQuiet`, `[]IdsAreServedOnce` |
| `TurnedAwayReported`, `RunTranscriptPaired` | `[]CallsTurnedAwayAreReported`, `[]TranscriptIsPaired` |
| `WakeUpsArrive`, `RunStaysDurable` | `NoWakeUpIsLost`, `CompletionsStayDurable` |
| `RunKeepsPromise` | `Spec => ImplementsPromise`: the run refines `RunPromise` |

Its `IInv` says how the pieces of state hang together: the count of calls in flight is the set of live Admissions
(`FlightCounted`); past `CloseGate` the gate stays closed (`DoorShut`), so a drain that saw no call in flight stays
right (`Drained`); a call inside `record_completion` holds the mutex, so its clone is the current list (`CloneCurrent`) and
a receipt cannot shrink; what was executed is in the list, and in a direct run in the transcript unless the call
failed (`ExecutedRecorded`), in which case the run has given up or is just being told (`BatchWaits`).
The refinement then needs only three cases: a call that works is admitted, so the run has not reported; a run that
reports is drained, so every executed call is recorded; everything else is a stutter.

`CandidateApplyProofs` proves the three properties of `applies` for every set of maps and every bound, from the
assumptions of `CandidateApply` (`NoApply` is no record; the bound is a natural number):

| Theorem | Statement |
|---|---|
| `TypeCorrect` | `Spec => []TypeOK` |
| `JournalsInterrupted` | `Spec => []InterruptedIsJournaled` |
| `StartupRestores` | `Spec => StartupTakesBackOnlyUnreported` |

Its `IInv` adds to `TypeOK`: records and journals are older than the next content (`Bounds`), a content has one transaction and one journal
(`Unique`), where a transaction stands says whether its journal is there and its content applied, and
that no pending journal is of an Apply that reported success (`Steps`), what a startup tested before it puts a backup back (`Tested`: all of it still holds except that the
source may have been saved since), and `Covered`.  The last one is the heart:
`InterruptedIsJournaled` is not inductive, since putting a backup back may uncover an older uncommitted content.  `Covered` says that each map
has a set of contents that holds its source, is closed under "put that record's backup back", and of which each uncommitted one
has its journal.  It also holds the backup of every transaction that is about to put one back, tested or not: that is why a save between test and replacement, or
an untested replacement, never leaves uncommitted bytes without a journal.  `StartupRestores` is `Tested` and `Steps` at `PutBack`.

`NativeReceiptsProofs` proves the four properties of `receipts` for every finite set of requests and every number of runs, from the
assumptions of the module (the bound is a natural number; `NoRequest` is no request, `NoRun` no identity):

| Theorem | Statement |
|---|---|
| `TypeCorrect` | `Spec => []TypeOK` |
| `TurnsContinue` | `Spec => ContinuesTheConversation` |
| `UnknownStops` | `Spec => UnknownRunsStop` |
| `CompletedAreSaved` | `Spec => CompletedRequestsAreSaved` |

`IInv`: a run under way has an identity and a run number not above the runs begun (`Numbers`); what its receipt says in each phase, and that an
unconfirmed run has left a receipt that says so and that no save retires (`FailClosed`); a completed request keeps a completed receipt
until a save follows it (`Unsaved`).  `UnknownStops` and `CompletedAreSaved` rest on it.

`TurnsContinue` is about an order the code never states: conversations are numbered as they are opened, and a settled receipt never leads back
(`Ordered`).  `Found` says with it that an adapter that resumes resumes the runtime's conversation, and that a record is ahead of the runtime
only where no settled receipt is behind that record (`Resumes`); that the run under way continues the runtime's conversation and no settled receipt is ahead of what it
reaches (`Continues`); and, the heart, that without a run in doubt the latest conversation that the record, or the runtime, and the settled
receipts name is one the user may continue (`Leads`).  What remains is that `Chain`, when it returns, returns that latest one (`ChainReachesTop`):
each link keeps `Sound`, an induction over the links that takes the least counterexample of a set of numbers.  A lost save then moves
nothing back, because the receipts stay until a save follows; an acknowledgement takes away only receipts that are not ahead of the runtime.

`GameStringsProofs` and `NativeEditsProofs` prove the four properties of `sounds` for every table size, all sets of texts, paths, users and names,
every finite set of slots and all initial maps, from the assumptions of `GameStrings` and `NativeEdits`: `Empty` and `None` are no texts, paths
are texts, the game's users are not the editor's, names are not paths, slots are numbers, an initial map stores nothing beyond its table (what
`Reloaded` leaves, as of any map that was loaded), `Absent` and `Damaged` are no maps, and the caller can make some call:

| Theorem | Statement |
|---|---|
| `TypeCorrect` | `Spec => []TypeOK` |
| `PromotedIsExact` | `Spec => []PromotedSoundMapIsExact` |
| `ImplementsCandidateFile` | `Spec => HandsOverTheEdit`: the calls refine `CandidateFile` |
| `UsedSoundsAreKept` | `Spec => UsedSoundsSurvive` |

The checks of a call compare an inventory of sounds and the names it set; they do not compare every string and slot.  So `PromotedSoundMapIsExact` does
not follow from the checks, and is not inductive.  `Touch` says what a map in memory shares with its input although nobody checks it: an add
leaves every stored string where it was (until the save, `AddsOnly`; after it the string may be gone, but no other stands in its place) and no slot reads anything but what it read or a new sound; a removal writes no path anywhere; a replaced
string that is named elsewhere stays or takes the names with it, which the checks refuse; an edit leaves every other user's text as
it is shown.  `Mutating` and `Verifying` carry `Touch` from load to the reopened file, `Exact` is what the checks make of it, `Promoting`, `Finishing`
and `Returned` carry that on, and `LeftBehind` is what a crash leaves of a sound call.  That a save's deletion keeps `Touch` is `SweepTouch`: what somebody refers to stays, so every name
and slot reads what it read, and a replaced string that is named elsewhere is either still there or has been seen to move.  An edit may promote a
damaged file, which its last check finds (`Ready`).  `GameStringsProofs` has for each operation of the table a lemma that says
which ids, references and slots it changes; `FindString`, the least id with a text, again takes a least number.

`ConcurrentSourcesProofs` proves, for every set of sessions, paths and texts and every number of lines, from the assumptions of the module (a missing file
is no content):

| Theorem | Statement |
|---|---|
| `MergeKeepsConcurrentLines` | a merge that is accepted replaces no line that only the other side changed |
| `SourcesInvariant` | `Spec => []IInv` |
| `SourcesTypeCorrect` | `Spec => []TypeOK` |
| `StaleRefused` | `Spec => []StaleTargetsAreRefused` |

`IInv` is the two invariants with `Seen` (what a turn captured and a request wrote, it has seen) and `Writes` (a write has a content).  That a line that was changed
lies in a longest run of changed lines, and that a walk back along a journal stays among seen contents, are inductions; they
are proved by taking the least counterexample of a set of numbers (`Least`, from `NatLessThanWellFounded`), since the prover cannot use an
induction theorem whose parameter is an operator.

Only model-checked: the liveness properties `TurnsEnd`, `ClosedGateDrains` and `CancelledRunEnds`.  Liveness under fairness, like `ENABLED`,
is out of the prover's reach.  The four runs of section 7 that TLC must find violated have nothing to prove.  No module declares a recursive operator; `Chain` and
the folds are recursive functions or operators of the community modules.

## 7. Where documents and code disagree

Each of these has a run that TLC must find violated.

| Run | What is said | What happens |
|---|---|---|
| `feedback` | only a plan review or a pending write keeps the registration (`engine.rs:1255`) | plan feedback answered without a plan leaves the session idle with it; its next chat is refused |
| `blocked` | startup restores an interrupted, uncommitted replacement (`hivemind/docs/features/13_isom-ffi.md:106`) | the first journal that cannot be settled ends the inspection (`mapsafe.rs:1477`); `lib.rs:348` logs it, and an interrupted Apply of another map stays in its source |
| `rewritten` | `file_write` overwrites a project file (`tools.rs:1340`) | text that goes back to the turn's baseline is merged with the request's own earlier write, which wins; the call reports ok |
| `discarded` | an unknown native continuation fails closed and does not reset to empty state (`hivemind/docs/features/sessions.md:267`) | after a first run that died before its conversation was saved, the next start stages the transcript, and the first turn clears the receipt and goes on |

These were met while modelling and have no run:

* The external-edit commit "never takes an in-flight claim" (`hivemind/docs/rules.md:253`); it reads the claims once, before `git status`
  (`engine.rs:1676`), and an `fs` writer may claim and write in between.
* Canonical mutations require a registration (`rules.md:196`); a call that waits for the transaction checks it before
  (`tool_exec.rs:2549`), and its cancelled turn may release meanwhile.
* What a commit recorded is no longer in flight (`engine.rs:5972`); the next journaling tool claims the targets of the whole journal
  again (`tool_exec.rs:2419`).
* Claims end with the turn (`write_coordinator.rs:224`); a plan-feedback run never ends its own (`engine.rs:1913`).
* A plan turn that changed something keeps its registration (`engine.rs:1530`); only the journal is asked (`tool_exec.rs:2286`), which `fs` writers
  do not use.
* The architecture document keeps a first-mutation transition for plan feedback (`hivemind/docs/architecture.md:415`); in the code
  `handle_turn_result` treats it as an error (`FeedbackWrites`), so the feedback fails and is recovered.
* `hivemind/docs/features/sessions.md:377` promises the stale check for every source; `file_delete` and `file_move` of a file that the turn
  did not capture (the user created it since) pass without one, and `file_write` replaces any content of a path that the request once created.
* `isom_capi.h:82` promises that an edit's output is promoted only after the saved map was opened again; `mapEdit` promotes first and
  then opens it, so a crash in between leaves an output that nobody opened (the sound calls do keep this order).
* "Recognizes a candidate state that was committed immediately before a crash" (`13_isom-ffi.md:106`): a session state that cannot be read
  or parsed is passed over (`mapsafe.rs:1453`), so the startup takes back what it committed.  Only an Apply whose journal was not removed
  can be met this way, and no such Apply has reported success (`StartupTakesBackOnlyUnreported`).
* A put-back tests the source and replaces it later (`mapsafe.rs:1416` and `1423`, `1507` and `1521`); a map that another program saves in between is overwritten, and the second
  hash does not notice.
* A sound call on a map that holds a non-empty string nobody refers to always fails, after its save, in the comparison of strings; an edit batch on the same map succeeds and
  silently drops that string (`Scenario.cpp:779`).
* Replacing a sound that a trigger or briefing plays is always refused: removing the old one spares the string, which then still stands where the
  new one must be.

## 8. Not modelled

* In turns and writes: resuming an autonomous run after a restart, `restore_review` and
  `release_project`, rewind and conversation reset, Map sessions (their transactions use the key
  `map:<id>`), investigation workers that may not write, claims from provider-native edit tools (they
  come from observed events and may be late), a project with auto-commit off, release tags, and a ticket
  retained because a sound rollback failed.  What a writer writes there is one abstract edit of one path; a rename or a
  multi-file change is two.
* In a run: what the adapter streams, the wait for the MCP server's task before the drain, the second drain that
  empties the event channel, workspace recording.  A call that fails natively does so after its Admission is
  dropped; `finish_run` may then report before the error is recorded, which is why `TranscriptIsPaired` excepts it.
  The run's last failures (storing the workspace record) return without another `stop_run`; the model closes the
  closed gate once more, which nobody can tell.  `autonomous_pause_requested` is never set outside tests, so the
  action count alone makes a boundary.
* In `ConcurrentSources`: inserted and deleted lines (a file has a fixed set of lines), directories, several edits in one
  `file_edit`, a removal of the baseline that fails, and a failed run retried in the same request while a late call runs.
* In `NativeReceipts`: the two-phase publication of the transcript (`provider_transcript.rs`), worker sessions, the list of
  completed calls inside a receipt.
* In `CandidateApply`: rebasing a candidate's revisions, the rotation of `.bak` files, direct writes and property saves, and
  more than one session per map.
* In `NativeEdits`: terrain, unit and doodad operations (they touch no string), slots that hold ids outside the table
  (they make an add refuse), the bytes of a sound, the separate table of editor strings, and what `changeVersionTo` rewrites besides
  the string table: sections that depend on the map's version, and in a map of the original version with more than 64 locations those move
  to lower numbers, and an empty one nobody uses goes.  A sound call compares the other sections and fails, which `Verify` has as a failure;
  an edit compares nothing, so of such a map `HandsOverTheEdit` says nothing about the locations that go.  The run `sounds` has no location that a trigger uses (`Pinned` is empty):
  it would only remove edits.
* Not written for want of room rather than of reach: `Journal` (partial decisions, the orphan journal of a late call),
  `Workers` and teams beyond their part in the run gate, the project registry and its close gate, sessions' bindings.
* Context and memory, retrieval, setup and sign-in, provider wire protocols, the panel, the native build, file formats
  and the vendored C++ libraries outside the map calls above: text, binary data, external programs or pure I/O,
  without shared state of interest.  They are most of the repository's lines.
