# Corvus: TLA+ models, checks and proofs

This directory is a formal model of Corvus, the agent platform in this
repository: a local FastAPI service (the "sidecar") with a SQLite store that
plans workflows, runs coding agents in isolated Git worktrees, publishes what a
person approved, and repeats runs on a schedule; and a hosted core that keeps
authority, audit and conversations for several devices.

TLC checks every module on small instances (`*.cfg`), TLAPS proves the theorems
of the `*Proofs.tla` modules for every value of the constants. `PROJECT.json`
lists components, runs, mutants, the map from definitions to source lines, the
hazards and the finding.

    tlc -config EngineSafety.cfg MCWorkflowEngine
    tlapm WorkflowEngineProofs.tla

## 1. The system and its parts

Everything below is in `src/corvus`. "State" is what survives an operation;
"hard" is what a unit test hardly reaches.

| Part | State | Operations | Interacts with | Hard behaviour | What makes it correct |
| --- | --- | --- | --- | --- | --- |
| Workflow core, `mvp/core.py` | workflows, work items with a fenced lease, attempts, effects, approvals, budget, kill switches | create, start, pause, cancel, claim, heartbeat, complete, fail, retry, recover, run_next, approve, reject, execute | SQLite store; API and CLI call it from a thread pool | run_next is several transactions; leases expire under slow workers; approvals and cancels arrive in between | one attempt wins, approvals are consumed once, order of dependencies, budget conserved, kill switches hold, progress |
| Run store and coordinator, `mvp/run_store.py`, `run_coordinator.py` | run status, events, evidence in SQLite; handles, pump tasks and locks in memory | start, cancel, retry, discard, wait, recover_interrupted, the event pump | worktrees, provider backend, change review; API (event loop) and discard (thread) | everything after an `await`; process death between two steps; memory lost while rows survive | a finished run stays finished, no run is stuck, no provider outlives its run |
| Worktrees, `mvp/worktrees.py` | lease rows and directories | create, get, discard, recover_interrupted | Git; called by coordinator, contributions | crash between a Git command and the row that records it | a directory without a lease never stays, and a lease that cannot be discarded never stays |
| Contributions, `mvp/contributions.py` | contribution row; branch, index, commit; remote branch; pull request | prepare, publish | Git, GitHub CLI, run store | two requests at once; a failure after the effect; a crash between push and row | published once, only what was reviewed, resumable |
| Schedules, `mvp/schedules.py`, `scheduler.py` | schedules, revisions, occurrences | create, set_status, claim_due, attach_run, tick, run_now | coordinator | crash between claim, run and attachment; a claim that expires under a slow tick; sleep over many occurrences | one run per occurrence, no overlap, no backlog, no claim lost |
| Provider process session, `infrastructure/agent_runtimes/process_session.py` | events, terminal flag, cancel reason | start, events, cancel, supervision, timeout | adapters | exit, cancel, timeout and reader race for the last event | one terminal event, every consumer gets it, bounded log |
| Provider adapters, `agent_runtimes/codex.py`, `claude.py`, `simulated.py`, `registry.py` | sessions, idempotency handles, event chain | discover, start, events, cancel | process session | cancel against completion; a replayed start | one session per idempotency key, hash-chained events |
| Local chat, `mvp/local_chat.py`, `api_chat.py` | chat runs, cursors, leases in memory and SQLite | start, events, cancel, recover, shutdown | adapters | replays after reconnect, restart | the same events in the same order for every reader |
| Governance, `mvp/governance.py` | teams, members, grants, device codes, PKCE transactions, autonomy, restores | create, grant, revoke, approve, exchange | workflow core | codes used twice, revoked grants used, last owner removed | single use, expiry, least authority |
| Ingress, `mvp/ingress.py` | offline intents, channel events, nonces | submit, replay, resolve | workflow core | duplicates, reordering, conflict with newer state | applied once and in order |
| Skill imports, `mvp/skill_imports.py` | imports, immutable versions, quarantine directories | preview, import, activate, archive, recover | file system | crash between rename and row | active version unique, nothing half imported |
| Repositories, review, scan, GitHub: `mvp/repository_workspace.py`, `change_review.py`, `secret_scan.py`, `github_cli.py`, `git_process.py`, `trusted_cli.py` | repository rows | register, refresh, list, snapshot, scan | Git, `gh` | files that change while they are read | digests name what was seen |
| Preferences, credentials, safety: `mvp/preferences.py`, `provider_credentials.py`, `safety.py`, `mcp_config.py`, `provider_catalog.py` | versioned preferences, keyring | get, update, verify | API | stale version on update | optimistic versions |
| API and shells: `mvp/api.py`, `cli.py`, `desktop.py`, `desktop_runtime.py`, `openapi.py`, `apps/web`, `apps/desktop` | sessions, pairing | one handler per operation above | everything | thread pool against event loop | handlers that combine several services keep them consistent |
| Deployment and hosted shell: `mvp/deployment.py`, `mvp/hosted.py`, `platform/` | sessions, OIDC | login, sync endpoints | identity, sync | | tenant isolation |
| Conversations and sync: `domain/conversations.py`, `domain/sync.py`, `application/conversations.py`, `application/sync.py`, `infrastructure/repositories/conversations.py`, `sync.py` | threads, messages, revisions, change log, cursors, idempotency rows | append, edit, pull, push, resolve | hosted API, devices | several devices push at once, retries, tombstones | convergence, exactly-once mutations |
| Identity and accounts: `application/identity.py`, `oauth.py`, `infrastructure/oauth`, `repositories/accounts.py`, `platform_identity.py` | accounts, devices, sessions, OAuth transactions | login, refresh, revoke, callback | hosted API | replayed callback, rotation of tokens | single use, revocation is final |
| Authority: `application/authorization.py`, `domain/access.py`, `deployment.py`, `infrastructure/authority_root.py`, `local_authority.py`, `project_authority.py`, `project_authorization.py`, `agent_run_authorization.py`, `repositories/authority.py`, `authorization_inputs.py`, `registry.py`, `identity_scope.py`, `handoff.py` | generation, manifests, commitments, kill switches, handoffs | decide, prepare, commit, handoff, restore | project creation, agent runtime | a decision used after the root it was made under has moved; crash between prepare and commit | fail closed, one generation at a time |
| Project creation and recovery: `application/projects.py`, `infrastructure/project_recovery.py`, `project_audit.py`, `repositories/projects.py`, `audit.py` | projects, idempotency, authority commitment, audit chain | create, recover | authority | crash at every step of a multi-store commit | all or nothing, one audit receipt |
| Agent runtime: `domain/agent_runtime.py`, `application/agent_runtime.py` | runs, proofs, audit-pending results | start, events, cancel, resume | authority, adapters | audit fails after the effect | no run without a live proof, replay resistance |
| V1 core: `database.py`, `store.py`, `workflow.py`, `delivery.py`, `sandbox.py`, `snapshot.py`, `quarantine.py`, `verification.py`, `policy.py`, `providers.py`, `provider_control.py`, `orchestration.py`, `memory.py`, `skills.py`, `context.py`, `security.py`, `safe_process.py`, `codex_cli.py`, `codex_install.py` | run phases, event chain, deliveries, backups | run, deliver, roll back, bootstrap, back up | sandbox, providers | crash in the middle of delivery or of a migration | verified before delivered, rolled back or complete |
| V1 chats: `conversations.py`, `chat_agent.py`, `interactive.py`, `tui.py` | chats, queues, active runs, children, event history, all in memory | create, send, cancel, delegate, switch model, close, follow events | providers, coding workflow | timeout, cancel and revocation in a run that awaits children; a reader slower than the history | runs end once, no stray child, open chats are served |
| V1 shells: `cli.py`, `onboarding.py`, `onboarding_tui.py`, `config.py`, `model_catalog.py`, `evals.py` | screens | | | | |

How they fit together: the API calls `RunCoordinator.start`, which inserts a run,
asks `WorktreeManager` for a leased worktree, starts a provider session and
leaves a pump task that reads its events into `RunStore` until the run ends.
A build run then waits for review; `ContributionService` commits the reviewed
files, pushes them and opens a pull request, or discard removes the worktree.
`LocalScheduler` starts runs through the same coordinator. The workflow core is
a second, older way to get work done (work items under leases, effects under
approvals and a budget); it shares only the database with the runs.

## 2. Modules and how they correspond to the code

A component is one module of state machine; a `MC*` module gives TLC its
constants, alone or for several components that share no state, and a `*Proofs`
module holds theorems. Definitions keep the names of the code where
they can. Definitions headed "Plausible mistakes" or "Mistake" are not part of any
specification: they are wrong variants of an action or a helper which
`PROJECT.json` substitutes, one for each property a run checks, to show that the
property notices.

**`WorkflowEngine`** models `mvp/core.py`. `SqliteStore.transaction` is
`BEGIN IMMEDIATE`, so one transaction is one action, and a call that raises
changes nothing. `run_next` is a chain of transactions (claim, propose the
effect, wait for an approval, execute, complete); the variable `work` holds, for
each calling thread, the link it is at and the claim it carries, and every other
thread, operator and the clock interleave between two links. A lease is only
`live` or `expired`; the clock is the action `LeaseExpires`. `Commands` names
the optional calls of an instance: `direct` (an API client executes an effect or
completes a claim without run_next) and `decide_any` (a client decides an effect
that is not pending) are calls the service accepts though the web client never
makes them; `crash` drops a thread between two transactions; `slow` lets a lease
expire under a thread that still works. `Raise` is the end of a call that
raised. There is one project, because projects share only the global switch.

**`RunLifecycle`** models `mvp/run_coordinator.py`, `run_store.py` and
`worktrees.py`. `start`, `cancel` and `_pump` are coroutines of one event loop,
so one action is what runs between two awaits; `discard` is a synchronous
handler and runs in a thread, statement by statement, beside the loop. `Crash`
loses handles, coroutines and threads and keeps rows, directories and provider
processes, which have a process group of their own; after it, `phase` leads
through the lifespan's recovery (worktrees, then runs) before requests are
served again. `Faults` names what may fail: a Git command (`git`), the row
update behind it (`store`), a write of the run store, of a status, an event or
evidence (`record`), the start of the provider (`spawn`), an event the
pump cannot handle (`pump`), a stream that ends without a terminal event
(`closed`), a shutdown that stops all sessions (`shutdown`), a process tree
whose end cannot be confirmed (`unconfirmed`), a directory Git cannot remove
(`locked`). Where `record` strikes the write by which `start` or the pump would have
ended or handed over its run, the coroutine is over and the run stays active; the ghost
`forsaken` names these runs until a start-up has interrupted them. The adapter and its process session appear through what
they do to the coordinator (`Spawn`, `SpawnFails`, `BackendCancel`, `Kill`,
`ProviderEnds`); the races inside them are those of `ProcessSession`.

**`Schedules`** models `mvp/schedules.py`, `scheduler.py` and the scheduler loop
of `api.py`. Times are distances from now, and `ClockTicks` moves all of them, so
an endless behaviour has finitely many states; a recurrence is its period.
`tick` is claimed page, then one claim after the other, with a crash or a raise
anywhere. The two unique indexes of `mvp_runs` (one run per occurrence key, one
active run per schedule) are the operators `HasKey` and `ActiveRun`, and the
guarantees rest on them rather than on the claims.

**`Contributions`** models `mvp/contributions.py` and the API handlers that move
the run around it, with discard. One run; every request is a thread whose `pc` is
its next Git or GitHub command or its next transaction; what a thread read and
carries on is `saw` and `held`. A commit is the bytes it holds. Commands fail
without effect or after it (an answer is lost). `Edit`, `Amend` and
`RemoteMoves` are other people and programs; `Crash` ends all threads.

**`ProcessSession`** models `agent_runtimes/process_session.py`: a process that
writes lines and exits when it likes, the supervisor task that reads them, and
the four ways to end (natural exit, protocol error, timeout, cancel) that compete
for `_terminal_lock`. An action is what runs between two awaits that suspend; a
cancel may itself be cancelled while it waits or holds the lock.

**`LocalChat`** extends it with `mvp/local_chat.py`, `api_chat.py` and the chat
paths of `codex.py` and `claude.py`, for one owner and idempotency key. `provider`
is the kind of backend; `adapter` and `api` are its session; `rec` is the record in
memory and `row` what SQLite has; `pump`, `follower`, `req` and `canceller` are the
tasks. A failed write (`storeFaults`) happens at any persisting step, a crash at
any time. **`ChatJournal`** is the abstract specification: a journal that is
opened, only grows, ends with its first outcome and may be forgotten as a whole.
`ImplementsJournal` is that specification under the mapping from `row` to the
types of its events.

**`WorkspaceSync`** models the server side (`repositories/sync.py` behind
`application/sync.py`) and the client side (`apps/web/src/sync`) of the change log
of a workspace. A digest is the chain of bodies it commits to. `net` holds
requests that are answered late, in any order, or never; the browser starts over
meanwhile. Profiles also change outside the log, devices are revoked and
memberships change.

**`Conversations`** models `repositories/conversations.py` under
`application/conversations.py`. A transaction is two steps, `Begin` and `Finish`:
what was read at the beginning is used at the end. Under `sqlite` the write lock
admits one transaction at a time; under `postgresql` the first reads overlap, row
locks order the writes, and a statement that waited sees the values of its start.
`workload` chooses what the callers work on (thread and messages, runs and their
events, artifacts).

**`WebIdentity`** models `platform/api/identity.py` over `repositories/accounts.py`,
`platform_identity.py` and `oauth/`: sign-in by OAuth transaction, accounts and
identities, devices, sessions whose rows are the rotations of one token,
onboarding and workspace versions and idempotent creation. A request reads in one
step and writes in another; only unique keys meet a race. The cookies of the
browser (`jar`) belong to all its tabs, and an answer may be lost.

**`AgentRuntime`** models `application/agent_runtime.py` and
`agent_runtimes/simulated.py`: gate, preflight, act, record for each call, with
other calls at every await and an audit sink that raises, or records and does not
acknowledge. The script of the simulated provider is any sequence of events the
materialization accepts; those it rejects are one script. The contract of event
chains is that of `domain/agent_runtime.py`.

**`SchemaLifecycle`** models `database.py` and the migrations of
`infrastructure/migrations`: classification, creation, the migration M005-001
behind its backup, restore, and the milestone steps up and down with their history
checks. On SQLite a schema statement commits by itself, so a step is a sequence
of actions with a crash between any two. `Operator` runs the maintenance commands.

**`ProjectAuthority`** models `application/projects.py`, `project_recovery.py`,
`authority_root.py`, `project_authority.py` and the repositories they write: one
action for each transaction of a create. `scenario` chooses who else is there:
nobody (`alone`, with crashes), a second attempt of the same request (`twins`),
another request (`rivals`), altered commitments (`tampered`). What a plan is
computed from is read in one step.

**`Ingress`**, **`SkillLibrary`**, **`Governance`** model `mvp/ingress.py`,
`skill_imports.py` and `governance.py`. Their methods are single transactions, so
the questions are sequences of calls, reconnects that work on rows read before,
imports whose directory and row are two stores, and crashes before the sweep of
the next start. A signature is the key it was made with.

**`Delivery`** and **`CodingWorkflow`** model the earlier command-line product.
`Delivery` (`delivery.py`): each command is a process; the bundle, approvals,
backups and journal survive it; the user edits files at any time. All bundles of
the model change all files of one destination. `CodingWorkflow` (`workflow.py`,
`sandbox.py`, `verification.py`, `snapshot.py`): the phases of a build, its repairs,
its trace, and a container whose creation and removal the engine answers in its
own time. A client that gives up on a creation, at its read timeout (`CreationFails`)
or when it is cancelled (`CancelCreation`), removes by name what is there; the engine
may make the container afterwards. The ghost `left` names the attempts whose container
was left to the engine like this, or by a removal whose failure was swallowed.

**`ChatRuntime`** models `conversations.py` with the agent that runs in it
(`chat_agent.py`, `interactive.py`) and the terminal that drives it (`tui.py`). One
event loop: an action is what runs between two awaits that suspend, and the locks of
the runtime never make one suspend. `worker` is where a chat's task waits, `leaving`
the cancellation that is on its way through it, `children` the tasks of its scope. A
cancelled child raises in the agent that awaits it, because neither the agent nor the
runtime stops a `CancelledError`. The terminal runs one handler at a time (`handler`);
its reader of the events is a task of its own.

Ghost variables record only what a property speaks of: `overlapped`, `raced`,
`touched` (`Delivery`), `left`, `verified` (`CodingWorkflow`), `forsaken` (`RunLifecycle`),
`overlap`, `acked`,
`unfinished` (`SchemaLifecycle`), `owned` (`Governance`), `torn`, `deserted`, `toldTo`,
`missed` (`ChatRuntime`).

## 3. The runs

CHECK_DEADLOCK is off where the system may rest (all work done, bounded commands
used up). `schedule_service` does check it: the clock never stops.

A run asks one question. Where its answer has several parts, the property is a
conjunction whose parts are definitions with a comment of their own; the third
column lists them. A type invariant of a module outside the proofs is one of the
parts.

| Run | Instance | Properties and what they show |
| --- | --- | --- |
| `engine_safety` | two workflows (an item, then an approved effect; an effect without approval), 2 workers, one budget unit, 2 claims for each item; pause, cancel, approve, reject, retry, recover, crash, slow | `OneAttemptWins`, `ExecutedOnlyApproved`, `DependencyOrder`, `SuccessIsReal`; `BudgetSafe` = `SpendWithinLimit`, `NoPhantomReservation` |
| `engine_controls` | one workflow, 2 workers, kill switches of all scopes, changing budget, direct calls, failing and retried claims | `BudgetConserved`: the ledger is exact as long as nothing is cancelled; `KillSwitchHolds`: the global and the workflow switch stop every claim |
| `engine_progress` | the two workflows, no cost, 3 claims for each item, fair | `StartedSucceeds`: a started workflow succeeds, also when the approval comes between proposal and wait (the lost wake-up) |
| `run_safety` | one build run, 2 discarding threads, 2 crashes, Git, run store, provider, stream and shutdown faults | `OutcomeIsFinal`, `QuietWhenReported`, `NoStrandedWorktree`; `ActiveIsAttended` = an active run has its coroutine or was cut off by a failing write (`OwnedOrForsaken`), and its provider can still be stopped (`ActiveCanBeStopped`) |
| `run_progress` | a build and a chat run, no discard, every fault but `shutdown` and `locked`, 2 crashes, fair | `RunsEndReviewable` = every started run reaches an outcome unless a write of its coroutine to the run store fails, and every run found active at a start-up is interrupted (`RunsEnd`); a run in review keeps its worktree (`ReviewKeepsWorktree`) |
| `run_cancel` | one build run, no faults; expected violation | `CancelStopsProvider`: the finding of section 5 |
| `schedule_service` | a repeated and a one-time schedule, period 2, lease 1, page 2, 2 commands, 1 crash or raise, fair | `OneRunPerOccurrence`, `NoOverlap`, `VerdictIsTrue`, `DueIsServed` |
| `chat_safety` | one request that is repeated, all four backends, 2 frames of 3 kinds and room for both in the log, 2 crashes or failed writes | `SessionEndsOnce` = `OneTerminalEvent`, `SupervisedToTheEnd`; `ChatSound` = one provider for a key, a stored journal ends once and with an outcome, a running row has somebody to drive it, no provider outlives its run, a follower sees the stored journal; `ImplementsJournal`: the journal implements `ChatJournal` |
| `chat_progress` | 1 frame, 1 fault, fair | `ChatEnds` = runs end, followers' streams end, processes are stopped |
| `shared_stores` | `WorkspaceSync`: one tab and one API key, log of 2, pages of 1, one administrative change or lost answer. `Conversations`: 2 callers, both databases, pages of 1, 4 events of one tool call, 2 messages. Fair | `SyncSound` = the log is one chain, mutations apply once, log and profiles agree, a client's ledger is a prefix and is acknowledged before it is shown; `SyncProgress` = acknowledgements never go back, loads end; `ConversationsSound` = messages are contiguous, retries agree, runs are distinct, tool calls keep their protocol, artifacts are grounded, followers see the chain; `ConversationsProgress` = only members write, followers see the end |
| `local_services` | `Ingress`, `SkillLibrary`, `Governance`, `Contributions`, `Delivery`, `CodingWorkflow`, `ChatRuntime` (2 chats of 2 runs, one run at a time, 2 children for a run, a history of 2 events), one of them in each behaviour | `IngressKept` = intents once and in order, equal answers to equal deliveries; `SkillsSound` = versions distinct, rows and packages fit, nothing left behind, only reviewed content copied and served, one active version; `GovernanceKept` = connections and grants by owners, autonomy by evidence, routines inside their project, expired flows never connect; `PublishedSound`, `CommitStaysRecorded`, `NothingAfterDiscard` of contributions; `DeliverySound` = deliveries whole or taken back, approved and approved once; `EditsSurvive`; `WorkflowSound` = only verified candidates packaged, a trace ends once, no container forgotten, repairs within the budget; `ChatsSound` = a run that started ends with one event of its own, no child outlives its run or a revocation, a chat that takes messages has a worker, none works while the model is replaced, a reader of the events misses none unannounced |
| `platform` | `WebIdentity`, `AgentRuntime`, `SchemaLifecycle`, `ProjectAuthority`, one of them in each behaviour | `IdentitySound` = one account for an identity, single-use states, no lost update, one creation for a key, final logouts, nobody locked out, one live token; `AgentRunsSound` = acts authorized, answers recorded, one request for a run, events keep their contract; `SchemaSound` = databases classified right, rows, backups and histories kept, a downgrade refused before its first step; `AnchorSound` = the sealed anchor follows the database, what is created is anchored, one audit trail; `RecoversAlone`: a create alone is always completed |

The composed runs (`shared_stores`, `local_services`, `platform`) put components
side by side that have no rows in common: `part`, chosen in the initial state, is
the one that moves, so no interleaving between them is lost and the instances stay
small. They share the model values of their symmetric sets; a permutation acts on
the sets of one component as it does on its own.

Why these bounds. Two workers and two claims for an item are enough for a stale
claim against a fresh one, and two workflows for one to release what the other
counts on; `engine_progress` has a third claim because an approval that is
missed costs one. In the runs of `RunLifecycle` a write of the run store may fail
any number of times; a failing start-up counts as a crash. With zero cost no effect needs a budget: with a cost and no
budget row `_ensure_effect` raises for ever, by design. Two crashes reach a
crash in the recovery from a crash; two discard threads the race of two discards;
a second run only shares the phase with the first, so `run_safety` has one and
`run_progress` one of each mode. A period of 2 over a lease of 1 has a claim
expire before the next occurrence is due; `MaxLate` holds two missed
occurrences, which look like any larger number because the code skips to the
next instant after now. Three contents of a contribution are the reviewed bytes,
others and a secret; one edit is a change at any one point. Two frames put one
line behind an error or an end, and with room for both (`MaxEvents = 3`) a line that is
read behind the terminal event of a cancel; two faults a failed write after a crash. Pages of
one make every log of two a paged one. Two tabs, two subjects and two e-mails give
every pairing of equal and different; two sessions a login beside a session. Two
processes and two bundles give a delivery beside a recovery, two files a mixture.
Two chats under a bound of one run put one in the queue while the other settles; two
children leave one alive when the other has failed its run.
Two projects with two teams and one skill give a routine its own or a foreign project; two
flows race for one connection.
Three calls of one agent run are a start, a second one and a cancel between them
(two when the script is long, which keeps scripts of five events in reach). Two
histories let a downgrade meet one and pass another.

The proofs then remove the bounds for the properties they cover.

Fairness. Weak fairness only, on what keeps running in the code. Engine: a
thread goes on with its call; the client keeps calling start, recover and
run-next; a person approves; an abandoned lease expires. Runs: the loop runs
ready coroutines and the system its threads; a provider exits or is ended by its
session's timeout (`process_session.py`); the desktop shell restarts a service
that died, and the lifespan recovers. Schedules: time passes, the loop ticks
every 15 seconds, a provider start returns or times out, the service restarts;
nobody has to end or to review a run, so `DueIsServed` makes no promise for a
schedule whose last run is unfinished. Chat: the event loop runs the supervisor
(which meets its timeout when the process does not end), the pump, cancels that
have begun, a connected follower and a shutdown that has begun; nothing is assumed
of processes, users or restarts. Shared stores: a request that reached the server
is answered, or its loss is noticed; a transaction that has begun ends (database
locks have a timeout); a follower keeps asking.

## 4. The proofs

All theorems are for any number of workers, workflows, runs, threads, schedules
and crashes; the assumptions on the constants are the named ASSUME of each
module.

- **`WorkflowEngineProofs`**. `TypeCorrect`, `ApprovalHolds` and
  `KillSwitchRespected` (a claim is the only step that raises the fence of an
  item, `FencesMove`, and it reads the switches in its own transaction) need no
  hypothesis. The other three assume `ServedClients`: decisions come only for
  pending effects and execution only through run_next. None of the three is
  inductive. `EngineInv` adds that items and effects belong to created
  workflows (`CreatedFirst`, `EffectsBound`), that an executed effect is marked
  so (`ExecutedMarked`, without which a proposal could reopen it), that ready
  items have their dependencies met (`ReadyInOrder`), that the claim a thread
  carries between two transactions still has them met, and an execution behind
  it when it is about to complete (`ClaimsSound`), and that a winning attempt
  leaves its item succeeded, so that no later claim moves the fence
  (`WinnersSucceeded`).
- **`RunLifecycleProofs`**. `TypeCorrect`, `OutcomeIsFinalHolds` and
  `OwnedOrForsakenHolds` are unconditional, over `StartInv`: a run that was
  never started has nothing (`Untouched`), a start between two awaits owns its
  run (`StartOwns`), and a lease follows the start (`LeaseFollows`).
  `AttendedWhereWritesSucceed` drops the excuse where the run store does not fail
  (`record` is not among the faults): every active run then has its coroutine.
  `QuietHolds` and `ActiveIsAttendedHolds` assume `Confirmed` (stopping a process tree
  is always confirmed) and use `ProviderInv`, by which there is no process before it is
  spawned and none left behind a terminal event or a cancel that has returned. That the
  provider of a forsaken run can be stopped follows because the pump stops it before
  it tries to write, and a start that cannot write has set the handle first
  (`CanBeStoppedKept`).
  `NoStrandedHolds` assumes `SingleFault` (Git and the store do not both fail)
  and that a discarding thread removes only leased directories
  (`RemovesLeased`). `ReviewLostOnlyToDiscard` is an unconditional action property: a run
  in review keeps its leased worktree over every step but a discard of that run; so
  `ReviewKeepsWorktreeHolds` where nobody discards, as in `run_progress`.
- **`SchedulesProofs`**. `RunsInv` adds to the properties that an occurrence
  without a run was never given one, and that no claim still waiting in the page
  has a run that executes; the unique indexes do the rest.
  `OneRunPerOccurrenceHolds`, `NoOverlapHolds`, `VerdictIsTrueHolds`.
- **`WorkflowEngineProofs`, the account**. `MoneyInv` relates the two columns of
  the budget row to the sums over the items whose effect is executed or holds a
  reservation. It does not say that they are equal: a cancel takes back the units
  of an effect that still executes, and its execution gives them back again, so
  the reserved column may be too low; what `_reserve_budget` granted bounds the
  spending all the same. `BudgetSafeHolds` therefore needs no hypothesis;
  `BudgetConservedHolds`, that both columns are exact, assumes `NoReleases` (an
  instance without cancel and reject). The sums are folds; that
  the function behind a fold exists and obeys its equation is shown by smallest
  counterexamples (`SmallestSet` to `SumEquation`), because the library's induction theorem
  cannot be instantiated here; it is why `EngineAssumption` has finitely many
  items, which one database has.
- **`WorkflowEngineProofs`, `AgentRuntime`**. `AgentRunsSoundHolds` for any requests, proofs
  and tools, any script up to `MaxScript` and any `MaxCalls` overlapping calls.
  `OperationInv` ties what a call has reached to its receipts (the authorization it stands
  behind, the outcome next to it), `RunInv` the run to the call that started it and the
  one that cancelled it, and its events to the contract of the stream, which a cancel keeps
  because it closes the tools that are open (`ClosedKeeps`).
- **`DeliveryProofs`, `Contributions`**. `PublishedRunIsRealHolds` for any number of
  requests at once (`PublishInv`: a row that is past `committed` has a commit,
  and a thread past the pull request has one).
  `CommitStaysRecordedHolds` under `OnePreparer` and `NothingAfterDiscardHolds`
  under `OnePublisher`: `ContributionPanel.tsx` disables its buttons while a
  request is out, the service itself does not serialize them. `RecordInv` says
  what a preparing thread's snapshot implies about the row; `LockInv` that a
  thread that pushes holds the run in `publishing`, which discard refuses.
  `PublishedSoundHolds` under `OnePreparer` and `OneChange`: with one change, at any
  point, by an editor, an amend or on the remote, what leaves is what was reviewed.
  `ReviewedInv` follows the bytes: what is staged has the reviewed digest, or the
  one change there may be still shows in the worktree, where the second look
  refuses it. With two changes it is false (section 5).
- **`LocalChatProofs`**, over `LocalChat` and the `ProcessSession` it extends.
  `SessionEndsOnceHolds` and `JournalEndsOnceHolds` (a stored journal has one
  outcome, as its last event, and ascending numbers) are unconditional.
  `SessionInv` says that whoever holds the terminal lock found the session open, and
  that the log then has room for its one terminal event; `ControlInv` which tasks exist in which life of the service;
  `JournalInv` that a pump which may still report has stored no outcome and that
  memory and store agree while it runs. `JournalImplementsPromise` is the step
  simulation of `ChatJournal`: every step of `LocalChat` appends to the journal,
  forgets it, opens it or leaves it. `ChatSoundHolds` adds `ProcessInv` (whose
  process is there, who holds the lock) and `FaultFree`, what holds until the first
  failed write: a reader has a first part of the numbered events, a running row is
  driven.
- **`LocalServiceProofs`**, over `CodingWorkflow`, `SkillLibrary`, `Ingress`,
  `Governance` and `ChatRuntime`.
  `WorkflowSoundHolds` for every plan and repair budget.
  `BoxInv`: a container that was not left to the engine belongs to the current attempt and somebody
  knows of it; `BundleInv`: what is packaged are the results of the whole plan in
  this attempt; `TraceInv` and `RepairInv` relate the trace to the phase and to the
  number of attempts. `SkillsSoundHolds` for any number of imports, names,
  packages and crashes: `ImportsSound` says that a running import has an
  identifier of its own that no row has, and `DiskSound` that its package is where
  the import has brought it; `RowsHavePackages` survives the sweep because what
  recovery has read are still the identifiers of all rows. `IngressKeptHolds`:
  by `IngInv` what a reconnect has read is still there, what it has passed is
  applied or refused for good, and every answer that was given agrees with the rows
  of its intent and of its event (`AboutIntent`, `AboutEvent`), so a later delivery is
  answered alike. `GovernanceKeptHolds` has one invariant for each of the four
  services behind it (`TeamsInv`, `FlowsInv`, `AutonomyInv`, `RoutinesInv`).
  `ChatsSoundHolds` for any number of chats, messages and children: where the worker of
  a chat waits decides what its run, its children and its log are (`ChatSays`,
  `ToldOf`); `PumpSays` adds who is being cancelled or revoked, and that nothing is
  announced after close; `ReaderSays` that the batch a reader has read
  follows on what it was told last.
- **`DeliveryProofs`, `Delivery`**. `DeliverySoundHolds` and `EditsSurviveHolds` for any number
  of processes, bundles and files. The unconditional part of `DeliveryInv` says
  that a writer holds the destination (`ProcInv`), that its journal is at the entry
  its place implies (`PlaceSays`, `StatusSays`), that whoever writes has used the
  approval its journal names (`WriterUses`, `JournalUses`), and what is known
  between a check and its write (`EditInv`). As long as nothing overlaps, one journal
  at most is unfinished (`OneUnfinished`), a restore has put back what is behind it
  (`PutBack`), and untouched files are what the journal says of them (`DiskSays`),
  so that they are one whole state when no journal is open.
- **`SharedStoresProofs`**, over `WorkspaceSync`, `Conversations` and `SchemaLifecycle`.
  `SyncSoundHolds` and `AckMonotoneHolds` for any number of tabs, keys, operations
  and troubles, and any page size. `ServerInv` is what the transactions of the
  server keep: the log is one chain that ends at its head (`Chained`), every change
  has the idempotency row of its mutation (`Replayable`) and is the version of a
  profile (`Profiled`). `ClientInv` says of every ledger, of a tab or in a request
  that is still on its way, that it is the replay of a first part of that log, and that
  what a tab shows has been acknowledged. `ConversationsSoundHolds` for
  both databases and any number of callers: `ConvInv` needs `MessagesInv`
  (numbers and keys), `RunsInv`, that an answer names a row which is there
  (`AnswerHolds`), that a transaction saw no version from the future (`CallsInv`) and
  that a follower has the events up to its cursor (`FollowerInv`). That the
  protocol of tool calls follows from the chain is a lemma about sequences
  (`ChainKeepsProtocol`), as is that a first part of a valid chain is valid
  (`PrefixValid`), so that a page is never refused as corrupt.
  `WrittenByMembersHolds` uses the write lock of SQLite in `CallsInv`.
  `SchemaSoundHolds` for any number of processes and any sequence of starts, backups,
  restores and milestone steps. `DbInv` lists the files a database can be: those of the
  first product line and of a new database (`SimpleFile`), those of a revision
  (`Settled`), and, while a step is unfinished, one that no start takes for current. What is
  in the middle of a step is `StepInv` of the process that takes it: the tables created so
  far (`Creating`), created but not yet recorded (`Built`), dropped so far
  (`Undone`), and which histories a downgrade has seen empty. `ApartInv` says what is known of
  two processes that start or migrate at once, as long as no two have met (`overlap`);
  the parts of `SchemaSound` that need it say so. `RowsSurvive`, `MigratedHasBackup` and
  `HistoryKept` are inductive with these; the classification of a file follows from
  its place in the list.
- **`PlatformProofs`**, over `WebIdentity` and `ProjectAuthority`. `IdentitySoundHolds` for any number of
  tabs, subjects, e-mails and keys. Requests read in one transaction and write in
  another, so `TabsInv` says what a request still knows when it writes (`Alone`: an
  account that was found is there, the state was consumed for this request, a
  token that is being renewed was active) and what two of them never share
  (`Compatible`: one state, one session whose newest token is on its way, a token that
  is renewed and a newer one on its way). A login relies on the two unique keys
  (`LoginPeople`), a rotation and a logout on the primary key of the token's row
  (`Renewed`): the loser of either race has written nothing. `NotLockedOut` follows
  because a renewal that succeeds leaves an answer on its way.
  `AnchorSoundHolds` for any number of processes, requests, deaths and altered
  commitments. `ChainInv` says where the one intent in flight stands relative to the
  authority row, and that every generation that has passed belongs to an intent of its
  own; `SealInv` that the keyring is level with the row, or one behind it for the
  pending intent, whatever quarantine did in between; `TrailInv` the order of receipt,
  checkpoint and binding. An attempt acts on what it read several writes ago:
  `AttemptInv` says that what it remembers of its intent is still so but for steps the
  intent has taken since (`Remembers`, `Reaches`), and `Evolved` is what every step of
  anybody leaves of it. That the next generation has a place for its commitments
  (`GenerationHasPlace`) is a counting argument over the intents; it is why
  `AuthAssumption` has finitely many requests.
  `RecoversAloneHolds`: a create that is alone in its workspace, for any number of processes
  and deaths. It needs more than `AuthInv`. `OneCreateInv` says that every row
  and the keyring follow from the number of writes that have been done, of seventeen
  (`RowsAt`, `KeyringAt`), and so does where an attempt can be and what it has read
  (`PlacesAt`, `Doing`). A repeated attempt therefore digests the rows its intent was planned
  on, every compare-and-set meets the row it expects, and every step stays at
  the same number, does the next write, or answers (`StepsAlone`). None is refused.

`TypeCorrect` (of `WorkflowEngine`, `RunLifecycle`, `Schedules` and `Contributions`), `PublishedRunIsRealHolds`,
`MoneyHolds` and `JournalEndsOnceHolds` hold for every instance; the runs repeat of
them only what a group of properties contains.

What the proofs changed in the models. `AllOrNothing` of `Delivery` held with two
bundles and not with four: an undo begins while the journal of another bundle is
unfinished just as an apply does (`delivery.py:629`), so `overlapped` now records
both. Overlapping guards of a `CASE` in `LocalChat` (the exit of Codex, the events a
backend reports) had an unspecified outcome and are written as the `if`/`else`
of the code. `ToolProtocol` of `Conversations` spoke of filtered sequences, which
the provers cannot unfold, and now says the same of the positions of events; so
does the contract of events in `AgentRuntime` (`KeepsContract`). A
reconnect of `Ingress` kept the sequence of intents it had still to pass; it now keeps
the set it has read and the last one it has passed, which is the same loop, and one that
finds nothing queued is included. Assumptions that the code gives were stated: the names of events and
records (`ChatAssumption`, `SessionAssumption`), finitely many items, that there is
some content to import (`SkillBounds`), that the mark for no value is neither a
request nor a digest nor a proof (`AuthAssumption`), finitely many tools, none of
them the mark for no tool (`AgentAssumption`), that no file is the mark for a missing
one and that processes and histories have different names (`FileAssumption`).

Only model-checked: liveness (`StartedSucceeds`, `RunsEnd`, `DueIsServed`,
`ChatEnds`, `LoadEnds`, `FollowerSeesEnd`), since fairness is beyond the prover. The
groups that contain such a part (`RunsEndReviewable`, `SyncProgress`,
`ConversationsProgress`) have their other part as a theorem, and every other property
of a passing run is a theorem, some under the hypotheses named above.

## 5. The finding, and other disagreements

`run_cancel`, `run_coordinator.py:223`. A cancel while the provider is being
started finds no handle and interrupts the run; the provider then starts and
nobody stops it. TLC refutes `CancelStopsProvider`; `PROJECT.json` quotes the
statement it contradicts.

Other disagreements have no run of their own. Where a definition or a change of
constants shows one, it is named; the others were met while modelling, and the
models either contain the behaviour (the properties then leave it out by a named
condition) or say in a comment that they abstract from it.

Workflow core, runs, schedules and contributions:

- `BudgetConserved` with the command `cancel` (`core.py:928`): cancel releases the
  reservation of an effect that a worker then executes; `_settle_budget` subtracts
  it again, so `reserved_units` falls below what other workflows hold.
- `RecoveredClaimCanFinish` with `crash` and `recover` (`core.py:779`): a crash
  between the execution of an effect and the completion of its claim leaves an item
  that recovery hands out again and that raises `effect_already_executed` for ever.
- `DueIsServed` with a schedule in `Broken` (`scheduler.py:39`): a repository that
  makes `refresh` raise `ValueError` ends the tick; the schedules behind it are
  never served.
- `CommitStaysRecorded` with two `Preparers` (`contributions.py:212`): a second
  prepare writes `branch_created` over `committed`, after which neither prepare nor
  publish succeeds.
- `CancelledIsFinal` (`core.py:1154`): `_set_workflow_status` looks at no current
  status, so a cancelled or succeeded workflow can be paused, and then started.
- `ProjectKillSwitchHolds` (`core.py:1166`): a switch of scope `project` is
  accepted and stored, and no claim looks at it.
- `QuietWhenReported` with the fault `unconfirmed` (`codex.py:776`): `cancel_local`
  reports cancelled although the stop of the process tree was not confirmed.
- `OwnedOrForsaken` without the second disjunct, under the fault `record`
  (`run_coordinator.py:120-140`, `:161-165`, `:354-362`). A failing write of the evidence is outside
  the `try` of `start`: the row it has just inserted stays in `preparing`. The
  transition in either `except` clause of `start`, or the one to `running`, may fail too; the
  last leaves a provider without a pump, which a cancel still stops. When the pump fails,
  `_stop_and_terminalize` writes an event before the outcome, and if one of the two is
  refused it returns (or a SQLite error escapes): the provider has been asked to stop, the
  run stays `running`, and a cancel of it is declined because its session is terminal
  (`codex.py:767`). All of these runs end when the next start-up interrupts them,
  which is the second part of `RunsEnd`; without a restart they do not.
- `NoStrandedWorktree` with both `git` and `store` (`worktrees.py:154`): the
  clean-up of a failed create fails and the lease row is deleted all the same.
- `StoppedCanBeDiscarded` (`run_coordinator.py:204`, `worktrees.py:211`): a run
  interrupted before it had a lease, or whose directory was removed by a discard
  that died before its row was written, cannot be discarded any more.
- `NothingAfterDiscard` with two publishers (`api.py:1540`): the failure of one
  moves the run back under the other, and discard then succeeds.
- `PublishedIsReviewed` with `MaxEdits = 2` (`contributions.py:362`): bytes that
  change around `git add` and back are committed unreviewed, which the comment
  at lines 359-361 excludes.
- A crash between `git commit` and the row leaves `branch_created`; the next
  prepare refuses because nothing has changed. `tests/mvp/test_contributions.py:283`
  expects the refusal, the design document (line 250) promises to resume.
- Schedules: the design document (lines 361-368) has a grace window for stale
  occurrences; the code has none. A retried run drops its `schedule_id`, so it
  is outside `NoOverlap`.

Local chat and sessions:

- A cancel that is accepted after the exit is in the log: the record later turns
  completed, or the cancel overwrites failed or completed in memory
  (`local_chat.py:562`). The stored journal keeps its first outcome.
- A failed SQLite write ends the pump, leaves the process to its timeout and does
  not wake followers (`local_chat.py:469`); a replay of the key then gets the old
  handle.
- Claude reports completed while its process still lives; frames that are in the
  pipe when a cancel writes its terminal event are appended behind it
  (`process_session.py:406`).

Sync and conversations:

- A browser that reloads acknowledges page by page, and the first page lies before
  an earlier acknowledgement: with more than a page of acknowledged changes the
  server answers `sync_acknowledgement_rewind` and the workspace cannot be opened
  again there (`repositories/sync.py:301`, `SyncProvider.tsx:339`).
- `page` reads head and history by two statements; the first change of a workspace
  between them gives a 503. A retry after a change of role or device version is
  refused as `idempotency_payload_mismatch` although the mutation was applied. The
  client makes a new key for every attempt, so a lost answer is never replayed.
- `PATCH /workspaces` and `PUT /onboarding` change profiles without an entry in the
  log; the client refuses the changes of other members (`sync_provenance_invalid`).
- Conversations on PostgreSQL check the membership before they lock; an archive
  that waited has a stale version and ends in an `IntegrityError`; concurrent
  identical creates end in `thread_binding_invalid`; `append_message` does not look
  whether the thread is archived. No API calls the service yet.

Identity:

- Two subjects with one e-mail that race for a preprovisioned account are both
  linked to it (`accounts.py:343`): the count is read before the insert.
- The answer to a rotation is lost: the browser keeps a token that is not valid any
  more. A logout that races a refresh gets 409 and the session stays live.

Ingress, skills and governance:

- An intent that has expired, or was signed before the last start (the key is new
  at every start), raises at the head of the queue; those behind it are never
  applied (`ingress.py:281`). An event answered `identity_unmapped` stays so.
- The status `expired` that `approve_device_flow` writes is rolled back by its own
  raise (`governance.py:461`); `poll` makes a connected flow expired while the
  connection stays; `add_member` can demote the last owner; no promotion reaches
  `autonomous`; `activate_skill` leaves several active versions.
- Two imports of the same content: the loser gets `skill_import_conflict` although
  it is imported. A directory that cannot be removed stays until the next start.

Delivery and builds:

- An apply or an undo may begin while the journal of another bundle is unfinished
  (`delivery.py:629`); the recovery of the first then takes back files of the second
  (`overlapped`). A crash
  between the backup directory and the journal leaves a bundle that can neither be
  applied nor recovered (`delivery.py:545`). An edit between check and write is
  overwritten (`raced`). No command calls `recover`.
- The baseline of a bundle is read when it is packaged, the verification is of an
  earlier snapshot (`workflow.py:236`). A cancelled or crashed build has no closing event.
- A container may be made after its client has given up: at a read timeout
  (`sandbox.py:443`) as at a cancel (`sandbox.py:440`), `_discard_container` looks for it by
  name while the engine has not made it yet, finds nothing and swallows that
  (`sandbox.py:404-415`). The container then stays, with nobody who knows of it: `left`
  excuses it in `ContainersGone`, as it does a removal that failed.

Chats of the terminal:

- Revoking delegation while a run awaits a child ends that run and its chat's worker:
  the child's `CancelledError` passes through `_run_subagents` (`interactive.py:291`),
  the agent and `_execute_message` and out of `_chat_worker`. The chat is idle again
  and takes messages nobody runs (`deserted`), which also locks the choice of the
  model. The docstring (`conversations.py:308`) says "Main runs remain active and can
  report or recover from their cancelled child calls", the terminal (`tui.py:470`)
  "root tasks continue". `OpenIsServed` without its second disjunct shows it.
- A chat cancelled while its run waits for children that stop (`conversations.py:507`)
  leaves the finally clause there: the run stays the active one (`torn`), and
  `wait_idle` and the model controls wait for it for ever.
- A run cancelled while it waits for the semaphore has `run.queued` and no end.

Schema, authority and agent runs:

- Two first starts at once: the second `os.replace` discards the database of the
  first (`overlap`), which the docstring of `initialize_database` excludes. A crash after the
  backup of M005-001 is published and before its commit makes every later start
  raise `FileExistsError` (`database.py:1926`). History written between the check
  of a downgrade and its drop is lost; below `m2_001` there is no check.
- Two attempts of one request each append a receipt (`project_recovery.py:315`);
  later attempts are refused and the intent in flight blocks the workspace. A
  create overtaken between finalization and completion cannot be completed.
- The receipt of another operation between an authorization and its outcome makes
  the outcome `agent_run_audit_pending` although it was recorded. A start that was
  authorized before the kill switch acts after it. The coordinator and the
  authority lifecycle are constructed by tests only.

## 6. Not modelled

Section 1 lists every part, `PROJECT.json` its status. Left out of the modelled
parts: texts and contents of events, evidence and requests, tenants that share no
rows, the shape of digests and signatures, the patterns of the secret scan, calendars
(a recurrence is its period). `LocalChat` has one owner and one key: keys share only
the limits on active runs. `AgentRuntime` drives the simulated provider; the adapters
of Codex and Claude appear in `LocalChat` and, through their effects, in
`RunLifecycle`. `ChatRuntime` has no `wait_idle` and none of the events an agent emits
itself.

Left out for good: screens and prompts (V1 shells), HTTP routing, the OIDC library,
wrappers of Git, `gh` and the keyring, provider catalogues: they keep no state of
their own or decide nothing about it. The evaluation of capabilities in
`application/authorization.py` is a total function of about thirty conditions, each
of which only denies; a model would be its transliteration. The parts of it that
depend on when they are read (the proofs and the root generation) are in
`ProjectAuthority` and `AgentRuntime`.

Left out so far: runtime leases, handoff and restore of authority, native sessions of
the desktop shell, memory and preferences.

## 7. Plan

1. Proofs about the modules below. Of the present ones only liveness is left to TLC.
2. `Handoff` (`handoff.py`, `repositories/authority.py`): leases, handoff and
   restore over the anchor of `ProjectAuthority`.
3. `Recurrence` (`schedules.py`, `next_after`) as a pure function over a small
   calendar with a daylight-saving change, against a reference definition.
