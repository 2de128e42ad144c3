# A TLA+ model of the VELOX server

VELOX is a FastAPI server that turns events and tasks into *Actions*, has them
approved, and runs them through registered workers.  Its most delicate part is
the Software Engineering (SE) control plane: a coding process works in a git
worktree, is not idempotent, needs an operator's approval, and has to be
accounted for in a SQLite database across restarts of the server.  This project
models that control plane, the promotion of its results to pull requests and the
migration of its database, and around it the general machinery of the server: the
way of an event to an executed Action, the routing of Actions to executors, and
the reads of Google Calendar with the accounts behind them.  TLC model-checks all
of it on small instances, and TLAPS proves every safety property that a passing run
checks for every value of the constants, some of them under a named hypothesis on
the parameters; what remains to TLC alone is liveness.

All paths below are relative to `src/apps/server/src/`.

## 1. Inventory

### Components, their state and their operations

| Component | State | Operations |
|---|---|---|
| SE run repository (`integrations/software_engineering_state.py`) | one SQLite row per Action: approval, objective, claim, start, resolution, result, disposition, promotion | `register_action`, `record_approval`, `record_rejection`, `claim_approved`, `record_execution_started`, `release_unstarted_claim`, `abandon_started_claim`, `record_execution`, `record_disposition`, `record_promotion` |
| SE ingress and delegator (`software_engineering_ingress.py`, `core/delegation.py`) | none of its own | `delegate`: route, permission, memory, then the row |
| Permission runtime (`core/permission.py`) | lifecycle and approval registry (shared) | `evaluate` |
| Approval decisions (`core/approval_decisions.py`, `core/approvals.py`, `software_engineering_recovery.py`) | approval registry (memory) | approve, reject, recover from the row after a restart |
| SE continuation (`software_engineering_continuation.py`) | none of its own | `execute`: claim the row, enqueue, hand to the worker |
| Action queue, lifecycle (`core/action_*.py`) | FIFO of Actions, status per Action (memory) | enqueue, dequeue, get, remove; get, set; transition |
| Worker runtime (`workers/runtime.py`) | none of its own | `process_action`, `process_next`, `invoke`; transient retry |
| Execution observer (`software_engineering_state.py`) | the row | `start` (register, mark the start), `finish` (result) |
| Coding executor, git workspace (`claude_code.py`, `software_engineering.py`) | worktree, branch, child process | preflight, create worktree, run, time out |
| SE run control (`software_engineering_run_control.py`) | the row | `status`, `reconcile` (release, abandon) |
| SE disposition (`software_engineering_disposition.py`, `software_engineering_work_product.py`) | worktree, branch, the row | KEEP, DISCARD, review |
| SE promotion (`software_engineering_promotion.py`, `github_pull_request.py`) | commit, remote branch, pull request, the row | `promote` |
| SE schema (`software_engineering_state.py`, the constructor) | version row and columns of the table | create, migrate 1 to 2, migrate 2 to 3 |
| Event workflow (`core/events/`, `core/planner.py`) | event store, inbox, event lifecycle (memory) | accept, ingest, process |
| Executor registry (`workers/executor.py`) | registrations by role, capability, provider, account | `register_capability`, `register_capabilities`, `register_manifest`, `resolve_with_registration` |
| Calendar (`integrations/calendar*.py`, `api/calendar.py`) | locals of a page walk | agenda command, free-form query, manual sync of one event |
| Google credentials (`google_oauth*.py`, `keyring_credentials.py`) | one keychain entry per account | connect, get credentials for a request |
| Semantic routing (`core/semantic*.py`) | an immutable route table | resolve, dispatch |
| Gmail, task client, composition, configuration, log | none that the running server changes | see section 5 |

### How they interact

Endpoints are plain `def` functions, so Starlette runs them on a pool of
threads.  All of them share one `ApplicationContainer`; nothing in it is locked.
Memory (registry, lifecycle, queue) and the row describe the same Action, and a
handler updates them one after the other.  A crash loses the memory, keeps the
row and the worktree, and leaves the coding process running, because
`SubprocessRunner` starts it in a session of its own.

### What is hard

* **Two stores, several writes.**  `delegate` publishes the Action in memory and
  registers the row last; `approve` writes the row and then three pieces of
  memory; the worker marks EXECUTING in memory and the start in the row.
* **Check, then act.**  `record_approval`, `record_rejection`,
  `record_execution_started` and `register_action` read in one transaction and
  write in the next.  Only `claim_approved` and the two reconciliations are
  atomic (`BEGIN IMMEDIATE`, compare-and-set on `updated_at`).
* **Failures between any two steps**: crashes, SQLite errors (also after the
  commit: every repository operation ends with a read), git failures.
* **A coder nobody can see.**  After a restart there is no evidence whether it
  is still running.
* **Unlocked dictionaries and lists.**  `accept`, `process`, the decisions and the
  worker check one structure and write another; each may run on several threads,
  and the worker writes results over a state it read before.
* **DDL that commits by itself.**  A migration is a series of `ALTER TABLE`
  statements and one version update; it may stop, or meet another, anywhere.
* **Somebody else's data.**  Google's calendar changes between two pages, page
  tokens may be nonsense, and the keychain is read again for every page while the
  connect command may replace what it holds.

What makes the control plane correct: no coding run without an approval; at most
one coding run per Action; nothing takes the claim, the result slot or the
worktree away from a live coder; every row a crash leaves behind can still be
settled; what status reports is what the other operations do; the objective text
disappears when the Action is decided against or done.  Around it: no approved
Action is lost or starved, retries are bounded, an event is planned once; the
schema version never lies about the columns; a named route is unique and stays
put; an agenda that calls itself complete is, and shows only calendars an operator
connected.  `PROJECT.json` lists the hazards line by line.

## 2. Modules

| Module | Models |
|---|---|
| `SERunState` | the row, and each repository operation as a guard and an update on rows; what run control reports about a row |
| `SEControlPlane` | the handlers as threads over rows, memory, worktrees and processes; all properties |
| `ExecutionLedger` | the abstract specification: open, claimed, started, abandoned, finished |
| `SELiveness` | `SEControlPlane` on a machine whose crashes end, with fairness |
| `MCSEControlPlane` | the TLC instance (thread symmetry) |
| `SEControlPlaneProofs` | theorems about `SEControlPlane` with overlapping requests: the claim discipline |
| `SELedgerProofs` | `SEControlPlane` implements `ExecutionLedger`, step by step |
| `SESequentialProofs` | theorems about `SEControlPlane` with one request per Action at a time |
| `SEPromotion` | KEEP, DISCARD and PROMOTE of one finished Action over the row, the worktree and branch, the canonical checkout, the git remote and its pull requests |
| `SEPromotionLiveness` | `SEPromotion` when failures and disturbances end, with fairness |
| `MCSEPromotion` | its TLC instance |
| `SEPromotionProofs` | theorems about `SEPromotion` |
| `RunStateSchema` | opening the database: creation and migration by several processes that may die |
| `MCRunStateSchema` | its TLC instance, with the real lists of added columns |
| `RunStateSchemaProofs` | theorems about `RunStateSchema` |
| `EventFlow` | events, planning, permission, approval of general Actions, the FIFO queue, the worker with its batches and transient retries |
| `EventFlowProofs` | theorems about `EventFlow` |
| `ExecutorRegistry` | registration as the only state, normalisation and routing as operators on it |
| `MCExecutorRegistry` | its offers and requests for TLC |
| `ExecutorRegistryProofs` | theorems about `ExecutorRegistry` |
| `GoogleAccounts` | the connect command, the keychain, and the failures of reading a credential |
| `CalendarAgenda` | agenda, query and sync requests, composed with `GoogleAccounts`; Google is external |
| `MCCalendarAgenda` | its TLC instance |
| `CalendarAgendaProofs` | theorems about `CalendarAgenda` and `GoogleAccounts` |

**State.**  `runs` is the table; `registry`, `lifecycle` and `queue` the memory;
`worktree` and `orphans` what survives a crash outside the database.  `pc` and
`req` are the program counter and the locals of each thread: `req.cur` is the
row `register_action` has read, `req.seen` the lifecycle `execute` has read,
`req.text` the queued envelope, `req.want` the approval status to be registered.
`fresh` is the set of threads whose snapshot still carries the row's
`updated_at`; every write to the row removes the threads that hold an older one.
`granted` and `coded` are history variables.  A disposition's git commands are one
step here and several in `SEPromotion`; a run result is never "skipped", because
the delegator makes an Action only where its executor is registered.

**Grain.**  A step is one access to shared state: one SQLite transaction, one
operation on a dictionary or list, one git or process operation.  Everything a
handler computes between two accesses belongs to the step before.  The steps of
a handler are forced by `pc`, so a trailing write can be delayed by the scheduler
or cut off by a failure, but never skipped.

| Handler | Steps |
|---|---|
| `POST /tasks/software-engineering` | `Delegate`, `RegisterGet`, `DelegatePut` |
| `POST /actions/{id}/approve`, `/reject` | `Decide`, `DecideRecover`, `DecideLifecycle`, `DecideEnsure`, `RegisterGet`, `DecidePut`, `DecideCheck`, `DecideWrite`, `DecideSet`, `DecideDrop`, `ApproveEnqueue` |
| `POST .../execute` | `Execute`, `ExecuteQueue`, `ExecuteClaim`, `ExecuteMatch`, `ExecuteLifecycle`, then `process_action`: `ProcessGet`, `ProcessLifecycle`, `ProcessRemove`, `ProcessState`, `ProcessExecuting`, observer `RegisterGet`, `StartPut`, `StartRead`, `StartCheck`, `StartMark`, executor `RunExecutor`, `CoderExits`, then `FinishPut`, `FinishLifecycle` |
| `POST .../claim/reconcile` | `Reconcile`, `ReconcilePut` |
| `POST .../work-product/disposition` | `Dispose`, `DisposeApply`, `DisposePut` |
| failures | `DatabaseError`, the raising branch of `GoOrRaise`, `Crash`, `OrphanExits` |

**Abstractions.**  Timestamps that repeat that something happened are dropped.
The objective is reduced to "present" in the row and to "clean" or "padded" in
envelopes, which is all `strip()` can change.  Identity checks
(`_require_same_identity`, canonical route) always succeed because the only
writer of a row derives them from constants.  `Delegate` takes the memory writes
of the delegator in one step: before the registry lists the id no other request
can name it.  The `ALLOWED` outcome is absent because `code.implement` is not on
the safe list.  The in-memory observer only keeps a log.  Permission to reconcile
(the acknowledgement flag) and the read-only inspection before an abandon do not
change state.

**Promotion.**  `SEPromotion` begins where the control plane ends: the run is
over, and one Action is enough because worktree, branch and row are derived from
its id.  `row` keeps the three columns that matter here; `dir`, `tree`, `branch`
and `log` are the worktree, its files, the local branch and the commits on it
(each the worker's or VELOX's); `canonical`, `untidy` and `base` the canonical
checkout and the remote base branch; `remote` and `pulls` what was pushed and
opened.  A step is one git or gh command or one row access:

| Handler | Steps |
|---|---|
| `POST .../promote` | `Promote`, `Review`, `CanonicalHead`, `RemoteBase`, `Tip`, then `Add`, `Staged`, `Commit` or the recovery of an earlier commit, `Verify`, `Recheck`, `Push`, `RemoteHead`, `Find`, `Create`, `ReadBack`, `record_promotion` |
| `POST .../work-product/disposition` | `Dispose`, `Identity`, `Remove`, `Delete`, `record_disposition` |
| failures | `Fails` (a command fails, times out or answers nonsense; one that fails after taking effect is the step followed by `Fails`), `Crash`, `OrphanRuns` (a command in flight at a crash takes effect later, or never) |
| others | `BaseAdvances` (also by a merge), `PullCloses`, `CheckoutMoves` |

What git and GitHub accept (`CanPush`, `CanCreate`: no force, one open pull
request per branch, nothing to open when the base has the commits) is external.
Reads that only lead to a refusal, such as the branch the canonical checkout is
on or the base a pull request targets, are covered by `Fails`.  A canonical HEAD
that differs from the remote base by a local commit is refused like one that has
not been pulled.

**Schema.**  `version` and `columns` are the file, `known` what an opener read
from `PRAGMA table_info`.  sqlite3 opens no transaction for DDL, so `Connect`
(read the version and branch), `_create_v3_table`, `InsertVersion`, `ReadColumns`,
each `AddColumn`, `MigrationDone` and `UpdateVersion` are separate steps, and
`Die` (the process ends, or finds the file locked) fits between any two.  A column
added twice and a version row inserted twice raise.  `disturbed` only observes
which openers overlapped.  Files start empty or as schema 1 or 2 left them.  A
file whose table an older release created without its version row would be stamped
3 without the newer columns; that older code is not in the repository, so such a
file is not among the initial states.

**Event flow.**  `stored`, `inbox` and `status` are the event store, the inbox and
the event lifecycle; `life`, `registry` and `queue` the Action lifecycle, the
approval registry and the queue.  A category stands for the whole event, because
the classifier and the planner look at nothing else.  The permission verdict is
free: `BasePermissionEngine` allows all three planned types, but the runtime takes
any engine.  `raced` observes ids that two requests worked on at once.

| Handler | Steps |
|---|---|
| `accept` (and calendar ingress) | `AcceptCheck`, `AcceptAppend`, `AcceptEnqueue`, `AcceptPending`, for ingress then `IngestLookup` |
| `process` | `ProcessRequest`, `MarkProcessing`, `PipelineSucceeds` or `PipelineFails`, `Settle` (inbox, planner, permission, queue) |
| approve, reject | `Decide`, `ApproveSet`, `ApproveQueue`; `RejectSet` |
| `WorkerRuntimeInvocationService.invoke` | `Invoke`, `DequeueAction`, `CheckApproved`, `ExecuteSet`, `Execute`, `Retry` |

**Registry.**  A text is a word with a style (plain, padded, cased), which is all
that `strip()` and `casefold()` tell apart: `strip` undoes padding, `fold` both.
Registration is atomic because it happens at start-up, on one thread; what varies
is which offers come in which order, and `register_capabilities` keeps what it
accepted before the conflict that raises.

**Accounts and calendar.**  Stored material is the Google account its refresh token
belongs to, none, damaged, or the empty string, on which every read raises.  `Connect` takes the browser flow in one step (it
touches nothing shared), then `CheckExisting` and `StoreMaterial` are the two
keychain calls of `store`.  A request goes through `Ask`, `Resolve` (queries only),
`Validate`, and then for each page `ReadCredentials` or `CredentialsFail` or
`RefuseToken`, and `FetchPage` or `HttpFails`; a sync ends with `SyncEvent`.  Tomorrow's
events are positions in the list Google sorts by start time, a page token is the last
position of the page before it; a dishonest Google returns stray tokens, a padded
one among them.  Every failure carries the category and reason the code gives it,
and `SyncCode` turns them into what the command prints.

**Parameters.**  `Overlapping` is the set of request kinds clients may send while
another request on the same Action is being served.  The server itself forbids
nothing; the bundled task client and the acceptance runner are strictly
sequential.  `DatabaseFails` switches SQLite errors on.  `Padded` is the set of
Actions whose objective was sent with surrounding blanks.  In `SEPromotion`,
`Outliving` is the set of commands that may outlive a crash, `Closing` allows
pull requests to be closed unmerged, and `MaxBase` bounds how often the base
branch advances.

## 3. Runs

| Run | Bounds | Shows |
|---|---|---|
| `concurrent` | 1 Action, 2 threads, everything overlaps except release, failing database, crashes | `ClaimDiscipline`, `NoRunWithoutApproval`, `AtMostOneCodingRun`, `CodingHoldsClaim`, `SideEffectsAreMarked`, `ResultWrittenOnce`, `ImplementsLedger` |
| `sequential` | 1 Action, 2 threads, one request at a time, crashes that end, `FairSpec` | `ObjectiveScrubbed`, `ClaimIsReconcilable`, `MemoryAgreesWithRow`, `RetriableIsExecutable`, `ApprovedRunSettles` |
| `promotion_concurrent` | 2 threads, everything overlaps, every command may outlive a crash, `MaxBase` 1 | `PromotionDiscipline`, `OneCommit`, `OnlyKeptIsPublished`, `RecordedIsPublished`, `PromotionIsFinal` |
| `promotion_sequential` | one request at a time, `MaxBase` 2, closed and merged pull requests | `OnePullRequest`, `CommitsSurviveDiscard` |
| `promotion_liveness` | one request at a time, base at rest, `FairSpec` | `PromotionCompletes` |
| `schema` | 2 openers, the real column lists, 2 deaths, `FairSpec` | `VersionIsHonest`, `OnlyRacesRaise`, `EverybodyOpens` |
| `event_flow` | 1 event of any category, 2 request threads, 1 worker, 2 Actions, batches of 2, 2 retries, `FairSpec` | types, `NoActionLost`, `PermissionFirst`, `RetriesBounded`, `PlannedOnce`, `InboxAgrees`, `ApprovedActionSettles` |
| `routing` | 11 offers (conflicting, padded, cased, invalid) in every order, 324 Actions to route | `ExplicitRouteUnique`, `ManifestIsWhole`, `ImplicitAgreesWithExplicit`, `NamedRouteIsStable` |
| `agenda` | 1 VELOX account, 2 Google accounts, 2 connect commands, 1 request, 4 positions, pages of 1, at most 3 pages, 1 edit, `FairSpec` | `CompleteMeansAll`, `WalkIsBounded`, `EventsOfNamedAccounts`, `ReconnectCanHelp`, `NeverReplacedUnasked`, `EveryRequestAnswered` |

Why the bounds are enough.  In the control plane every access is keyed by the
Action, so one Action carries all interference, and two threads suffice for each
race described above (one handler overtaken by others on the second thread); the
theorems drop this bound for the properties they cover.  No counter needs a cap:
`coded` stays bounded by the discipline and the queue by the one enqueue per
approval or claim.  In `event_flow` two Actions are what FIFO order, a batch that
stops early and an event planned twice by overlapping requests need, and two
retries let the counter be read, raised and exhausted; `MaxActions` bounds the
processing calls, hence also the Actions.  In `schema` a death can hit each of the
two openers, or one of them twice.  In `agenda` the first calendar fills the page
limit exactly, one edit passes it, and the second one holds an event that cannot be
mapped; two connect commands are what the keychain race needs.

Deadlock checking is on for the control plane and for promotion.  `event_flow` and
`agenda` may come to rest because no client has to send a request, `schema` because
everybody has opened the file, and `routing` because every offer was made.

Three runs are expected to fail.  Each checks one statement of the repository's
documents, messages or tests that the code does not keep under the stated
parameters; `findings` in `PROJECT.json` quotes the lines.

| Run | Statement | What happens |
|---|---|---|
| `decision_race` | a rejected Action cannot be approved | `delegate` registers its row after the Action was rejected and resets it to awaiting |
| `release_alive` | a released claim runs only after a new execute | the observer of the overtaken execute goes on without a claim |
| `padded` | claim reconstructs the exact envelope | blanks around the objective make execute refuse after claiming |

Three passing properties depend on their run's parameters in the same way, and
changing one line of the cfg shows it.  With `Overlapping = {"approve", "reject"}`
`ObjectiveScrubbed` fails: a losing approve writes the text back after a reject
scrubbed it.  With `DatabaseFails = TRUE` `RetriableIsExecutable` fails: a database
error leaves EXECUTING in memory.  With overlapping `"discard"` and `"promote"`
`CommitsSurviveDiscard` fails: DISCARD counts commits, a promote commits, DISCARD
deletes the branch.

`release_alive` is why `"release" \notin Overlapping` is the hypothesis of the
theorems: releasing is safe only when the request that took the claim is gone,
and the code has no evidence of that.

The registration race of `decision_race` has a second face: late registration of
a row that was already approved and claimed makes it awaiting again, status then
offers a release that reconcile refuses.  `ClaimIsReconcilable` therefore belongs
to the sequential run.  Likewise `promotion_sequential` keeps the commands
`commit` and `create` out of `Outliving`: a `git commit` that survives the server
can land after the commit count of a later DISCARD, and a `gh pr create` that
survives it can open a second pull request once the retry's own was closed.  The
properties of `promotion_concurrent` hold all the same.

One more consequence of the code needs no run: when a crash separates publishing
from recording and the pull request is merged before the retry, the base moves on
and every later promote refuses, so the row never says promoted.
`PromotionCompletes` is checked with the base at rest for this reason.

What the other runs say about overlapping requests, and about limits of the code
that no document denies:

* Event flow.  Two accepts of one id both pass the duplicate check; the last write
  of `accept` may reset an event that a second request has already processed to
  pending, so it can be planned again.  Two approvals of one Action queue it twice and reset its
  retry count; an approve and a reject may both win.  `PlannedOnce`, `InboxAgrees`
  and `RetriesBounded` therefore speak of ids outside `raced`, and
  `PermissionFirst` of a rejection only if the approval did not overlap it;
  `NoActionLost` and `ApprovedActionSettles` hold without that exception.
* Calendar.  `CompleteMeansAll` promises the events that keep their place.  An event
  that moves to an earlier start between two pages can be missed by a walk that calls
  itself complete, and a connect with `--replace` in the middle of a walk can mix
  two Google accounts, both of them named by the operator
  (`EventsOfNamedAccounts`).
* Accounts.  `store` looks before it writes, and its docstring admits the race;
  `NeverReplacedUnasked` says that this race is the only way to lose a connection.
  connect accepts a padded account identifier, which no reader can address
  afterwards.

**Fairness.**  `FairSpec` of `SELiveness` asks for weak fairness of every handler step (the
operating system schedules every thread, and a coding process ends by itself or
by the executor's timeout), strong fairness of the operator's execute and
reconcile requests (the loop that status asks the operator to perform), and that
crashes stop eventually: `SELiveness` adds a flag that ends them at a moment no
handler knows, because a crash of an idle process cannot be told from the end of
a request by the states around it.  Approve and delegate are not fair: nothing makes an
operator approve.  `SEPromotionLiveness` follows the same pattern: weak fairness
of the handler steps and of tidying the checkout, strong fairness of the
operator's promote request, and an unknown moment after which commands stop
failing.  `RunStateSchema`: processes run, and one that could not open the file is
started again; deaths are bounded by `MaxDeaths`.  `EventFlow`: request threads and
the worker are scheduled, and somebody keeps invoking the worker while the queue is
not empty.  The repository offers `invoke` without an endpoint or timer that calls
it, so this last one is an assumption about the embedding.  `CalendarAgenda`: every
keychain, token and HTTP call ends, with an answer or a timeout, so a request takes
its next step; no client has to ask.

## 4. Proofs

No theorem bounds the number of Actions, threads, events, pages or crashes.  Each
part below names its hypotheses on the parameters and, beyond them, the assumptions
on the constants, which TLC evaluates in every run.

### The control plane: claims

`SEControlPlaneProofs` proves, for every set of Actions and Threads, every
`Padded`, failing databases or not, and every `Overlapping` without `"release"`:

| Theorem | Statement |
|---|---|
| `DisciplineHolds` | `Spec => [](TypeOK /\ ClaimDiscipline)` |
| `ApprovalFirst` | `Spec => []NoRunWithoutApproval` |
| `OneCodingRun` | `Spec => []AtMostOneCodingRun` |
| `CoderIsProtected` | `Spec => []CodingHoldsClaim` |
| `EffectsAreMarked` | `Spec => []SideEffectsAreMarked` |
| `RetriableMeansClaimable` | `Spec => []RetriableIsHonest` |

The only assumption is `ControlPlaneAssumption` on the constants.

The safety properties are not inductive: whether a launch is the first one
depends on who holds the claim.  `ClaimDiscipline` adds the missing parts.
`OwnerHoldsRow`: between its claim and its result exactly one thread owns the
run, and the row's columns say how far that thread is.  `RowShape`: which columns
can be set together (a result implies a start, a start implies a claim, a claim
implies an approval).  `SideEffects`: a worktree or a launch implies a recorded
start, and a thread about to launch has not launched before.
`ReleaseFindsNoOwner`: a release whose snapshot is still current has no live
owner.  `HandlerLocals`: the locals each later step relies on.  The interesting
step is the claim: `can_claim` sees no claim, hence no owner, no start, no
worktree, no orphan, so the new owner starts from a clean row.  A release keeps
this because its compare-and-set fails once the row was written, and because no
owner exists while it is pending; an abandon keeps the claim.  Lemmas treat the
steps that leave rows and ownership alone together (`MoveKeepsDiscipline`,
`FinishKeepsDiscipline`, `QuietStepsKeepDiscipline`) and the others one by one.

`SELedgerProofs` takes the same invariant further, under the same hypothesis:

| Theorem | Statement |
|---|---|
| `LedgerIsImplemented` | `Spec => ImplementsLedger` |
| `ResultsAreFinal` | `Spec => ResultWrittenOnce` |

The refinement maps each row to its phase (`PhaseOf`).  A step that leaves claim,
start, resolution and result of every row alone, and neither grants nor launches, is
a stutter (`InvisibleStep`); a write to one row moves its Action from one phase to
another (`WriteMovesPhase`).  Six kinds of step remain, and each is the ledger step
of its name: that the launch is one of a started run, or that the result ends a
started one, is what `OwnerHoldsRow` and `HandlerLocals` know.

### The control plane: one request at a time

`SESequentialProofs` proves, for every set of Actions and Threads, every `Padded`
and crashes at any step, under `Sequential == Overlapping = {} /\ DatabaseFails =
FALSE`:

| Theorem | Statement |
|---|---|
| `SequentialAgreement` | `Spec => []SInv` |
| `ObjectivesAreScrubbed` | `Spec => []ObjectiveScrubbed` |
| `OfferedIsAccepted` | `Spec => []ClaimIsReconcilable` |
| `MemoryAndRowAgree` | `Spec => []MemoryAgreesWithRow` |
| `RetriableIsTaken` | `Spec => []RetriableIsExecutable` |

`Sequential` says nothing about requests for different Actions, which do overlap.
It is the use the task client makes of the server, and section 3 tells how the
properties fail without it.  `SInv` adds `SequentialDiscipline` to the claim
discipline.  `Alone`: a busy thread is the only one at work on its Action.
`SettledRow`: the columns a decision, an abandon or a result has cleared.  `Agree`:
what registry, lifecycle and queue may say, given the row; it holds while nobody is
at work on the Action, and `HandlerAgrees` says at which steps of a handler it is
suspended and what holds there instead.  A crash empties the memory, and the empty
memory agrees with every row, which is why no step needs to be protected.
`OneActionMoves` reduces each step to the Action it works on.

### Promotion

`SEPromotionProofs` proves, for every set of Threads, every `Overlapping` and
`Outliving`, closing or not, and every `MaxBase`:

| Theorem | Statement |
|---|---|
| `PromotionDisciplineHolds` | `Spec => [](TypeOK /\ PromotionDiscipline)` |
| `CommitsOnce` | `Spec => []OneCommit` |
| `PublishesOnlyKept` | `Spec => []OnlyKeptIsPublished` |
| `RecordsArePublished` | `Spec => []RecordedIsPublished` |
| `PromotionsAreFinal` | `Spec => PromotionIsFinal` |

The only assumption is `PromotionAssumption`.  The argument: a commit leaves
nothing to commit, so there is one (`CommittedOnce`); once a request has verified
it, the branch holds exactly this commit until it is deleted (`VerifiedBranch`),
so that whatever is pushed, by a thread or by an orphan, is this commit
(`RequestLocals`, `PushVerified`); pull requests are never forgotten and a second
one makes `_find` refuse, so every record names number one (`RowPromotion`).
`CommandsKeepShared` shows that no command disturbs what the others rely on, and
serves threads and orphans alike.

Under `OneAtATime == Overlapping = {} /\ Outliving \cap {"commit", "create"} = {}`
it proves further:

| Theorem | Statement |
|---|---|
| `ServedInTurn` | `Spec => []SerialInv` |
| `OpensOnePull` | `Spec => []OnePullRequest` |
| `DiscardSparesCommits` | `Spec => []CommitsSurviveDiscard` |

Section 3 shows why both halves of the hypothesis are needed.  `Standing` is what
the request being served relies on: that there is no pull request when it is about
to create one, that the commit has landed when it is about to remove the worktree,
and that the worktree is gone when it deletes the branch.  Nobody commits into a
worktree that is gone, so a `git branch -D` that outlives a crash still deletes
nothing but what has landed, however late it runs.

### The schema

`RunStateSchemaProofs` proves, for every set of Openers, all lists of added
columns and any number of deaths:

| Theorem | Statement |
|---|---|
| `SchemaDisciplineHolds` | `Spec => [](TypeOK /\ SchemaDiscipline)` |
| `VersionStaysHonest` | `Spec => []VersionIsHonest` |
| `OverlapsAloneRaise` | `Spec => OnlyRacesRaise` |

The only assumption is `SchemaConstants`.  `VersionIsHonest` is not inductive: that
`UpdateVersion` may write 3 depends on what the opener saw many steps earlier.
`FileShape` says which versions go with which columns, in particular that a file
without version has no table or the whole one; `OpenerKnows` what an opener relies
on at its step, for example that all columns are there before `update`;
`AloneIsCurrent` that an opener nobody overlapped is the only busy one and that
what it read is still all there is, which is why nothing it does can raise.
Columns are only added and the version only rises to 3, so no step can take away
what another opener knows (`OthersUndisturbed`); `OpenerStep` reduces each action
to the file and the opener that moves.

### Events and Actions

`EventFlowProofs` proves, for every set of Events and Workers, every finite set of
Threads, every batch size, retry limit and `MaxActions`:

| Theorem | Statement |
|---|---|
| `FlowCorrect` | `Spec => []FlowInv` |
| `FlowTypes` | `Spec => []TypeOK` |
| `NothingIsLost` | `Spec => []NoActionLost` |
| `NothingRunsUnpermitted` | `Spec => []PermissionFirst` |
| `RetriesStop` | `Spec => []RetriesBounded` |
| `EventsPlannedOnce` | `Spec => []PlannedOnce` |
| `InboxIsRight` | `Spec => []InboxAgrees` |

`EventFlowConstants` assumes that the pool of request threads is finite and that
workers are not request threads, and that event ids and Action ids differ, as the
ids the server generates do.  There is no hypothesis about overlap: `FlowInv` says
of every Action what survives any overlap (`ActionFits`: permission comes before
handling; `Located`: where it is), and of the ids outside `raced` also what does
not.  `EventFits` gives, stage by stage, the store, inbox and status entries of an
event with a request at work; `OneCopy` says that an Action is in the queue, with a
worker or about to be queued, once; `CountFits` relates its status and the count in
its lifecycle to its executions.  That count is what the worker read when it
checked the Action, so the argument needs that nobody else wrote it since, which
`OneCopy` provides and a second approval would destroy.  `Exclusive` makes `raced`
mean what its name says.  `NumbersFit` keeps a free number for each processing
call, so planning never runs out of Actions and never takes a number twice.
`ActionWork`, `EventWork` and the `Untouched` lemmas reduce each step to the id it
is about.

### Routing

`ExecutorRegistryProofs` proves, for all offers and requests of the declared form:

| Theorem | Statement |
|---|---|
| `RoutesAreOwn` | `Spec => []RoutesFit` |
| `NamedIsUnambiguous` | `Spec => []ExplicitRouteUnique` |
| `NamedIsStable` | `Spec => NamedRouteIsStable` |
| `ManifestsAreWhole` | `OwnExecutors => (Spec => []ManifestIsWhole)` |
| `ImplicitIsExplicit` | `Spec => []ImplicitAgreesWithExplicit` |

The assumption is `RegistryConstants`, the form of offers and requests.  `RoutesFit`
says that a registration is stored under the key its capability and account
normalise to, so two registrations that match one named request have one key.  For
`ManifestIsWhole` every executor object must be offered once: an object that is
offered twice, first with a list of capabilities and then with a manifest that
conflicts, serves the first list only, and the property would blame the manifest.

### Calendar and accounts

`CalendarAgendaProofs` proves, for any number of accounts, connect commands,
requests, positions, pages and edits, any page size and any stray tokens:

| Theorem | Statement |
|---|---|
| `AgendaCorrect` | `Spec => []AgendaInv` |
| `ConnectionsAreKept` | `Spec => NeverReplacedUnasked` |
| `WalksAreBounded` | `Spec => []WalkIsBounded` |
| `EventsAreTheAccounts` | `Spec => []EventsOfNamedAccounts` |
| `ReconnectsHelp` | `Spec => []ReconnectCanHelp` |
| `CompleteAgendas` | `Spec => []CompleteMeansAll` |

The assumption is `AgendaConstants`.  `ConnectFits`: a connect that found the
keychain empty finds it empty when it writes, unless another one overtook it.
`PagesFit`: the tokens asked for are the ones seen and one per page.
`AccountsFit`: the material in hand, and every event shown, is of an account that
was connected meanwhile and named.  `EventsFit` is the interesting one: up to its
token, a walk over one honest calendar has missed nothing that was there all along,
whatever was added or removed around it; the last page closes the gap.  That a page
ends at the position of its token needs the last of a page's positions, whose
existence is an induction over a finite set, done with the well-founded ordering of
the library.

### What is only model-checked

* Liveness: `ApprovedRunSettles`, `PromotionCompletes`, `EverybodyOpens`,
  `ApprovedActionSettles`, `EveryRequestAnswered`.  Reasoning about fairness and
  ENABLED is outside the reach of the provers used here.
* That the properties of the three failing runs fail, by their counterexamples.
* The properties above outside their hypotheses: section 3 names those that fail
  there.

## 5. Not modelled, and the plan

Not modelled, and why:

* Gmail: its executor and store are in-memory fakes, and no endpoint plans or
  delegates an Action with its capability, so the running server never changes
  their state.
* Task client, acceptance runner and pilot: sequential HTTP clients without state
  between requests.  Their one-request-at-a-time use of the server is the parameter
  `Overlapping = {}`.
* Composition (`core/container.py`, `main.py`, the runtime builders): wiring at
  start-up.  `get_container` builds its singleton without a lock; two first requests
  may build two, and what was written to the one that loses is gone.  A module for
  this one assignment would only repeat it.
* Configuration and logging: no state after start-up.
* Data: prompts, argv, report parsing, titles and bodies, redaction, field mapping
  and timezone arithmetic; the OAuth exchange and the HTTP transports are external
  and appear by their outcomes.  The in-memory run repository repeats the SQLite one
  without its transactions.

What is left, in this order:

1. The retry of an overlapped approval: `CountFits` says nothing of raced Actions.
   How many executions two overlapping approvals can cause at most is a bound worth
   stating, with the reset of the retry count made visible.
2. `SequentialAgreement` with failing database calls: all of `SInv` but the
   EXECUTING that a failed observer leaves in memory should survive them.
3. A module for the Gmail executor, if an endpoint ever delegates to it.
