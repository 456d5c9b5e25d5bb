# RepoTrial in TLA+

RepoTrial takes a public GitHub repository with a Docker Compose application, boots it
in a disposable Docker Sandbox, replays user journeys against it, then tries hardening
changes one at a time and keeps the ones after which the journeys still pass. The hard
part of the code is not what it computes. It is that every step may fail, be cancelled
or be killed, and the tool must still remove every sandbox, never mix the evidence of
two attempts, and never claim more than it saw. The modules here state that and check
it; file references are relative to the source root `src/` unless they begin with
`src/repotrial`.

TLC model-checks each module on a small instance, TLAPS proves the theorems for every
value of the constants.

## 1. Inventory

| Component (`src/repotrial/...`) | State | Operations | What is hard | What makes it correct |
|---|---|---|---|---|
| Sandbox lifecycle, `sandbox/lifecycle.py` | primary error, cancellations, removal task, audit log | `managed_sandbox`: create, publish port, body, destroy | cancellation at every await, a failing audit write, a retry of a partial create | no sandbox is left behind unreported; the evidence is true; no creation after a cancellation |
| Sandbox provider, `sandbox/docker_sbx.py` | `_sandbox_states`, the runtime template, the image bundle, deadlines | `create`, `publish_port`, `destroy`, `begin_invocation`, template activation and cleanup | an `sbx` command that failed may have had its effect; the cleanup itself is cancelled or fails | what it counts as removed is removed; at most one sandbox is unaccounted for |
| Run graph, `agent/graph.py`, `agent/state.py` | `RunState` in checkpoints, files of the run | nine nodes and their routes | the run is killed between a file and the checkpoint that refers to it, then resumed | state, files and history agree; no attempt writes into another's evidence |
| Checkpointer, `agent/checkpoint.py` | Postgres, through langgraph | save, load | durability at node boundaries only | a resumed node finds what its predecessors promised |
| Mutation policy and engine, `hardening/policy.py`, `hardening/engine.py` | none (pure over the history) | `propose_mutation`, `decide_candidate`, `run_experiment` | long histories: budget, failure streaks, follow-up changes | nothing is tried twice, the order holds, a kept change was earned |
| Compose mutations, `compose/*.py` | overlays on disk | apply, validate and write overlays | a change that is a no-op; an overlay half written | the chain of accepted configurations replays |
| Terminal outcome, `run_outcome.py` | none | `classify_terminal_outcome` | it judges by stop reason and history | exit code 0 is earned |
| Journey plan artifact, `trial/journey_artifact.py` | one file | publish once or verify | a plan is drawn again after a resumption | the journeys of one run never change |
| API service, `api/app.py`, `api/registry.py` | a row per run, report files | create run, sweep at start, read | statements whose answer is lost, cancelled requests, kills | rows, reports and answers agree |
| Local console, `local_web/runner.py`, `app.py` | the active job, its child process, history | submit, stop, shutdown, run the doctor | stop racing the end of the child, shutdown racing a start | one child at a time, one interrupt per child, no process behind a job shown as ended |
| Runtime template and image bundle, `sandbox/docker_sbx.py`, `sandbox/lifecycle.py`, `trial/image_template.py` | template tag, audit, bundle file and descriptor, evidence handle | stage, activate with its undo, create from it, finalize | a command of the commit or of the cleanup had half its effect; the invocation is cancelled twice; others replace the file | nothing is left behind in silence, and the evidence of removal is true |
| Repository intake, `intake/*.py` | a cache directory shared by processes, its lock file, the workspace | restore, fetch with a retry, store by rename | trials at the same time, a kill between any two steps, damage to an entry, a git that outlives its timeout | what is pinned is whole, the cache keeps its limit, a retry is alone |
| Startup inputs, `trial/startup_inputs.py`, `compatibility.py` | the identity file and a ledger per slot | plan, identify, check the history, materialise, finish | an answer, an fsync or the process is lost around a row; the sample is edited between two attempts | every boot has the same input and its overlays, over complete records |
| Boot, `trial/boot.py`, `boot_evidence.py` | the boot's evidence document | config, pull, build, up, poll, look again, logs | containers change between two commands; the document cannot be written | a pass has seen every service ready; the document is what was executed |
| Journey runners, `journey/http_runner.py`, `verifier.py`, `http_auth.py` | captured token, answer files | request, redirect, assert, capture | redirects in circles, bodies cut short, a token of a failed step | a token was earned, a pass has evidence of every step |
| Observation, `trial/observer.py`, `observation_evidence.py` | ledger, audit file | list, inspect, diff, top, audit | a command that fails between its two rows | the ledger is paired and says no more than happened |
| Local console inputs, doctor, evaluator, model adapter, reports, configuration | none kept between steps | I/O and rendering | little: sequential code on an external service | see `PROJECT.json`, which lists each with its reason |

How they interact: `cli.py` (a child process of the local console, or in process in the
API service) opens the provider and calls the graph. The graph's nodes `boot`,
`experiment` and `image preparation` each open one `managed_sandbox` session; the
graph's checkpoints and the files of the run are its only memory across processes.
Policy and engine are pure functions the nodes call on the history. The API service
records the outcome in a row of Postgres, the console records it in its job.

The line of every hazard is in `PROJECT.json`, "hazards".

## 2. Modules

| Module | What it models |
|---|---|
| `SandboxOwnership` | abstract: what a session promises about a sandbox |
| `SandboxLifecycle` | `managed_sandbox` with the provider operations it drives |
| `SandboxLifecycleProofs` | its theorems |
| `HardeningPolicy` | operators: `propose_mutation`, `decide_candidate`, the records an experiment may leave |
| `HardeningLoop` | abstract: baseline, then experiment after experiment, without nodes, files or crashes |
| `HardeningLoopProofs` | its theorems |
| `RunGraph` | the nine nodes with checkpoints, files, interruptions and resumptions |
| `RunGraphProofs` | its theorems, among them the refinement |
| `RunRegistry`, `RunRegistryProofs` | the API's requests and rows, with kills and restarts |
| `LocalConsole`, `LocalConsoleProofs` | the console's jobs, its doctor and the `inspect` process of a job, with signals and kills |
| `TemplateCustody` | abstract: what an invocation promises about the template and bundle it leaves outside |
| `RuntimeTemplate`, `RuntimeTemplateProofs` | the image template and the bundle of one provider, under `managed_runtime_template` |
| `RepositoryCache` | trials that pin repositories at the same time |
| `GuestInputs` | what is put into a sandbox before it boots, over attempts and invocations |
| `TrialStartProofs` | the theorems of the last two |
| `ComposeBoot` | one boot with `docker compose`, with its evidence document |
| `HttpJourney` | the replay of one journey |
| `Observation` | one collection of observations with its ledger |
| `WorkloadTrial` | composes the three above with containers that change meanwhile |
| `WorkloadTrialProofs` | its theorems |
| `MC*` | the instances for TLC |

### SandboxLifecycle

One action is the code between two awaits: asyncio switches tasks nowhere else. `pc` is
the await the session's task waits in. `alive` is the daemon, which is external: a
command that ended in an error or a cancellation may or may not have taken effect, so
`alive` after it is either. `states` is `_sandbox_states`, `primary` and `overtaken` are
the provider's `primary_error` and the cancellation its cleanup loop kept, `body`,
`cancelled` and `audit` the fields of `outcome`. `task` is the removal that runs in a
task of its own, shielded from the session's cancellation. `log` is the set of lifecycle
events written. `Cancel` is the first SIGINT (or any cancellation of the task) while a
removal runs; `Teardown` is the second one, at which `asyncio.run` cancels all tasks.

`SandboxOwnership` is what a caller may rely on: a sandbox is unborn, then held, then
gone for good or abandoned, nothing is acquired beside a held or abandoned one, and
success is reported only for a sandbox that is gone. The mapping sends `pending` and
`active` to held, `cleanup_unsafe` to abandoned, `cleaned` to gone.

### HardeningPolicy and HardeningLoop

A configuration is the set of the changes made to the Compose file
(`current_config_hash` is a hash of the file and is taken to be injective), an
experiment's record has the fields decisions read. `Records` is every record
`run_experiment` can leave for a mutation. Which finding leads to which mutation, which
mutation a Compose file already satisfies, and the follow-ups after a rolled-back
read-only root filesystem are translated; the text of Compose files is not.

### RunGraph

`node` and `graphVars` are the checkpoint, `disk` the files, `pc` and `slot` the locals
of the running node. A node that touches files or a sandbox is several actions, in the
order of the code, and `Interrupt` may come before each; a node without awaits that
matter is one. `Resume` is `aresume_run`: the checkpointed node runs again. langgraph's
saver is external; a node's update and its checkpoint are one step. A sandbox session is
one step here (`SandboxLifecycle` is its inside); the runtime template is the flag
`warm`. `ImplementsLoop` says that the whole, however it is interrupted, is
`HardeningLoop`.

### RunRegistry

A request waits at a database statement or for its trial. A statement ends in an answer,
an error or a cancellation; in the last two, and at a kill, it may have been committed.
`Start` is the lifespan with the sweep of RUNNING rows; "degraded" is the service
without a graph, which refuses requests.

### LocalConsole

One action is the code of the console between two awaits. `task[j]` is the await of
`_run` the job `j` waits at (`spawning`: `create_subprocess_exec`; `waiting`:
`process.wait()`; `draining`: the readers of its output), `active`, `history`, `state`,
`control` and `requested` are the fields of `CliRunner` and `_Job`. `submit` and the
doctor's admission hold `admission_lock`, across awaits that never suspend, so each is
one action; the doctor itself runs in a thread between `DoctorAdmitted` and
`DoctorEnds`.

The `inspect` command is a process beside the console. `child[j]` is where it is:
`starting` before its `try`, `trial` in `asyncio.run`, `record` before the write of the
evidence, `recorded` after it and still in the `try`, `handle` in an exception handler,
`ending` after the `try`. A SIGINT that was sent is taken at any later moment, or never
if the command exits first. In `trial` it cancels the task, which must clean up
(`SandboxLifecycle` is what then happens); in the rest of the `try` it is a
`KeyboardInterrupt` that becomes evidence; elsewhere it ends the command. A write that
is cut short, by a signal, an error or a kill, leaves no evidence that can be parsed, or
what was there. The identity checks of `_project_terminal_evidence` (run id, repository,
commit) are abstracted to `printed`, since each job writes in a run directory of its
own.

The link to `SandboxLifecycle`: `InterruptedOnce`, a part of `StopIsClean`, means that
the console never causes its `Teardown`, which takes a second SIGINT.

### RuntimeTemplate

`pc` is the await the invocation waits at: `warm` to `undo_ls` belong to
`stage_runtime_image_bundle` and `activate_runtime_template`, `body` and `import` to the
creates of the graph, `finalize` to `f_relist` to `finalize_runtime_template`, which
runs in a task of its own, and `settle` to the end of `managed_runtime_template`, where
the evidence record is appended and the failure to raise is chosen. `template` and
`file` are the two things outside any sandbox, and may be `foreign`: somebody removed or
replaced them (`Meddle`). `held` says which parts of the bundle the provider holds,
because each of its checks looks at another part. A failed command of the main task may
have had its effect; a cancellation of the task is absorbed while the finalization runs
(`Absorb`) and reaches the finalization itself only when the event loop is torn down.
The warm-up's sandbox and every other session is one step here, and `unclean` is what
`SandboxLifecycle` says of it.

`TemplateCustody` is the promise: what exists outside a sandbox is in the custody of an
invocation, custody is given back only when nothing is left, and a provider that lost it
never serves another invocation.

### RepositoryCache

The trials are processes: `pinPc` runs per trial through `RepositoryCache.pin` (`start` to
`r_clone` is the restore, `claim` to `pause` the fetch of `pin_repository`, `s_*` the
store). `entry`, `temp`, `lock` and `extra` are the cache directory, `workspace` and
`alive` what a trial and a git it could not kill leave. An entry is published by rename,
so `temp` becomes `entry` in one step; it starts in any state (`Init`), may rot at any
time, and passes the checks that do not read its objects while it is `rotten`. The lock
is `flock` without waiting: who does not get it goes on without the cache. A kill frees
the lock and leaves the directories.

### GuestInputs

`attempt` runs through the boots and then the experiments, in slots of the run's
directory (`Slot` is how many were claimed). `identity` and `ledgers` are the files of
the run, `sample` and `artifact` the workspace that others may edit (`Edit`), `guest`
what the sandbox holds. `History` is what `verify_startup_input_attempt_history`
accepts. An appended row may be lost, torn or whole when its write fails; the adapter's
answer may be lost after it wrote the `.env`. `held` and `booted` are history variables
for the properties.

### ComposeBoot, HttpJourney, Observation and WorkloadTrial

Each of the first three has the variables of its component and no specification of its
own; `WorkloadTrial` instantiates them over its variables, gives the containers a life
of their own (`Healthy`, `Change`) and puts them in the order of the baseline (journeys,
then observation) or of an experiment (observation, then journeys until one does not
pass, then the decision). A command of `ComposeBoot` is a step from `at` to the next
stage; `stages` is the history variable the evidence document is compared with. A step
of `HttpJourney` names the token by the step that captured it, an answer by its status
class, whether its body is whole, and whether it has a token. A ledger row of
`Observation` is the operation and how it ended.

## 3. Runs

| Run | Instance | Distinct states | What it shows |
|---|---|---|---|
| `sandbox_lifecycle` | 2 sandboxes, any number of sessions' steps | 11,125 | `SandboxesAreAccounted`: a removal that is counted happened, one sandbox at most is unaccounted for, destroy is called legally; `FailClosed`, `EvidenceIsTrue`; `NoCreateAfterCancel`; `EverySessionEnds`; `ImplementsOwnership` |
| `sandbox_unreported` | the same | violation | finding 1 |
| `hardening_loop` | 9 findings on 2 services, up to 2 journeys | 236,142 | `SearchIsOrderly`: no experiment is repeated, budget and priorities hold, a loop that ends for want of mutations tried every finding; `FinalIsEarned`: accepted configurations replay and a KEEP is earned; `Ends` |
| `run_graph` | 2 findings on one service, 0 or 1 journeys, one resumption | 559,874 | `DiskIsReplayable`: state, files and history agree after interruptions; `CompletedIsEarned`; `StageHistoryFits`; `RepetitionIsHarmless`: evidence is fresh and a stop is final; `InvocationsEnd`; `ImplementsLoop` |
| `graph_undecided` | a service whose first change is a no-op | violation | finding 2 |
| `run_registry` | 2 runs, 2 starts | 43,591 | `AnswersAreTrue`: what a client was told is recorded and a report that is offered exists; `RowsAreAccounted`: a ready service accounts for every RUNNING row, and a terminal row is withdrawn only by its own request before it answers |
| `local_console` | 2 jobs, a history of 1, 2 starts of the console | 520,169 | `SingleFlight`: one trial per console, never beside the doctor, always to be found and stopped; `StopIsClean`: one SIGINT per child, never lost, and a job shown as stopped or ended has no process; `CompletedIsEarned`; `JobsEnd` |
| `console_orphan` | the same | violation | finding 3 |
| `runtime_template` | one provider, 2 uses, 2 cancellations | 27,190 | `LeftoverIsReported`: a template or bundle that is left was reported to the caller; `EvidenceIsTrue`: a recorded removal happened; `TemplateUsable`: the provider's own state never makes a create refuse its template; `InvocationEnds`; `ImplementsCustody` |
| `repository_cache` | 2 trials, 2 repositories, room for 2 entries | 861,328 | `PinnedIsWhole`, `CacheIsBounded`, `RetryIsAlone`: a repeated attempt has neither the directory nor the git of the one before; `PinEnds` |
| `guest_inputs` | a boot and an experiment, 3 slots, 2 resumptions, 1 edit, 2 samples | 178,438 | `BootsAreEquipped`: every boot has the identity's input and every overlay; `BootedOverWholeHistory`: no boot over an unfinished record; `SatisfiedIsTrue`: a satisfied row is about a guest that held the input; `InvocationEnds` |
| `workload_trial` | 2 services, 2 addresses, 1 redirect, 3 plans, 1 change of a container | 768,746 | `PassIsReady`, `EvidenceIsExecution`, `LedgerIsPaired`, `TokenIsEarned`, `RecordIsEarned`: verdicts, evidence and decisions agree with what happened; `TrialEnds` |

Bounds, and why they suffice:

- `MCSandboxes` has two sandboxes: one that is unclean and one that the next session
  would acquire. The properties relate at most two. The proofs lift the bound.
- `MCFindings` of the loop has nine findings, more than the budget of eight experiments,
  with a failed streak of three possible, two services to order, both forms of the root
  finding, and one change that is a no-op.
- `MaxJourneys = 2` tells "the first passes" from "all pass".
- `MaxResumes = 1` lets a run be killed between any two steps and go on. A second
  resumption adds a further unused directory, which the proofs of `FreshEvidence`,
  `StopIsFinal` and `StageHistoryFits` cover for any number. Two findings allow a KEEP,
  a rollback, and a follow-up.
- `Plans = {0, 1}`: no journey, which is insufficient coverage, or one, and a resumed
  planner that draws another plan.
- Two runs and two starts: a request that survives in the database beside one that is
  handled, and a sweep of what the first process left.
- Two jobs and a history of one: every submit after the first trims, and one job is
  active beside one that ended. Two starts: a trial that a killed console left behind
  beside the job of the next console. The proofs lift these bounds.
- `MaxJourneys = 1` of `run_graph` bounds `Plans`; the code's is 5.
- `MaxUses = 2` stands for the limit of 128 creates of one template: the third create
  meets it. `MaxCancels = 2`: a second cancellation while the first is still answered.
- Two trials, two keys and `MaxEntries = 2`: the trials share a repository or do not,
  and the second store finds the cache full. `MaxAttempts = 2` is the code's.
- `MaxSlots = 3` (4 in the code) with `MaxResumes = 2`: two slots that were interrupted
  before one that is checked against both; four slots add a third of the same kind. One
  edit changes the sample after the identity, or an overlay after its copy. The proofs
  lift all of these.
- `MaxRedirects = 1` with two addresses: the limit is met before the addresses run out,
  and a circle is possible. One service has a health check and one has none. `MaxChanges
  = 1`: one container fails, restarts or is replaced during the boot, and one after it.
  The plans have every kind of step: with and without a token, a capture that is
  repeated, a use without a capture, an unsupported tool, an empty plan.
- The bound of 64 on `visits` is the code's own (`_visit` raises there). The guard
  `visits < 64` is never false, which is `StageHistoryFits`.

Deadlock checking is off: a trial, a run, a request and a job end, and a service may
stay down.

### Fairness

`SandboxLifecycle`: weak fairness of the main task and of the removal task. The event
loop runs every ready task, and every `sbx` command has a time limit, so each await
returns. Nothing is assumed of which outcome a command has, of cancellations, or that a
new session starts.

`HardeningLoop`, `RunGraph`: weak fairness of the running node; every session and every
command within it has a deadline. Nothing is assumed of interruptions or of whoever
resumes.

`LocalConsole`: weak fairness of `_run`, of the await in `shutdown`, and of the command.
The event loop runs every ready task, and the waits of `inspect` (its `sbx` commands,
its HTTP calls) have time limits. Nothing is assumed of requests, signals, kills, the
doctor, or of how the command ends.

`RuntimeTemplate`: weak fairness of the invocation: every `sbx` command has a time limit
and the body is a bounded graph. `RepositoryCache`: weak fairness of each trial; its git
commands have time limits and nobody waits for the lock. `GuestInputs`: weak fairness of
a started attempt. `WorkloadTrial`: weak fairness of the trial; every command and
request has a time limit. Nothing is assumed of containers, cancellations, kills, edits,
or of whoever resumes.

`RunRegistry` has no liveness property: psycopg sets no time limit on a statement, so
nothing in the code makes a request end.

## 4. Findings

1. `sandbox_unreported`, `src/repotrial/sandbox/docker_sbx.py:2296`. `create` fails, the
   provider removes what may have been made, and that removal fails while a cancellation
   arrives. The cancellation is raised in place of the error that carries the sandbox's
   cleanup context, so `managed_sandbox` neither retries nor raises a `CleanupError`:
   the trial ends as cancelled while the sandbox may still exist. `begin_invocation`
   refuses the next invocation of the same provider, so one sandbox at most is
   unaccounted for all the same.
2. `graph_undecided`, `src/repotrial/run_outcome.py:40`. A proposed change that the
   Compose file already satisfies ends the run with stop reason `operation_failed`
   before any decision; the baseline passed and no experiment has stopped, so the run is
   classified as completed.
3. `console_orphan`, `src/repotrial/local_web/runner.py:266`. "The console is
   loopback-only and runs one trial at a time" (`README.md:72`). The child has a session
   of its own (`start_new_session=True`), so when the console is killed or its terminal
   is closed the trial goes on. What admits a trial is a variable of the console's
   process, so the next console starts a second one beside it and can neither show nor
   stop the first. Within one console the claim holds: that is `SingleFlight`, and it is
   proved.

## 5. Theorems

All are checked by tlapm from nothing; no step is left without a proof.

**`SandboxLifecycleProofs`**, from `SandboxAssumption` (`NoSandbox` is not a sandbox),
for any set of sandboxes. `TypeOK` and `FailClosed` alone are not inductive: whether an
unconfirmed sandbox will be reported depends on how the removal ended, which is known
steps earlier. `IInv` adds

- `SandboxAtPc`: the state of the session's sandbox at each `pc`,
- `OthersClean`: every other sandbox is absent or cleaned,
- `ReclaimFacts`: what a removal that ended says of the sandbox and of the errors kept,
- `CancellationKept`: a delivered cancellation is never forgotten by the session,

beside `ConfirmedRemoval` and `FailClosed` themselves. From it follow `TypeCorrect`,
`RemovalIsConfirmed`, `OneUncleanAtMost`, `CleanupFailsClosed`, `DestroyAccepted` and
`CancelStopsCreation`. `EvidenceInv` strengthens it for `EvidenceHolds`.
`LifecycleImplementsOwnership` shows every action to be a step of `SandboxOwnership` or
a stutter: `FateUpdate` and `FateKept` say what an action does to the mapped fate,
`MappedStep` puts them together. `SessionsGetOn` counts the waits that are before a
session (`Waits`: a body that may still fail to publish a port comes back once from the
removal of its sandbox) and the step of the removal task that a wait stands for.

**`HardeningLoopProofs`**, from `PolicyAssumption` and `JourneysAssumption`
(`MaxJourneys` is a number), for any findings, services and baselines. `SearchIsOrderly` and `FinalIsEarned` speak of the whole history, so the
invariant does too. `LoopInv` says of every experiment how it came to be proposed and
what it leaves: `OriginsHold` (a change that a finding asked for is new; the second
read-only attempt comes right after its tmpfs), `NothingKeptTwice`, `FirstOfTheOpen` (a
finding's change was the first, in the policy's order, of those still open), `Earned`,
and the replay of the chain. Two experiments are then never the same: the origins of
their mutations differ, or the configurations they started from do. The order needs a
least candidate of a set ordered by priority and service, which `LeastNumber` gives.
`LoopGetsOn` says that at most ten steps are before the loop (an observation, eight
experiments, the stop), that each leaves fewer, and, with `KnowsNext`, that there is one
until the loop has stopped: a baseline can be observed, the policy stops or proposes
nothing, or what it proposes has an outcome.

**`RunGraphProofs`**, from `GraphAssumption` (plans of at most `MaxJourneys`), for any
findings, plans and number of resumptions, in four parts.

1. `StageHistoryBound` needs to know what pays for a visit: `VisitsInv` is `Control`
   (which `pc`, `stop` and pending fields each node can be in), `Spent` (a visit belongs
   to a stage passed once, to a counted boot attempt or to an appended experiment) and
   `Bounded` (at most four boots and eight experiments). That makes at most 43 stages,
   so `_visit` never raises. `EvidenceIsFresh` rests on `Owned`: a slot is claimed by
   creating its directory, which succeeds once. `StopFinal` follows from `Control`, and
   `RepetitionHarmless` from the two.
2. `RunImplementsLoop`: `RunInv` adds what the nodes hand to each other. `Phase` and
   `Results` (the baseline is observed once and is what the plan's journeys gave),
   `InHand` (a candidate between nodes was proposable and its record is one that an
   experiment can leave) and `Files` (the file that `compose_path` names is whole and is
   the current configuration). `MappedStep` has one case per group of nodes;
   interruptions, claims, files and resumptions map to stutters.
3. What the loop promises then holds of the run: `LoopHolds` takes `LoopInv` over
   through an `INSTANCE` of `HardeningLoopProofs` under the same mapping. With
   `DiskInv`, about overlays, the last kept change and the final report, it gives
   `DiskStaysReplayable` and `CompletionIsEarned`.
4. `RunGetsOn`: what is ahead is four steps for each stage that may still be visited and
   those left of the running node. Only a resumption gives an interrupted node its steps
   again, and resumptions are counted. `Publishing`, that a file being published is on
   the disk, is what the accepting node needs to get on.

**`RunRegistryProofs`**, from `RegistryAssumption`, for any runs and starts. `IInv` is
`Typed` and, for each run, `RowAtStatement` (what the row may be while its request waits
at each statement) and `RowIsTrue` (what it says of the report and the answer). Both
properties of the run follow.

**`LocalConsoleProofs`**, from `ConsoleAssumption` (`NoJob` is not a job, the history
keeps at least one), for any jobs, history and starts. `IInv` is `TypeOK`, `Occupied` (a
doctor's check and a console that is not serving have no job) and, for each job, `JobAt`
(what the console knows at each await of `_run`), `Signalled` (when it was asked to stop
and what was sent) and `Claim` (what an interrupt leaves of the command's claim to have
completed). `KeptHistory` is the lemma about `_trim_history`: the newest job, which is
the active one, is never the one popped. All three invariants of the run follow. `Claim`
is where the signal races the exit: exit code zero with a SIGINT taken is impossible
because each place that can take it leads to another verdict. `JobsGetOn` counts what
is ahead of a job in `_run` and in its command. An interrupt leads a command into its
handler, which is nearer to its exit than any place the interrupt may find it at; and
as long as the console is busy, `_run` or the command has a next step.

**`RuntimeTemplateProofs`**, from `UsesAssumption`, for any number of uses and
cancellations. `IInv` adds `Named` (what exists is named by the provider: without a tag
no template is ours, without a path no bundle is, so that a finalization knows what to
remove), `WarmupAt` (tag, bundle and stop at each await of the warm-up) and `Confirmed`
(what a confirmed finalization implies, and that no earlier await has written a record).
`LeftoversAreReported`, `EvidenceHolds`, `TemplateStaysUsable`, `FinalizationIsTrue` and
the refinement `ProviderKeepsCustody` follow. `InvocationsGetOn` counts the uses that are
left of the template (`UsesLeft`) and, between two of them, the waits (`WaitsLeft`, at
most 17: the warm-up, which an invocation runs once, the body, the finalization).
`Counted` is the invariant behind it: nothing is used before the warm-up has ended.

**`TrialStartProofs`**, two independent parts.

1. About `GuestInputs`, from `InputAssumption`, for any contents, attempts, overlays,
   slots, invocations and edits. `IInv` is the state of each file at each await:
   `IdentityAt` (the identity is the input of every attempt that goes on, and boots fix
   it), `GuestAt`, `LedgerAt` (the exact rows of the running slot), `HistoryAt` (the
   slots before it were checked), `BootsAt` and `HeldAt`. `AttemptsGetOn` counts the
   attempts that are left and the steps of the running one, two for each overlay that is
   not copied; with it goes `SlotsCounted`, that no attempt claims more than its slots.
2. About `RepositoryCache`, from `TrialAssumption`, `KeyAssumption` and
   `LimitAssumption`, for any trials, keys and limits. `TrialAt` is what holds of a
   trial wherever it waits: at the points under the lock it holds the lock, so what it
   verified is protected from the other trials. `CacheIsBounded` counts finite sets:
   entries and temporary entries together, where only the holder of the lock makes one
   more. `PinsGetOn` measures each trial's `Distance` from its end, in which an attempt
   that may still be made adds the way around its claim, its fetch and its pause.

**`WorkloadTrialProofs`**, from `ServicesAssumption` (finitely many services),
`RedirectsAssumption` and `PlansAssumption` (a plan is a sequence of journeys, a journey
one of `JourneySteps`, the fields of `domain/models.py`), for any services, plans, limit
of redirects and number of changes to the containers. `TrialInvariant` proves `IInv`, and
all five invariants of the run follow from it. The parts have variables of their own, so
`IInv` is one conjunct for each that is inductive nearly alone:

- `BootKnows`: what the last `up` and the last listing are worth at each place of the
  boot. `PassMeansReady` needs that an `up` that worked left no service without a
  container, because the verdict looks only at the services that were listed.
- `DocumentTells`: row `i` of the document tells of stage `i`, and only the last row can
  be an exception. The document is one stage behind while an `up` runs and until the
  listing after it: the code records the result of `up` together with that listing.
  `Pending` is that stage; without it the lengths cannot be compared.
- `JourneyKnows`: the answers filed are one for each step counted, each good for its
  step (`AllGood`), and the token is that of the last capture before the running step
  (`TokenOfLast`). The redirects are a finite set of addresses, counted by cardinality.
- `TodoOrdered`, `LedgerPaired`, `AuditLast`, `SnapshotAccounted`: the operations left
  and the rows written, against each other. Each container that was inspected has its
  last operation in the ledger or still to come (`Accounted`), so that an empty rest
  leaves the ledger whole; and the audit ends the rest, so that only a returned
  observation has it.
- `TrialKnows`, `Earned`: which verdicts the phase implies, and what a record was
  decided from.

`LoggedGoes` and `LoggedTells` are the lemmas about `Boot!Logged` that every stage of
the boot uses.

A boot, a journey and an observation have no common measure, so `TrialGetsOn` orders
what is `Ahead` of a trial lexicographically: phases, then parts (stages of the boot,
journeys, listings), then steps (of a journey, operations), then moves (redirects, rows
of an operation). `NearerIsWellFounded` shows that this order has no infinite descent.

The eight theorems about getting on say, for every value of the constants, what the
liveness properties rest on: something decreases at every step that fairness makes
happen, and nothing makes it grow but what is counted or asked for (an invocation that
resumes, a session or a job that begins). That such a step is possible until the end is
reached, and so the property itself, is what TLC checks.

Model-checked only:

- liveness: `EverySessionEnds`, `Ends`, `InvocationsEnd`, `JobsEnd`, `InvocationEnds`
  (of two modules), `PinEnds`, `TrialEnds`. The measure that decreases is proved for each
  of them; the step from there to the property needs a rule for fairness and `ENABLED`,
  which tlapm has not. The abstract specifications state no fairness, so their
  refinements are proved whole;
- the three violations, which are counterexamples.

## 6. What the models leave out

- The daemon answers truthfully: when it lists no sandbox of that exact name, the
  sandbox is gone. Failures of the provider other than its own error and a cancellation
  (a bug that raises `TypeError`) are not modelled.
- `Teardown` assumes the program runs under `asyncio.run`, as `cli.py` does. A partly
  written audit line is an audit failure.
- Files of a run that somebody else changes, in `RunGraph` (in `GuestInputs` others do
  edit the workspace). The checks of the code against it are there as guards
  (`AcceptedMismatch`, `ParentMismatch`), and `DiskMatchesState`, a part of
  `DiskIsReplayable`, says that the program itself never trips them.
- A kill between the compatibility overlay and its checkpoint leaves a run that stops
  with `compatibility:artifact_path_exists` when resumed; a kill between an attempt
  directory and its marker, or within the write of an accepted Compose file, leaves one
  that cannot be resumed. The model has these behaviours: they are safe, and no property
  claims that a resumed run always gets further. A partly written cumulative overlay
  costs the run its provenance.
- Resumption is internal (`aresume_run`); no command exposes it.
- The overlay of an experiment is written in the step that opens its session. A failed
  write of an accepted file is an interruption before it.
- `RunRegistry` has one service process. Reading a run, health, content negotiation and
  refused requests change nothing and are left out. Two observed behaviours that its
  properties allow: when the answer of the final UPDATE is lost, a row may say COMPLETED
  though the client was told `internal_error`; a cancellation of the last handler's
  UPDATE can leave a row RUNNING until the next start. Tests accept the best effort of
  the latter (`tests/unit/api/test_app.py:694`).
- `LocalConsole`: uvicorn answers the requests in flight before it ends the lifespan, so
  a shutdown does not run beside a doctor's check. A second Ctrl-C, which makes uvicorn
  give up that wait, is a `Kill`. The handlers of one request are not cancelled. Model
  settings are read, not written, by a submit. Why a job failed and the failure report
  that `inspect` renders are not modelled; neither decides `completed`.
- `RuntimeTemplate`: the arithmetic of deadlines; a command that runs out of time is one
  that failed. Names, tags and the private directory of the bundle are one of each.
- `RepositoryCache`: a store that is killed leaves its temporary entry, which counts
  against the limit of entries for ever, because nothing in the code removes it. The
  model has this; it is safe, and no property claims that a store is always possible.
  The size budget is a choice.
- `GuestInputs`: the parsing of `.env.sample` (`unusable` stands for every refusal) and
  the script of the adapter. The halves of claiming a slot are in `RunGraph`.
- `WorkloadTrial`: one journey at a time on one port; the Playwright runner drives an
  external browser. The text of Compose files, of `docker` output and of answers is
  abstracted to what decisions read.
- The components with status `not_modelled` in `PROJECT.json`, each with its reason
  there.

## 7. Plan

Done, in the order of what it protects:

1. `SandboxOwnership`, `SandboxLifecycle` and proofs: removal of sandboxes.
2. `HardeningPolicy`, `HardeningLoop` and proofs: the decisions.
3. `RunGraph` and proofs: checkpoints, resumption, and the refinement of the loop.
4. `RunRegistry` and proofs: the service.
5. `LocalConsole` and proofs: the console and the process of a job.
6. `TemplateCustody`, `RuntimeTemplate` and proofs: what outlives a sandbox.
7. `RepositoryCache`, `GuestInputs` and proofs: what a trial starts from.
8. `ComposeBoot`, `HttpJourney`, `Observation`, composed in `WorkloadTrial`, and proofs.

Left:

- An abstract specification of a trial (a boot, its journeys, an observation and one
  verdict), which `WorkloadTrial` should implement as `RunGraph` does `HardeningLoop`.
- `SandboxLifecycle` and `RuntimeTemplate` in one module, `TrialInvocation`, in the
  order of `cli.py`: today each has the other as a flag (`unclean`, `warm`).
- Pure algorithms against a reference definition: port normalisation of
  `compose/compatibility.py`, the deadlines of the provider (`_effective_timeout`), the
  boot-recovery bounds.
- The settings file's atomic replacement.
