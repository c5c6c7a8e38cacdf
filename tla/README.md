# A verification project for Checkbox

Checkbox runs suites of hardware tests. `checkbox-ng/plainbox` is the engine
(sessions, jobs, dependencies, results, checkpoints); `checkbox-ng/checkbox_ng`
holds the programs that drive it: a local launcher, and a remote pair of an
agent (on the device under test) and a controller. This directory holds TLA+
modules of the parts whose correctness depends on the order of many steps, the
TLC configurations that check them, and proofs of their main properties.

Paths below are relative to `checkbox-ng/` unless they start with another
directory.

## 1. Inventory

| Part | State | Operations | What is hard | What makes it correct |
|---|---|---|---|---|
| Job state and readiness: `plainbox/impl/ctrl.py`, `session/jobs.py`, `session/state.py`, `resource.py` | per job: result, history, attempts, readiness inhibitors; the run list; the resource map | `update_desired_job_list`, `update_job_result`, `_recompute_job_readiness`, `get_inhibitor_list`, `can_start` | readiness is cached: it is as old as the last result or selection | a job that can start has what it needs |
| Running and rearming: `session/assistant.py` | the session above, the allowed calls, session metadata | `run_job`, `use_job_result`, `get_rerun_candidates`, `prepare_rerun_candidates`, `finish_bootstrap`, `use_alternate_selection`, `finalize_session` | rearming resets results under cached readiness; attempts are spent by several loops | failed jobs are retried, within the budget, in an order that lets them run; a pass is final |
| Drivers: `launcher/subcommands.py`, `launcher/stages.py`, `launcher/controller.py` | the loop in progress, the list it iterates over | bootstrap, selection, main pass, re-run screen, automatic retry, export | the same session calls in different orders, locally and remotely | the loops end and leave every job with an outcome |
| Checkpoint storage: `session/storage.py`, `session/manager.py` | `session` and `session.next` in the session directory | `save_checkpoint`, `break_lock`, `checkpoint`, `load_checkpoint` | tests reboot the machine; system calls fail; two threads of the agent | a load finds a whole checkpoint, not older than one that was acknowledged |
| Suspend and resume: `session/suspend.py`, `session/resume.py` | the serialised session | `suspend`, `resume` | not all state is saved (attempts are not) | a resumed session continues the interrupted one |
| Remote session assistant: `session/remote_assistant.py` | state of the agent, running job, `BackgroundExecutor`, `session_change_lock` | `start_session`, `run_job` (a generator), `monitor_job`, `finish_job`, `rerun_job`, `remember_users_response`, `resume_by_id`, `finalize_session` | calls of two controllers, a thread, and a lock that anyone may release | one job at a time, its result used once |
| Agent service: `launcher/agent.py` | the controlling connection and its blaster | `on_connect`, `on_disconnect`, `register_controller_blaster` | the old connection ends after the new one has started | one controller at a time |
| Dependency solver: `plainbox/impl/depmgr.py` | colours of the visited jobs | `resolve_dependencies` | cycles, missing and duplicate jobs | an order that respects every dependency |
| Usage expectations: `plainbox/impl/developer.py`, `session/assistant.py` | the set of allowed calls | `enforce`, and the assignments in every method | long legal sequences | no legal client is refused |
| Restart strategies: `session/restart.py` | files and units of the operating system | `prime_application_restart`, `diffuse_application_restart` | pure I/O | - |
| Runner: `runner.py`, `execution.py` | a subprocess and its output | `run_job`, `send_signal` | subprocesses | - |
| Units, templates, resource language, configuration, exporters, transports, terminal UI | mostly immutable data | parsing, evaluation, rendering | data conversion | covered by unit tests |
| `checkbox-support`, `providers`, `metabox`, snaps, vendored `rpyc` | - | test scripts, test infrastructure, packaging, third-party code | - | - |

How they interact. A driver calls the session assistant (locally by method
call, remotely by RPC through the remote session assistant, which runs
`run_job` in a `BackgroundExecutor` thread). The session assistant asks the
runner to execute a command, feeds the result to `SessionState`, whose
controller recomputes readiness, and asks the session manager for a
checkpoint at the start and the end of a job, on every result, and when the
session is bootstrapped or finalized. A later process loads the checkpoint and
replays it into a new session.

The hazards that follow are listed with their lines in `PROJECT.json`.

## 2. Plan

Done:

1. `JobSession` + `TestRun` + `MCTestRun`: the job state and the loops of both
   drivers; `TestRunProofs`, `TestRunOutcomeProofs`.
2. `CheckpointRegister` (what checkpoints promise) and `CheckpointStorage`
   (how the files keep it); `CheckpointStorageProofs`.
3. `RemoteSession` + `MCRemoteSession`: agent, executor thread, controller,
   allowed calls, lost connections, crashes and resumes; `RemoteSessionProofs`,
   `RemoteResultsProofs`.
4. `DependencySolver` + `MCDependencySolver`: the search and the loop around
   it, against the closure and the orders `JobSession` takes for granted;
   `DependencySolverProofs`, `DependencyErrorProofs`.

Left: `TestRun` with kills and resumes, for what becomes of the budget of
attempts; several controllers at once, with the blaster of `agent.py`; the
retry of an upload; `salvages` and `fail-on-resource` jobs in larger plans.

## 3. The job session and the test run

### Modules

`JobSession` is the state of one session. `TestRun` EXTENDS it with the driver.

| Code | Model |
|---|---|
| `job_state_map[j].result.outcome` | `outcome[j]`; `None` of a hollow result is `"none"` |
| `readiness_inhibitor_list` | `inhibitors[j]`, a set of <<cause, job>> |
| `attempts`, set by `finish_bootstrap` of the remote assistant or by the local launcher | `attempts[j]` |
| `SessionState.resource_map` with the expressions evaluated on it | `resource_map[j]`: absent, match or nomatch |
| `run_list`, and the lists returned by `get_dynamic_todo_list` and `prepare_rerun_candidates` that a driver iterates over | `run_list`, `todo` |
| the builder between `run_job` and `use_job_result` | `pending` |
| which loop of `Launcher.invoked` or `RemoteController.run_jobs` runs | `phase` |

The actions of `TestRun` are the steps of a driver: `finish_bootstrap`,
`use_alternate_selection`, `StartJob` (which is `run_job`, including the
outcome it gives to a job that cannot start), `CompleteJob`, `SkipJob`,
`RerunJob` (the user answers "re-run" to the verification), the two rerun
loops (`maybe_manual_rerun_jobs`, `maybe_auto_rerun_jobs`), and the steps that
leave a loop. `config` tells the two drivers apart: the local launcher has
either the re-run screen or the automatic loop, the controller one after the
other; the local screen returns a set in any order, the controller keeps the
order of the run list; they set the attempts at different times.

`update_job_result` recomputes the readiness of every job; so does a new
selection; `prepare_rerun_candidates` does not, which is where the difficulty
of this component lies.

Abstractions. Job ids are numbers, because the code sorts them. A plan gives
the relations between jobs; TLC takes it from a set of plans, the proofs take
any. All required expressions of a job on one resource job are one expression.
Commands end in `CommandOutcomes`. The plugin of a job is two flags: `manual`
(it waits for the user before it starts) and `verify` (its outcome is left open
for the user). So user-interact is manual only, user-interact-verify and manual
are both, and user-verify is verified only; `AskedAbout` says when the user is
asked. Verbatim comments, durations and logs are
left out. Not modelled: suspend jobs and the inhibitors and siblings they
bring, templates, mandatory jobs, unmet manifest entries, comments that
blocker jobs ask for, jobs without a command on a remote device, quitting.
`runs` and `verdict` are history variables.

### What is checked

`test_run_safety` takes 143 plans (every acyclic relation of three jobs by
`depends` and `after`, the `depends` plans with a no-retry job, chains with
manual and user-verify jobs, plans with a resource job in or outside the
bootstrap, with and without `fail-on-resource`) and all six configurations: 292,383 states.

- `StartRequirementsMet`: a command runs only when what its job depends on has
  passed and what it requires matches. Readiness may be stale, so this is not
  what `can_start` says.
- `PassedJobStaysPassed`: no loop takes back a pass.
- `RunsWithinBudget`: in auto-retry mode no command is executed more often
  than `max_attempts`. Jobs of the bootstrap are exempt: they run before their
  attempts are set, and are run again by a rearm.
- `EveryJobAccountedFor`: at the end no job of the run list is without an
  outcome, even if the user asked to run it again and it had no attempt left,
  and the only undecided ones are those nobody is asked about (`Unasked`):
  user-verify jobs of a silent launcher or of a remote session, and verified
  jobs that the bootstrap runs. These do end undecided: the runner leaves their
  outcome open (execution.py:145-149), a silent launcher runs a user-verify job
  without asking anyone (stages.py:110-122, 191-194), the controller and the
  remote assistant do not know the kind, and the open outcome is recorded. This
  is a divergence from docs/reference/job-status.rst:6-7: "A Checkbox job always
  receives a final status either automatically or manually."
- `Inv`: the inductive invariant of the proofs. `TypeOK`: types.

`test_run_retry` takes every plan of three jobs related by `depends`, with and
without a no-retry job, chains with a user-verify job, and the three
configurations in which one rerun loop runs, with three attempts: 107,961 states.

- `Terminates`: the loops end.
- `FailedJobIsRetried`: a job that failed in the main pass is executed again.
- `FailureNotMasked`: a job whose last execution failed is not reported as not
  supported.
- `NoRetryRespected`: the automatic loop does not execute a failed job with
  `auto-retry=no`, unless another job depends on it. That exception is a
  divergence of its own: docs/how-to/launcher/auto-retry.rst:61-62 knows none,
  but when a dependent job is retried, `prepare_rerun_candidates` adds its
  failed dependencies without looking at `auto-retry`.

Two runs show where the code does something else than its documentation says
(`findings` in `PROJECT.json`):

- `failure_masked`: a rerun puts failed dependencies first, also ahead of jobs
  they are to run after, and does not recompute readiness, so a job may run
  while the job named in its `after` has no outcome, and a failed job may be
  found not ready in the retry: it becomes not-supported instead of being
  executed, and is no longer counted as a failure.
- `overdraft`: the controller offers the re-run screen in auto-retry mode too;
  it can spend more attempts than there are, and the automatic loop, which
  stops at exactly zero attempts, then never ends. The model counts down to
  `-Overdraft` and stays there: any negative number acts alike.

Bounds. Three jobs are the least with a dependency and an order that
interact, or a chain in which a failure is passed on; four are needed for
`failure_masked`. Two attempts let a job fail, be retried and be exhausted;
three let it be retried twice. `ManualRounds` and `UserReruns` bound what a
user may ask for without end; one or two suffice to spend an attempt the
automatic loop counts on.

Fairness. `FairSpec` adds `WF_vars(Next)`: the driver is one thread, which
takes its next step whenever it has one. What it waits for (a command, an
answer, the delay before a retry) is assumed to end.

### What is proved

`TestRunProofs` proves, for all finite sets of jobs, all well-formed plans,
configurations, attempts and bounds:
`Invariance` (`Spec => []Inv`), `TypeCorrect`, `RequirementsMet`
(`StartRequirementsMet`), `BudgetKept` (`RunsWithinBudget`) and `PassesKept`
(`PassedJobStaysPassed`).

None of the properties is inductive, because `inhibitors` may be stale. The
core of `Inv` is `ReadyMeansMet`: a job without inhibitors has its requirements
met *now*. Recomputing establishes it (`ReadinessSound`). Rearming keeps it,
although it recomputes nothing, because it resets no pass: candidates have not
passed, and neither has a dependency that inhibits (`FailedDepHasNotPassed`).
`TodoNotPassed` (the rest of the list holds every job once, and none that has
passed) then gives that no result overwrites a pass. `SpentWithinBudget` says
that executions and attempts left add up to no more than the maximum, with one
attempt still to be spent while the command runs.

Assumptions: the named ASSUMEs of `JobSession` and `TestRun` (job ids are a
finite set of positive numbers, plans are well-formed, maximum and bounds are
numbers).

`TestRunOutcomeProofs` is about what a finished run has decided. `Accounted` is
what `EveryJobAccountedFor` needs (`JobsAccountedFor`): a result that is open
belongs to a job that is still in the list, or that nobody is asked about.

`FailuresNotMasked` proves `FailureNotMasked` under the hypothesis `PlainRun`:
jobs are related by `depends` only, and in auto-retry mode there are no re-run
screen, no manual jobs and no bootstrap jobs. Without it the property is
false, in two ways. A job related by `after`, `requires` or `salvages` may be
unready when it is retried (`failure_masked`). And a job that was executed
before the budget was given out, or again at the user's wish, has fewer
attempts left than a job that depends on it: that one drags it into one retry
more than it can take, where it has no attempt and is not supported. The
argument, `MaskInv`: a job is executed only when its dependencies have passed,
they stay passed, and so it stays ready (`RanIsReady`); and a job that has not
passed has at least as many attempts as every job that may drag it along
(`AttemptsLeft`), which all those rearmed together keep. `NoOverdraft` (no
attempt is overdrawn) follows from the same invariant, so that in such a run
the loop that stops at exactly zero sees zero; `overdraft` is the
counterexample when the re-run screen is shown as well.

`NoRetryKept` proves `NoRetryRespected`: a job that depends on it is the only
way a job with `auto-retry=no` gets into an automatic retry.

Liveness (`Terminates`, `FailedJobIsRetried`) and the order of lists are only
model-checked.

## 4. Checkpoints

`CheckpointStorage` takes `SessionManager.checkpoint` and
`SessionStorage.save_checkpoint` apart into system calls: open with O_EXCL
(`OpenNext`), write, fsync, rename, fsync of the directory, and the unlinks of
the error paths. Every call of `checkpoint()` saves a version of its own; the
version also names the file the call creates, so that renaming a file another
thread has created is visible. `entries` is the directory, `lingering` the
directories a power loss may still bring back, `content` and `synced` describe
the files. `Kill` ends the process at any point; `PowerLoss` also takes back
what was not flushed.

Assumptions about the system: rename is atomic; a file that was not flushed
may be found empty, in part or whole; directory changes that were not flushed
may each be undone, from the last on.

`CheckpointRegister` is the promise: a register whose writes are atomic, which
loses no acknowledged version. `Register` instantiates it on the state of
`CheckpointStorage`: a load returns the stored version.

- `storage_single` (one writer, whose writes and renames may fail; 40,376
  states): `ImplementsRegister`; `AcknowledgedSurvives` (a version whose
  `checkpoint()` returned with none of its system calls failed is found by
  every later load, whatever fails or stops afterwards); `NeverTorn` (a load
  never finds a part of a checkpoint); `RaisesOnlyOnFault` (the file a killed
  process left behind stops no later checkpoint); `FailedWriteRaises` (after a
  failed write `checkpoint()` never returns normally: it goes on to a rename,
  which fails, and to an unlink, which raises); and the inductive invariant
  `SingleWriterInv`, which includes the types.
- `storage_unreported`: the docstring of `save_checkpoint` promises more than
  `FailedWriteRaises`, namely an error for any problem with the file system
  (`FailureIsReported`). A failed rename breaks it: it is logged, and the call
  returns. A failed flush, of the file or of the directory, does the same.
- `storage_two_writers`: with two threads `NeverTorn` fails. `checkpoint()`
  takes every LockedStorageError for a leftover and unlinks the file a live
  thread is writing; that thread then renames the empty file of the other one.
  The agent has two such threads (see the finding).

Bounds: four versions and three crashes let a crash happen during a
checkpoint, in the recovery of what it left, and again afterwards. Two writers
with one version each suffice for the violation. Deadlock is checked; `Done`
is the state in which the bound on versions is used up.

`CheckpointStorageProofs` proves for one writer and every number of versions
and crashes:

- whatever system calls fail: `LeftoversHarmless` (`RaisesOnlyOnFault`) and
  `FailedWritesReported` (`FailedWriteRaises`), from `FailingWriterHolds`
  (`FailingWriterInv`): where the writer is tells whose file `session.next` is
  and whether it is whole;
- when flushes work, whatever write or rename fails: `SingleWriterHolds`
  (`SingleWriterInv`), `WholeCheckpoints` (`NeverTorn`), `AcknowledgedDurable`
  (`AcknowledgedSurvives`) and `Implementation` (`ImplementsRegister`).

`SingleWriterInv` says that what `session` names, now or after a power loss, is
flushed and between the acknowledged version and the present one
(`SessionFlushed`), and what `session.next` names at each step of the writer
(`WriterHolds`). A version counts as acknowledged only if no system call of its
`checkpoint()` failed, because the code logs a failed rename or flush and
returns as if the state was saved (`storage_unreported`). A failed flush also
breaks what was acknowledged: the next rename may publish a file that a power
loss leaves in part, hence the hypothesis; and `storage_two_writers` is the
counterexample for two writers.

There is no liveness property: every step of the writer is a system call that
returns, and nothing is waited for.

## 5. The remote session

`RemoteSession` is one agent and one controller. The agent is
`RemoteSessionAssistant` (`state`, `current`, `response`), its
`BackgroundExecutor` (`be`) with `session_change_lock` (`lock`), the calls its
`SessionAssistant` accepts (`allowed`), the outcomes it has loaded (`outcome`)
and checkpointed (`disk`), and the file `__result` a job may write before it
reboots the machine (`result`). The controller is where it stands in its
dialogue (`pc`) and the rest of the list it iterates over (`todo`).

A job is of one of six kinds: shell, shell with the flag noreturn, manual
(without a command), user-interact, user-interact-verify and user-verify. A
manual job with a command goes through `run_job` and the dialogue as a
user-interact-verify job does and is represented by that kind; noreturn is
looked at on shell jobs only. Any job may also have the flag autorestart, whose
outcome `resume_session` decides and checkpoints as it loads the session
(`OutcomesLoaded`). A user-verify job is run like a shell job: the lists of
plugins in `remote_assistant.py` leave it out, nobody is asked about it, and
its open outcome is recorded (`EndsOpen`).

One handler of the agent is one step, together with what the controller does
until its next call. `Rpc` is a call: it needs one of the states the handler is
decorated with (`allowed_when`) and the calls of the session assistant it goes
on to make; otherwise the call fails and with it the controller. The executor
thread ends in a step of its own. A controller that connects dispatches on
the agent's state (`Dispatch`): it rolls back an interaction, rejoins a running
job, selects, runs on, restarts a bootstrap, or, when the agent is idle, peeks
into the last session to see whether to resume it.

Faults, at most `MaxFaults`: `Lose` (the connection is lost, or another
controller takes over, which closes it), `Quit` (at a prompt, to resume
later), `Abandon`, `KillCommand`, and `AgentCrash`, which is also the reboot of
a job without return. A crashed agent comes back idle, or, with a silent
launcher, resumes at once.

### Moments at which a fault is not handled

The code does not cope with a fault at every moment. Each such moment has a
name (`WindowNames`, `Moment`); `remote_session`, and the proofs, exclude faults
at these, and only these, moments. Opening a window in a configuration shows
what it costs.

| Window | Moment | What goes wrong |
|---|---|---|
| `answered` | the user has answered, the generator of `run_job` has not gone on | the state is Running without an executor of this job; the next controller waits for it, and `finish_job` takes the result of the job before, or passes the job (finding `remote_pass_not_earned`). For a job the user verifies, `finish_job` returns nothing and the controller fails on it |
| `executing` | the command of a job the user is to verify still runs | the next controller rolls back, which gives the lock back without waiting: a second command is started beside the first (finding `remote_overlap`). When the first one ends, it takes `run_job` from the allowed calls under whatever runs then. If that is another job, its thread dies without a result, which `finish_job` takes for a pass |
| `verifying` | that command has ended, the user is asked | the job is rolled back and run again, but `run_job` is not among the allowed calls until a result was used: the executor thread dies, the controller fails |
| `asked` | an undecided result was fed back to run a job again | the job has an outcome and is never run again: it is reported undecided |
| `prepared` | test plan selected, list of bootstrap jobs not yet taken | the next controller restarts the session, and `finalize_session` is refused, for good |
| `peeked` | the controller has bootstrapped the session it peeks into | `get_resumable_sessions` is refused |
| `resuming` | the resume menu has loaded a session | the next controller ends it, or is refused |
| `unstarted` | the last session has no running job and no `__result` | resuming looks up a job named None |
| `leftover` | `__result` is there although its job has been decided | it decides the job that was running last |
| `noted` | a job without return was noted as running but has not started; or, with a silent launcher, a job that is no shell job was noted, also while its command runs | the resume passes it |
| `autorestarted` | a job with the flag autorestart has its outcome, and is still the one noted as running | loading the session decides it again, and passes or fails it by its flags |
| `abandoning` | abandoning while `finalize_session` is not allowed | the call is refused |

In four of them the code contradicts a document or a comment: besides the two
findings, docs/explanation/remote.rst:106-108 and :150 describe `noted` and
`verifying` otherwise.

### What is checked

`remote_session` takes two jobs: of every pair of kinds in attended sessions
with a bootstrap job, the second one able to start or not; and of every pair of
the kinds without a dialogue (shell, shell without return, user-verify),
attended or silent, with and without a bootstrap job, the first one with or
without autorestart. Two faults and one repetition: 674,558 states.

- `PassIsEarned`: a job is passed only because its command ended well, rebooted
  the machine as meant, or the user passed it.
- `NoCallRefused`: states, allowed calls and dialogue agree.
- `ExecutorSlotFree`: a job is never started while the lock is held, so that
  the agent cannot block, nor while a command runs.
- `AllJobsReported`: a reported session has no open job, and no undecided one
  but of the kind user-verify.
- `LoadedIsCheckpointed`: what a reconnected controller works on is what a
  crash would bring back.
- `ResultsKept`: no reconnection, rollback or restart changes an outcome that
  was checkpointed; the verdict a job without return left in `__result` before
  it rebooted replaces the one `resume_session` gave it for its autorestart.
- `SessionKept`: a resumable session is ended only by being reported or by the
  user.
- `Completes`: the session is reported in the end.

Two runs open one window each, and find a statement of the repository violated:
`remote_pass_not_earned` (`answered`; `PassIsEarned`) and `remote_overlap`
(`executing`; `OneCommandAtATime`: two commands of a session never run at
once). With `executing` open `PassIsEarned` is violated as well, in the way the
table says.

`remote_restarted` opens `executing` and `verifying`, and looks at what holds
even so: in sessions with a user-interact-verify job, with two faults, also at
these moments, `LoadedIsCheckpointed`, `ResultsKept` and `SessionKept` (374,886
states). What is lost there is the run of a job, not a result that was recorded.

Bounds. Two jobs suffice for the executor and the response of one job to meet
the next, and the executor left behind by one to meet that of the other. Two
faults let a second one hit the recovery from the first.

Fairness. `WF_vars(Controller)`: the controller is a loop that goes on,
reconnects (`connect_and_run` retries for ever), and is assumed to be started
again when it ended on an error; its user answers. `WF_vars(Executor)`: a
command ends. Faults are not fair, and bounded.

Abstractions. Only the most recent session is on the disk; automatic retry,
deleting a session in the resume menu, comments, and the input of jobs are left
out; several prompts of a job are one; the verdict of the user who resumes is
one of the three the dialog gives, or to run the job again.

### What is proved

`RemoteSessionProofs` proves, for every list of jobs, all sessions, and any
number of faults and repetitions, `TypeOK`, `NoCallRefused`,
`ExecutorSlotFree`, `AllJobsReported`, `LoadedIsCheckpointed`, `PassIsEarned`
and `SessionKept`, under the assumption `NoWindows` (`Windows = {}`): a fault
strikes at any moment but those of the table above. What is excluded with them
are the cases of that table, two of which the violation runs show: so `SlotIsFree` is about every
reconnection but the one while the command of a verified job runs, after which
`ExecutorSlotFree` is false of the code. `AllReported` excludes undecided
outcomes for every kind but user-verify, where they are what the code gives.
None of these is inductive: the
place of the controller, the state of the remote assistant, the calls the
session assistant accepts and what the executor holds are four records of one
thing, kept in four places, and a reconnection trusts them to agree.
`RemoteInv` says how, in nine parts:

- `StatesAgree` and `CallsAgree`: where the controller is determines the state
  of the agent, and both determine which calls are accepted;
- `RunExpected`: `run_job` is accepted wherever an executor may be started, and
  `use_job_result` wherever a result is waited for (a wait ends in `finish_job`);
- `ExecutorAgrees`: the lock is held only in the states that have an executor,
  and a living executor runs the current job, which is the one checkpointed as
  running;
- `JobAgrees` and `ListAgrees`: the job whose turn it is, and what the rest of
  the list says of the outcomes;
- `DiskAgrees`, `PassesEarned`, `FileAgrees`: what is on the disk when a crash
  or a lost connection lets the session be resumed, and that neither the
  outcome nor the file `__result` can pass a job that did not earn it.

There is one lemma per handler and per fault, with one step for each part of
the invariant. `LossCoped`, `CrashCoped` and `AbandonCoped` say what
`NoWindows` gives to the faults.

`RemoteResultsProofs` adds `ResultsKept` (`ResultsAreKept`), under the same
assumption. A job is executed once because the list is made of the jobs
without an outcome, so the invariant `FirstRun` follows that from the list to
the file: as long as nobody asked to run a job again, an outcome that is not
loaded is not checkpointed either, the job whose turn it is and the job that
is running have none, and `__result` holds the verdict of a job that has none
or the same one. `LoadingFirstRun` says that loading a session
with an autorestart job replaces nothing.

Only `Completes` is left to TLC.

## 6. The dependency solver

`DependencySolver` takes `DependencySolver._solve` and `_visit` apart into the
jobs entered, dependencies looked at and jobs left, with the recursion as an
explicit `trail`, inside the loop of `update_desired_job_list`, which drops the
affected job of an error and starts a new solver. Dependencies are a Python
set of strings, whose order differs from process to process (the comment at
depmgr.py:326-327 about repeatable results holds within one): `VisitDependencies` takes them in
any order. A resume desires the mandatory jobs and the kept list again.

Left out: duplicate job ids, which `SessionState` refuses when units are
added; the kinds of dependencies, which only word the error.

`dependency_solver` takes every graph of three jobs over four ids, one of them
unknown, the graphs with a suspend job (also with jobs that are broken,
mandatory and flagged at once), and five selections, resolved twice: 982,383
states.

- `RunListOrdered`, `RunListIsClosure`: the run list is the closure of the
  desired jobs that are left (defined as the least closed set), each job once
  and behind what it needs.
- `DroppedIsBroken`: a job is dropped only if what it needs is missing or
  cyclic, whatever else was dropped before it.
- `CycleIsReal`: the loop in a cycle error is one.
- `ResumedListKept`: a resumed session has the run list of the suspended one,
  with two exceptions. A mandatory job that had been dropped is desired again,
  and comes back if it is sound by itself. And if it is flagged, the suspend
  job depends on it again and may now be dropped for it (`FlaggedKept`).
- `SuspendRespected`: a flagged job that is desired runs before the suspend
  job. docs/reference/units/job.rst:318-321 guarantees it of every flagged job,
  and the code does not: the suspend job depends on the flagged jobs of the
  desired list only, so one that is merely needed by a desired job may run
  after it. (Desired: 3, the suspend job, and 2, which depends on 1, which is
  flagged; the list is 3, 1, 2.)
- `Terminates`, under weak fairness of the search, which is one thread.

Bounds. Three jobs make every cycle of one, two and three, a diamond without
its join, and a missing dependency at each of their places.

`DependencySolverProofs` proves `TypeOK`, `RunListOrdered` and
`RunListIsClosure` for every set of jobs, graph, selection and number of
resumes. The invariant is that of a depth-first search: black jobs are those
of the solution, which is ordered; gray jobs are those of the trail, each once;
of a job on the trail every dependency no longer in `left` is black or next on
the trail (`TrailDone`); everything visited is needed (`OnlyNeeded`).
`DesiredRunBeforeSuspend` (`SuspendRespected`) follows from the order.

`DependencyErrorProofs` proves `DroppedIsBroken`, `CycleIsReal` and
`ResumedListKept` for the same instances. They compare a search with what was
asked for before jobs were dropped, so `DropInv` relates the two: what is not
known any more is broken in the graph that was asked for (`LeftOfAsked`);
neighbours on the trail are linked, so that a gray job met again closes a loop
(`TrailLinked`); and the old run list is still an order of what is asked for
again (`BeforeOrdered`) in which every job on the trail stands behind those it
needs (`TrailBack`), so that no cycle can be found on it. The second exception
of `ResumedListKept` was found by this proof: dropping a flagged mandatory job
and resuming changes the dependencies of the suspend job.

Only termination is left to TLC.

## 7. Mutants

Next to a definition stand variants of it marked "Mutant": the same operation
with a plausible mistake. They are used by no specification. `PROJECT.json`
pairs each checked property with a mutant that violates it.

## 8. Not modelled

Most of the repository's lines are not part of a system whose steps interact:
`providers` and `checkbox-support` (about half of it) are independent test
scripts and parsers of the output of tools; `provider_manager.py`,
`secure/providers`, units, exporters, configuration and the terminal UI convert
or show data, without state that a later step depends on; `metabox`, snaps and
`vendor` are test infrastructure, packaging and third-party code. A model of
them would restate each script. What is modelled is the core they are run by.

## 9. Running

    tlc -config MCTestRun_safety.cfg MCTestRun
    tlc -config CheckpointStorage_single.cfg CheckpointStorage
    tlc -config MCRemoteSession_remote.cfg MCRemoteSession
    tlc -config MCDependencySolver_all.cfg MCDependencySolver
    tlapm TestRunProofs.tla
    tlapm TestRunOutcomeProofs.tla
    tlapm CheckpointStorageProofs.tla
    tlapm DependencySolverProofs.tla
    tlapm DependencyErrorProofs.tla
    tlapm RemoteSessionProofs.tla
    tlapm RemoteResultsProofs.tla

Only TLC checks liveness and ENABLED: the proof system has no means for them.
Most proof modules take one to three minutes, `RemoteSessionProofs` three to
five.
