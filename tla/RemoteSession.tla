---------------------------- MODULE RemoteSession ----------------------------
(***************************************************************************)
(* A session run by an agent for a controller: the states and handlers of  *)
(* the remote assistant, the calls the session assistant accepts in each   *)
(* of them, the executor thread that runs a job in the background, and the *)
(* dialogue a controller follows.  The controller may be lost between any  *)
(* two calls, and the agent may die at any moment and resume.              *)
(*                                                                         *)
(*   session/remote_assistant.py   RemoteSessionAssistant,                 *)
(*                                 BackgroundExecutor                      *)
(*   session/assistant.py          SessionAssistant, allowed calls         *)
(*   launcher/controller.py        RemoteController                        *)
(*   launcher/agent.py             RemoteAgent                             *)
(*                                                                         *)
(* One handler is one step.  A new connection closes the one before it, so *)
(* one controller is enough: being replaced is being lost.                 *)
(***************************************************************************)
EXTENDS Integers, FiniteSetsExt

CONSTANTS
  Jobs,         \* ids of the jobs of the test plan, in the order of the list
  Setups,       \* the sessions looked at, records of SetupType
  Windows,      \* the moments of WindowNames at which a fault may strike
  MaxFaults,    \* bound: faults and answers that interrupt the session
  MaxAsks       \* bound: jobs run again because the user asked for it

(* "noreturn" is a shell job with that flag.  "manual" is a manual job     *)
(* without a command; one with a command takes the same way through        *)
(* run_job and the dialogue as "user-interact-verify".                     *)
Kinds == {"shell", "noreturn", "manual", "user-interact", "user-interact-verify",
          "user-verify"}

(* blocked: jobs that cannot start; autorestart: jobs with that flag;      *)
(* boot: is there a bootstrap job; silent: is the launcher's ui type       *)
(* "silent".                                                               *)
SetupType == [kind : [Jobs -> Kinds], blocked : SUBSET Jobs, autorestart : SUBSET Jobs,
              boot : BOOLEAN, silent : BOOLEAN]

WindowNames == {"prepared", "answered", "executing", "verifying", "asked", "peeked",
                "resuming", "abandoning", "noted", "leftover", "unstarted",
                "autorestarted"}

NoJob == 0
BootJob == -1

(* Any part of the list that is not empty has a first job.                 *)
ASSUME JobsAssumption ==
  /\ Jobs \subseteq Nat \ {0}
  /\ \A T \in SUBSET Jobs : T # {} => \E j \in T : \A k \in T : j <= k
ASSUME SetupAssumption == Setups \subseteq SetupType
ASSUME BoundAssumption ==
  Windows \subseteq WindowNames /\ MaxFaults \in Nat /\ MaxAsks \in Nat

Outcomes == {"none", "pass", "fail", "crash", "skip", "not-supported", "undecided"}

VARIABLES
  setup,      \* the session and its launcher; never changes
  state,      \* RemoteSessionAssistant._state
  allowed,    \* UsageExpectation.of(sa).allowed_calls
  current,    \* _currently_running_job
  response,   \* _last_response
  be,         \* _be, the BackgroundExecutor, and how many older ones still
              \* run beside it: [job, alive, result, beside]
  lock,       \* is session_change_lock held?
  outcome,    \* job_state_map[j].result.outcome of the loaded session
  disk,       \* the resumable session last checkpointed: [found, running, outcome]
  result,     \* the file __result in the session's share: [by, outcome]
  pc,         \* where the controller is in its dialogue
  todo,       \* what is left of the list _run_jobs iterates over
  faults,     \* interruptions so far
  asks,       \* jobs asked for again so far
  earned,     \* history: jobs that ended well or were passed by the user
  report,     \* history: the outcomes of the session the controller finished
  error       \* history: a call or a thread the agent answered with an error

rsaVars == <<state, allowed, current, response, be, lock, outcome>>
vars == <<setup, state, allowed, current, response, be, lock, outcome, disk,
          result, pc, todo, faults, asks, earned, report, error>>

(* An executor without a result is still running or has died of an error.  *)
NoExecutor == [job |-> NoJob, alive |-> FALSE, result |-> "none", beside |-> 0]
NoOutcomes == [j \in Jobs |-> "none"]
NoSession == [found |-> FALSE, running |-> NoJob, outcome |-> NoOutcomes]
NoFile == [by |-> NoJob, outcome |-> "none"]

JobIds == Jobs \cup {NoJob, BootJob}

ExecutorRecords == [job : JobIds, alive : BOOLEAN, result : Outcomes, beside : Nat]

States == {"idle", "started", "bootstrapping", "bootstrapped", "testsselected",
           "running", "interacting"}

(* Where the controller is when it is not connected, and between calls.    *)
Disconnected == {"out", "quit", "failed", "done"}
Dialogue == {"dispatch", "peek", "peek_resume", "peek_select", "peek_bootstrap",
             "peek_abandon", "auto", "choose", "menu", "menu_resume", "menu_select",
             "menu_bootstrap", "menu_answer", "prepare", "boot_list", "boot_run",
             "boot_wait", "boot_finish", "select", "jobs", "note", "run", "prompt",
             "next", "wait", "verify", "verified", "skip", "rerun", "finish",
             "rejoin", "rollback", "restart"}

(***************************************************************************)
(* The calls a session assistant accepts, by what was done with it last.   *)
(* finalize_session of an assistant that has no session fails later, on    *)
(* the missing metadata: it is not a call that can be made.                *)
(***************************************************************************)
FreshCalls == {"start_new_session", "resume_session", "get_resumable_sessions"}
StartedCalls == {"select_test_plan", "get_resumable_sessions", "finalize_session"}
ResumedCalls == {"select_test_plan", "get_resumable_sessions"}
SelectedCalls == {"bootstrap", "get_bootstrap_todo_list"}
NormalCalls == {"get_job", "run_job", "use_job_result", "get_rerun_candidates",
                "get_dynamic_todo_list", "use_alternate_selection",
                "finish_bootstrap", "get_resumable_sessions", "finalize_session"}
Calls == FreshCalls \cup StartedCalls \cup SelectedCalls \cup NormalCalls

TypeOK ==
  /\ setup \in SetupType
  /\ state \in States
  /\ allowed \subseteq Calls
  /\ current \in JobIds
  /\ response \in {"none", "run", "skip", "verdict"}
  /\ be \in ExecutorRecords
  /\ lock \in BOOLEAN
  /\ outcome \in [Jobs -> Outcomes]
  /\ disk \in [found : BOOLEAN, running : JobIds, outcome : [Jobs -> Outcomes]]
  /\ result \in [by : Jobs \cup {NoJob}, outcome : Outcomes]
  /\ pc \in Disconnected \cup Dialogue
  /\ todo \subseteq Jobs
  /\ faults \in 0..MaxFaults
  /\ asks \in 0..MaxAsks
  /\ earned \subseteq Jobs
  /\ report \in [Jobs -> Outcomes]
  /\ error \in {"none", "call", "executor", "resume"}

Init ==
  /\ setup \in Setups
  /\ state = "idle"
  /\ allowed = FreshCalls
  /\ current = NoJob
  /\ response = "none"
  /\ be = NoExecutor
  /\ lock = FALSE
  /\ outcome = NoOutcomes
  /\ disk = NoSession
  /\ result = NoFile
  /\ pc = "out"
  /\ todo = {}
  /\ faults = 0
  /\ asks = 0
  /\ earned = {}
  /\ report = NoOutcomes
  /\ error = "none"

Job == Min(todo)
Verified(j) == j \in Jobs /\ setup.kind[j] \in {"manual", "user-interact-verify"}
Interactive(j) == setup.kind[j] \in {"manual", "user-interact", "user-interact-verify"}
HasCommand(j) == setup.kind[j] # "manual"

(* The runner leaves the outcome open, for a user to decide.               *)
EndsOpen(j) == j \in Jobs /\ setup.kind[j] \in {"manual", "user-interact-verify", "user-verify"}

(* What most calls leave alone: the controller's and the history, and what *)
(* the remote assistant knows of the job that runs.                        *)
Quiet == UNCHANGED <<setup, result, todo, faults, asks, earned, report>>
SameJob == UNCHANGED <<current, response, be, lock>>

(* A call the agent refuses, or fails to answer, ends the controller.      *)
Fails(why) ==
  /\ error' = why
  /\ pc' = "failed"
  /\ Quiet /\ UNCHANGED <<rsaVars, disk>>

(* The controller makes a remote call: the remote assistant must be in one *)
(* of the states, and the session assistant must accept the calls.         *)
Rpc(at, states, calls, Handler) ==
  /\ pc = at
  /\ IF state \in states /\ calls \subseteq allowed
       THEN Handler
       ELSE Fails("call")

-----------------------------------------------------------------------------
(* What the handlers of the agent share.                                   *)

Forget ==
  /\ current' = NoJob
  /\ response' = "none"
  /\ be' = NoExecutor
  /\ lock' = FALSE
  /\ outcome' = NoOutcomes

(* A new SessionAssistant.  A thread that runs a job of the old one goes   *)
(* on, but nothing looks at it any more.                                   *)
reset_sa == Forget /\ state' = "idle" /\ allowed' = FreshCalls

(* While it bootstraps, a session is not one that can be resumed.          *)
Resumable == "get_job" \in allowed /\ "bootstrap" \notin allowed

finalize_session ==
  /\ reset_sa
  /\ disk' = IF Resumable THEN [disk EXCEPT !.found = FALSE] ELSE disk

get_resumable_sessions ==
  allowed' = IF disk.found THEN allowed \cup {"resume_session"} ELSE allowed

(* A job with the flag autorestart is taken to have ended with the restart *)
(* that the session is resumed after, whatever its outcome was.            *)
RestartOutcome(j) == IF setup.kind[j] = "noreturn" THEN "pass" ELSE "fail"

OutcomesLoaded ==
  IF disk.running \in setup.autorestart
    THEN [disk.outcome EXCEPT ![disk.running] = RestartOutcome(disk.running)]
    ELSE disk.outcome

(* SessionAssistant.resume_session: what was checkpointed is loaded, and   *)
(* the outcome of an autorestart job is checkpointed.                      *)
resume_session ==
  /\ outcome' = OutcomesLoaded
  /\ disk' = [disk EXCEPT !.outcome = OutcomesLoaded]
  /\ allowed' = ResumedCalls

(* Mutant: the result is not checkpointed.                                 *)
UseUnsavedJobResult(j, r) ==
  /\ outcome' = IF j \in Jobs THEN [outcome EXCEPT ![j] = r] ELSE outcome
  /\ allowed' = (allowed \ {"use_job_result"}) \cup {"run_job"}
  /\ UNCHANGED disk

(* Mutant: run_job is not expected again after a result.                   *)
UseLastJobResult(j, r) ==
  /\ outcome' = IF j \in Jobs THEN [outcome EXCEPT ![j] = r] ELSE outcome
  /\ disk' = IF j \in Jobs THEN [disk EXCEPT !.outcome[j] = r] ELSE disk
  /\ allowed' = allowed \ {"use_job_result"}

sa_use_job_result(j, r) ==
  /\ outcome' = IF j \in Jobs THEN [outcome EXCEPT ![j] = r] ELSE outcome
  /\ disk' = IF j \in Jobs THEN [disk EXCEPT !.outcome[j] = r] ELSE disk
  /\ allowed' = (allowed \ {"use_job_result"}) \cup {"run_job"}

(* An executor that is gone, or died of an error, is taken for a pass.     *)
ResultOf(res) ==
  IF res # "none" THEN res ELSE IF be.result # "none" THEN be.result ELSE "pass"

(* Mutant: a state the controller knows of, but the agent does not.        *)
FinalizingAfter(j) ==
  IF state = "bootstrapping" THEN state
    ELSE IF \A k \in Jobs : outcome'[k] # "none" THEN "finalizing" ELSE "testsselected"

StateAfter(j) ==
  IF state = "bootstrapping" THEN state
    ELSE IF \A k \in Jobs : outcome'[k] # "none" THEN "idle" ELSE "testsselected"

(* Mutant: the lock is kept.                                               *)
FinishJobLocked(res, next) ==
  /\ IF Verified(current) /\ res = "none"
       THEN /\ pc' = "failed" /\ error' = "call"
            /\ UNCHANGED <<state, allowed, outcome, disk>>
       ELSE /\ sa_use_job_result(current, ResultOf(res))
            /\ state' = StateAfter(current)
            /\ pc' = next
            /\ UNCHANGED error
  /\ UNCHANGED <<current, response, be, lock>>

(* RemoteSessionAssistant.finish_job, called with a result or "none".  The *)
(* outcome of a job the user verifies is not decided here; the controller, *)
(* which shows the result, then has none to show and fails.                *)
finish_job(res, next) ==
  /\ lock' = FALSE
  /\ IF Verified(current) /\ res = "none"
       THEN /\ pc' = "failed" /\ error' = "call"
            /\ UNCHANGED <<state, allowed, outcome, disk>>
       ELSE /\ sa_use_job_result(current, ResultOf(res))
            /\ state' = StateAfter(current)
            /\ pc' = next
            /\ UNCHANGED error
  /\ UNCHANGED <<current, response, be>>

rerun_job(j, r) ==
  /\ sa_use_job_result(j, r)
  /\ lock' = FALSE
  /\ state' = "testsselected"
  /\ UNCHANGED <<current, response, be>>

(* BackgroundExecutor(job, builder): waits for the lock, starts a thread.  *)
(* The thread of the executor it replaces may still run, unseen.           *)
BackgroundExecutor(j, alive, r) ==
  /\ ~lock
  /\ lock' = TRUE
  /\ be' = [job |-> j, alive |-> alive, result |-> r,
            beside |-> be.beside + IF be.alive THEN 1 ELSE 0]

(* Mutant: every job without a result is passed.                           *)
LastAlwaysPasses(last, file) ==
  IF file # NoFile THEN file.outcome
    ELSE IF OutcomesLoaded[last] # "none" THEN OutcomesLoaded[last] ELSE "pass"

(* Mutant: the result the job already has is not looked at.                *)
LastWithoutHistory(last, file) ==
  IF file # NoFile THEN file.outcome
    ELSE IF setup.kind[last] = "shell" THEN "crash" ELSE "pass"

(* What resume_by_id makes of the job that was running last.               *)
LastOutcome(last, file) ==
  IF file # NoFile THEN file.outcome
    ELSE IF OutcomesLoaded[last] # "none" THEN OutcomesLoaded[last]
    ELSE IF setup.kind[last] = "shell" THEN "crash" ELSE "pass"

ResumedOutcomes(last, r) ==
  IF last \in Jobs THEN [OutcomesLoaded EXCEPT ![last] = r] ELSE OutcomesLoaded

(* Without a file __result the last job is looked up, and must be there.   *)
CanResume(file) == disk.running # NoJob \/ file # NoFile

resume_by_id(outcomes) ==
  /\ outcome' = outcomes
  /\ disk' = [disk EXCEPT !.outcome = outcomes]
  /\ allowed' = NormalCalls \ (IF disk.running = NoJob THEN {} ELSE {"use_job_result"})
  /\ state' = "testsselected"

OutcomesOnResume(file) ==
  ResumedOutcomes(disk.running,
                  IF disk.running \in Jobs THEN LastOutcome(disk.running, file) ELSE "none")

-----------------------------------------------------------------------------
(* The controller connects, and goes on from what the agent is up to.      *)

Connect ==
  /\ pc \in {"out", "quit", "failed"}
  /\ pc' = "dispatch"
  /\ Quiet /\ UNCHANGED <<rsaVars, disk, error>>

(* Mutant: a session whose jobs are not selected yet is restarted.         *)
DispatchRestarting(s) ==
  CASE s = "idle" -> "peek"
    [] s \in {"started", "bootstrapping", "bootstrapped"} -> "restart"
    [] s = "testsselected" -> "jobs"
    [] s = "running" -> "rejoin"
    [] s = "interacting" -> "rollback"

Dispatch(s) ==
  CASE s = "idle" -> "peek"
    [] s \in {"started", "bootstrapping"} -> "restart"
    [] s = "bootstrapped" -> "select"
    [] s = "testsselected" -> "jobs"
    [] s = "running" -> "rejoin"
    [] s = "interacting" -> "rollback"

whats_up ==
  /\ pc = "dispatch"
  /\ pc' = Dispatch(state)
  /\ Quiet /\ UNCHANGED <<rsaVars, disk, error>>

(* The session is ended, and a new one begun.                              *)
Restart ==
  /\ Rpc("restart", States, {"finalize_session"},
         /\ finalize_session
         /\ pc' = "peek"
         /\ UNCHANGED error)
  /\ Quiet

(* Mutant: the lock of the executor is not given back.                     *)
RollbackLocked ==
  /\ Rpc("rollback", {"interacting"}, {},
         /\ state' = "testsselected"
         /\ current' = NoJob
         /\ pc' = "jobs"
         /\ UNCHANGED <<allowed, response, be, lock, outcome, disk, error>>)
  /\ Quiet

(* remember_users_response("rollback").                                    *)
Rollback ==
  /\ Rpc("rollback", {"interacting"}, {},
         /\ state' = "testsselected"
         /\ current' = NoJob
         /\ lock' = FALSE
         /\ pc' = "jobs"
         /\ UNCHANGED <<allowed, response, be, outcome, disk, error>>)
  /\ Quiet

(* wait_and_continue: the job is waited for, whoever started it.           *)
Rejoin ==
  /\ ~be.alive
  /\ Rpc("rejoin", States, {"get_job", "use_job_result"}, finish_job("none", "jobs"))
  /\ Quiet

-----------------------------------------------------------------------------
(* should_start_via_autoresume: the session is resumed to look at it, and  *)
(* abandoned again.                                                        *)

PeekList ==
  /\ Rpc("peek", States, {"get_resumable_sessions"},
         /\ get_resumable_sessions
         /\ pc' = IF disk.found THEN "peek_resume" ELSE "choose"
         /\ SameJob /\ UNCHANGED <<state, outcome, disk, error>>)
  /\ Quiet

PeekResume ==
  /\ Rpc("peek_resume", States, {"resume_session"},
         /\ resume_session
         /\ pc' = "peek_select"
         /\ SameJob /\ UNCHANGED <<state, error>>)
  /\ Quiet

PeekSelect ==
  /\ Rpc("peek_select", States, {"select_test_plan"},
         /\ allowed' = SelectedCalls
         /\ pc' = "peek_bootstrap"
         /\ SameJob /\ UNCHANGED <<state, outcome, disk, error>>)
  /\ Quiet

PeekBootstrap ==
  /\ Rpc("peek_bootstrap", States, {"bootstrap"},
         /\ allowed' = NormalCalls
         /\ pc' = "peek_abandon"
         /\ SameJob /\ UNCHANGED <<state, outcome, disk, error>>)
  /\ Quiet

RunningShellJob ==
  disk.running \in Jobs /\ setup.kind[disk.running] \in {"shell", "noreturn"}

PeekAbandon ==
  /\ Rpc("peek_abandon", States, {"get_job"},
         /\ reset_sa
         /\ pc' = IF RunningShellJob THEN "auto" ELSE "choose"
         /\ UNCHANGED <<disk, error>>)
  /\ Quiet

automatically_resume_last_session ==
  /\ Rpc("auto", States, {"get_resumable_sessions", "resume_session"},
         /\ resume_by_id(OutcomesOnResume(result))
         /\ pc' = "jobs"
         /\ SameJob /\ UNCHANGED error)
  /\ Quiet

-----------------------------------------------------------------------------
(* A new session, or the resume menu.                                      *)

start_session ==
  /\ Rpc("choose", {"idle"}, {},
         /\ Forget
         /\ state' = "started"
         /\ allowed' = StartedCalls
         /\ pc' = "menu"
         /\ UNCHANGED <<disk, error>>)
  /\ Quiet

ChooseTestPlan ==
  /\ Rpc("menu", States, {"get_resumable_sessions"},
         /\ get_resumable_sessions
         /\ pc' = "prepare"
         /\ SameJob /\ UNCHANGED <<state, outcome, disk, error>>)
  /\ Quiet

ChooseResume ==
  /\ disk.found /\ ~setup.silent
  /\ Rpc("menu", States, {"get_resumable_sessions"},
         /\ get_resumable_sessions
         /\ pc' = "menu_resume"
         /\ SameJob /\ UNCHANGED <<state, outcome, disk, error>>)
  /\ Quiet

MenuResume ==
  /\ Rpc("menu_resume", States, {"resume_session"},
         /\ resume_session
         /\ pc' = "menu_select"
         /\ SameJob /\ UNCHANGED <<state, error>>)
  /\ Quiet

MenuSelect ==
  /\ Rpc("menu_select", States, {"select_test_plan"},
         /\ allowed' = SelectedCalls
         /\ pc' = "menu_bootstrap"
         /\ SameJob /\ UNCHANGED <<state, outcome, disk, error>>)
  /\ Quiet

MenuBootstrap ==
  /\ Rpc("menu_bootstrap", States, {"bootstrap"},
         /\ allowed' = NormalCalls
         /\ pc' = "menu_answer"
         /\ SameJob /\ UNCHANGED <<state, outcome, disk, error>>)
  /\ Quiet

(* The user says what became of the job that was running: "none" is to run *)
(* it again.  A bootstrap job is not looked at again.                      *)
_resume_session(answer) ==
  /\ IF disk.running = NoJob
       THEN pc = "menu_answer" /\ Fails("call")
       ELSE Rpc("menu_answer", States, {"get_job", "get_resumable_sessions"},
                /\ resume_by_id(ResumedOutcomes(disk.running, answer))
                /\ earned' = IF answer = "pass" THEN earned \cup ({disk.running} \cap Jobs)
                                               ELSE earned
                /\ pc' = "jobs"
                /\ SameJob /\ UNCHANGED error)
  /\ UNCHANGED <<setup, result, todo, faults, asks, report>>

(* The session is set up: the bootstrap job runs first.                    *)
prepare_bootstrapping ==
  /\ Rpc("prepare", {"started"}, {"select_test_plan"},
         /\ allowed' = SelectedCalls
         /\ pc' = "boot_list"
         /\ SameJob /\ UNCHANGED <<state, outcome, disk, error>>)
  /\ Quiet

get_bootstrapping_todo_list ==
  /\ Rpc("boot_list", {"started"}, {"get_bootstrap_todo_list"},
         /\ allowed' = allowed \cup NormalCalls
         /\ pc' = IF setup.boot THEN "boot_run" ELSE "boot_finish"
         /\ SameJob /\ UNCHANGED <<state, outcome, disk, error>>)
  /\ Quiet

run_bootstrapping_job ==
  /\ Rpc("boot_run", {"started", "bootstrapping"}, {},
         /\ current' = BootJob
         /\ state' = "bootstrapping"
         /\ BackgroundExecutor(BootJob, TRUE, "none")
         /\ pc' = "boot_wait"
         /\ UNCHANGED <<allowed, response, outcome, disk, error>>)
  /\ Quiet

FinishBootstrapJob ==
  /\ ~be.alive
  /\ Rpc("boot_wait", States, {"get_job", "use_job_result"}, finish_job("none", "boot_finish"))
  /\ Quiet

(* From here on the session can be resumed.                                *)
finish_bootstrap ==
  /\ Rpc("boot_finish", States, {"finish_bootstrap"},
         /\ state' = "bootstrapped"
         /\ allowed' = NormalCalls
         /\ outcome' = NoOutcomes
         /\ disk' = [found |-> TRUE, running |-> IF setup.boot THEN BootJob ELSE NoJob,
                     outcome |-> NoOutcomes]
         /\ result' = NoFile
         /\ earned' = {}
         /\ pc' = "select"
         /\ SameJob /\ UNCHANGED error)
  /\ UNCHANGED <<setup, todo, faults, asks, report>>

finish_job_selection ==
  /\ Rpc("select", States, {"use_alternate_selection", "get_dynamic_todo_list"},
         /\ state' = "testsselected"
         /\ pc' = "jobs"
         /\ SameJob /\ UNCHANGED <<allowed, outcome, disk, error>>)
  /\ Quiet

-----------------------------------------------------------------------------
(* RemoteController._run_jobs: the list is taken once and gone through.    *)

get_session_progress ==
  /\ Rpc("jobs", States, {"get_dynamic_todo_list"},
         /\ todo' = {j \in Jobs : outcome[j] = "none"}
         /\ pc' = IF todo' = {} THEN "rerun" ELSE "note"
         /\ SameJob /\ UNCHANGED <<state, allowed, outcome, disk, error>>)
  /\ UNCHANGED <<setup, result, faults, asks, earned, report>>

note_metadata_starting_job ==
  /\ Rpc("note", States, {"get_job"},
         /\ allowed' = allowed \cup {"use_job_result"}
         /\ disk' = [disk EXCEPT !.running = Job]
         /\ pc' = "run"
         /\ SameJob /\ UNCHANGED <<state, outcome, error>>)
  /\ Quiet

(* The last stretch of run_job: the command, if there is one.  The state   *)
(* is Running while a command is, unless the user is asked what it did.    *)
RunCommand ==
  /\ IF HasCommand(Job)
       THEN /\ BackgroundExecutor(Job, TRUE, "none")
            /\ disk' = [disk EXCEPT !.running = Job]
            /\ earned' = earned \ {Job}
       ELSE /\ BackgroundExecutor(Job, FALSE, "undecided")
            /\ UNCHANGED <<disk, earned>>
  /\ state' = IF Verified(Job) THEN "interacting" ELSE "running"
  /\ pc' = IF Verified(Job) THEN "verify" ELSE "wait"

(* run_job up to its first interaction.                                    *)
run_job ==
  /\ Rpc("run", {"testsselected"}, {"get_job"},
         /\ current' = Job
         /\ allowed' = allowed \cup {"use_job_result"}
         /\ \/ /\ Job \in setup.blocked
               /\ BackgroundExecutor(Job, FALSE, "not-supported")
               /\ state' = "interacting" /\ pc' = "skip"
               /\ UNCHANGED <<disk, earned>>
            \/ /\ Job \notin setup.blocked /\ Interactive(Job)
               /\ state' = "interacting" /\ pc' = "prompt"
               /\ UNCHANGED <<disk, earned, be, lock>>
            \/ /\ Job \notin setup.blocked /\ ~Interactive(Job)
               /\ RunCommand
         /\ UNCHANGED <<response, outcome, error>>)
  /\ UNCHANGED <<setup, result, todo, faults, asks, report>>

(* The user answers a prompt: a job without a command is always run.       *)
remember_users_response(answer) ==
  /\ pc = "prompt" /\ (answer = "skip" => HasCommand(Job))
  /\ Rpc("prompt", {"interacting"}, {},
         /\ response' = answer
         /\ state' = "running"
         /\ pc' = "next"
         /\ UNCHANGED <<allowed, current, be, lock, outcome, disk, error>>)
  /\ Quiet

(* The generator of run_job goes on; it has no state to be in.             *)
RunJobGoesOn ==
  /\ Rpc("next", States, {"get_job"},
         /\ IF response = "skip"
              THEN /\ BackgroundExecutor(Job, FALSE, "skip")
                   /\ state' = "interacting" /\ pc' = "skip"
                   /\ UNCHANGED <<disk, earned>>
              ELSE RunCommand
         /\ UNCHANGED <<allowed, current, response, outcome, error>>)
  /\ UNCHANGED <<setup, result, todo, faults, asks, report>>

(* The executor thread: sa.run_job runs the command.  If the assistant     *)
(* does not expect the call, when it is made or when it ends, the thread   *)
(* dies of the error and the result is lost.                               *)
ExecutorEnds(r) ==
  /\ be.alive
  /\ \/ be.job = BootJob /\ r = "pass"
     \/ be.job \in Jobs /\ EndsOpen(be.job) /\ r = "undecided"
     \/ be.job \in Jobs /\ ~EndsOpen(be.job) /\ r \in {"pass", "fail"}
  /\ IF "run_job" \in allowed
       THEN /\ be' = [be EXCEPT !.alive = FALSE, !.result = r]
            /\ allowed' = (allowed \ {"run_job"}) \cup {"use_job_result"}
            /\ UNCHANGED error
       ELSE /\ be' = [be EXCEPT !.alive = FALSE]
            /\ error' = "executor"
            /\ UNCHANGED allowed
  /\ earned' = IF r = "pass" THEN earned \cup ({be.job} \cap Jobs) ELSE earned
  /\ UNCHANGED <<setup, state, current, response, lock, outcome, disk, result, pc, todo,
                 faults, asks, report>>

(* The thread of an executor that was replaced: its result is dropped, but *)
(* it changes the calls that are expected, as every run_job does.          *)
ReplacedEnds ==
  /\ be.beside > 0
  /\ be' = [be EXCEPT !.beside = @ - 1]
  /\ IF "run_job" \in allowed
       THEN allowed' = (allowed \ {"run_job"}) \cup {"use_job_result"} /\ UNCHANGED error
       ELSE error' = "executor" /\ UNCHANGED allowed
  /\ UNCHANGED <<setup, state, current, response, lock, outcome, disk, result, pc, todo,
                 faults, asks, earned, report>>

(* After a job: the next one of the list, or the dialogue about re-runs.   *)
AfterJob == IF todo = {Job} THEN "rerun" ELSE "note"
NextJob == todo' = IF pc' = "failed" THEN todo ELSE todo \ {Job}

wait_for_job ==
  /\ ~be.alive
  /\ Rpc("wait", States, {"get_job", "use_job_result"}, finish_job("none", AfterJob))
  /\ NextJob
  /\ UNCHANGED <<setup, result, faults, asks, earned, report>>

(* The user says whether the job passed.                                   *)
Verdict(o) ==
  /\ pc = "verify" /\ ~be.alive
  /\ IF be.result = "none" THEN Fails("call")
      ELSE /\ Rpc("verify", {"interacting"}, {},
                  /\ be' = [be EXCEPT !.result = o]
                  /\ response' = "verdict"
                  /\ state' = "running"
                  /\ pc' = "verified"
                  /\ earned' = IF o = "pass" THEN earned \cup {Job} ELSE earned \ {Job}
                  /\ UNCHANGED <<allowed, current, lock, outcome, disk, error>>)
           /\ UNCHANGED <<setup, result, todo, faults, asks, report>>

(* Mutant: the controller goes on to the next job.                         *)
ReRunForgotten ==
  /\ asks < MaxAsks
  /\ pc = "verify" /\ ~be.alive /\ HasCommand(Job)
  /\ Rpc("verify", {"interacting", "testsselected"}, {"use_job_result"},
         /\ rerun_job(Job, be.result)
         /\ pc' = AfterJob
         /\ todo' = todo \ {Job}
         /\ asks' = asks + 1
         /\ UNCHANGED error)
  /\ UNCHANGED <<setup, result, faults, earned, report>>

(* The user asks for the command to be run again.                          *)
ReRunJob ==
  /\ asks < MaxAsks
  /\ pc = "verify" /\ ~be.alive /\ HasCommand(Job)
  /\ IF be.result = "none" THEN Fails("call")
      ELSE /\ Rpc("verify", {"interacting", "testsselected"}, {"use_job_result"},
                  /\ rerun_job(Job, be.result)
                  /\ pc' = "run"
                  /\ asks' = asks + 1
                  /\ UNCHANGED error)
           /\ UNCHANGED <<setup, result, todo, faults, earned, report>>

FinishVerified ==
  /\ Rpc("verified", States, {"get_job", "use_job_result"}, finish_job(be.result, AfterJob))
  /\ NextJob
  /\ UNCHANGED <<setup, result, faults, asks, earned, report>>

FinishSkipped ==
  /\ Rpc("skip", States, {"get_job", "use_job_result"}, finish_job(be.result, AfterJob))
  /\ NextJob
  /\ UNCHANGED <<setup, result, faults, asks, earned, report>>

(* A certification blocker may not be skipped without a comment: the job   *)
(* is started again.                                                       *)
SkipRefused ==
  /\ asks < MaxAsks
  /\ pc = "skip" /\ Job \notin setup.blocked
  /\ Rpc("skip", {"interacting", "testsselected"}, {"use_job_result"},
         /\ rerun_job(Job, be.result)
         /\ pc' = "run"
         /\ asks' = asks + 1
         /\ UNCHANGED error)
  /\ UNCHANGED <<setup, result, todo, faults, earned, report>>

-----------------------------------------------------------------------------
(* The end of the session, or another round of the jobs that failed.       *)

RerunCandidates == {j \in Jobs : outcome[j] \in {"fail", "crash", "skip", "not-supported"}}

(* prepare_rerun_candidates: the results are forgotten, not checkpointed.  *)
prepare_rerun_candidates(chosen) ==
  /\ ~setup.silent /\ asks < MaxAsks
  /\ chosen # {} /\ chosen \subseteq RerunCandidates
  /\ Rpc("rerun", States, {"get_rerun_candidates"},
         /\ outcome' = [j \in Jobs |-> IF j \in chosen THEN "none" ELSE outcome[j]]
         /\ state' = "testsselected"
         /\ todo' = chosen
         /\ asks' = asks + 1
         /\ pc' = "note"
         /\ SameJob /\ UNCHANGED <<allowed, disk, error>>)
  /\ UNCHANGED <<setup, result, faults, earned, report>>

NoRerun ==
  /\ Rpc("rerun", States, {"get_rerun_candidates"},
         /\ pc' = "finish"
         /\ SameJob /\ UNCHANGED <<state, allowed, outcome, disk, error>>)
  /\ Quiet

finish_session ==
  /\ Rpc("finish", States, {"finalize_session"},
         /\ report' = outcome
         /\ finalize_session
         /\ pc' = "done"
         /\ UNCHANGED error)
  /\ UNCHANGED <<setup, result, todo, faults, asks, earned>>

-----------------------------------------------------------------------------
(* Faults and interruptions.  A window of WindowNames is a moment at which *)
(* the code is known not to cope with one (see the README): a fault may    *)
(* strike there only when Windows has it.                                  *)

Recorded(j) == disk.outcome[j] # "none"

Started(j) == be.job = j /\ be.alive /\ "run_job" \in allowed

Reboots == be.job \in Jobs /\ setup.kind[be.job] = "noreturn" /\ Started(be.job)

Moment(w) ==
  CASE w = "prepared" -> pc = "boot_list"
    [] w = "answered" -> pc \in {"next", "verified"}
    [] w = "executing" -> pc = "verify" /\ HasCommand(Job) /\ be.alive
    [] w = "verifying" -> pc = "verify" /\ HasCommand(Job) /\ ~be.alive
    [] w = "asked" -> /\ pc \in {"run", "prompt", "next", "wait", "verify", "verified", "skip"}
                      /\ outcome[Job] # "none"
    [] w = "peeked" -> pc = "peek_bootstrap"
    [] w = "resuming" -> pc \in {"menu_select", "menu_bootstrap", "menu_answer"}
    [] w = "abandoning" -> "finalize_session" \notin allowed \/ allowed = FreshCalls
    [] w = "noted" -> /\ disk.found /\ disk.running \in Jobs
                      /\ ~Recorded(disk.running) /\ ~Reboots
                      /\ \/ setup.kind[disk.running] = "noreturn"
                         \/ setup.silent /\ setup.kind[disk.running] # "shell"
    [] w = "leftover" -> /\ result # NoFile
                         /\ \/ result.by # disk.running
                            \/ disk.outcome[result.by] \notin {"none", result.outcome} \cup
                                 {RestartOutcome(j) : j \in {result.by} \cap setup.autorestart}
    [] w = "unstarted" -> disk.found /\ disk.running = NoJob /\ result = NoFile
    [] w = "autorestarted" -> /\ disk.found /\ disk.running \in setup.autorestart
                              /\ Recorded(disk.running) /\ disk.outcome # OutcomesLoaded

MayStrike(windows) == \A w \in windows \ Windows : ~Moment(w)

Fault ==
  /\ faults < MaxFaults
  /\ faults' = faults + 1

LossWindows == {"prepared", "answered", "executing", "verifying", "asked", "peeked",
                "resuming", "leftover", "unstarted"}

(* The connection is lost, or taken over by another controller.            *)
Lose ==
  /\ Fault /\ MayStrike(LossWindows)
  /\ state = "idle" => MayStrike({"autorestarted"})
  /\ pc \in Dialogue
  /\ pc' = "out"
  /\ todo' = {}
  /\ UNCHANGED <<rsaVars, disk, setup, result, asks, earned, report, error>>

(* The user leaves at a prompt: the session is abandoned, to be resumed.   *)
Quit ==
  /\ pc = "prompt" /\ HasCommand(Job)
  /\ Fault /\ MayStrike(LossWindows \cup {"autorestarted"})
  /\ reset_sa
  /\ pc' = "quit"
  /\ todo' = {}
  /\ UNCHANGED <<disk, setup, result, asks, earned, report, error>>

(* The user interrupts the controller, to abandon the session ...          *)
Abandon ==
  /\ Fault /\ MayStrike({"abandoning"})
  /\ ~setup.silent /\ pc \in Dialogue
  /\ IF "finalize_session" \in allowed
       THEN finalize_session /\ pc' = "dispatch" /\ UNCHANGED error
       ELSE pc' = "failed" /\ error' = "call" /\ UNCHANGED <<rsaVars, disk>>
  /\ todo' = {}
  /\ UNCHANGED <<setup, result, asks, earned, report>>

(* ... or to kill the command of the job, and goes on.                     *)
KillCommand ==
  /\ Fault /\ MayStrike(LossWindows)
  /\ ~setup.silent /\ pc \in {"wait", "verify", "rejoin", "boot_wait"}
  /\ be.alive /\ Started(current)
  /\ be' = [be EXCEPT !.alive = FALSE,
                      !.result = IF EndsOpen(be.job) THEN "undecided" ELSE "crash"]
  /\ allowed' = (allowed \ {"run_job"}) \cup {"use_job_result"}
  /\ pc' = "dispatch"
  /\ todo' = {}
  /\ UNCHANGED <<setup, state, current, response, lock, outcome, disk, result, asks,
                 earned, report, error>>

(* The agent dies and starts again: a command without return does that,    *)
(* and may leave its verdict in the session's share.  A session of a       *)
(* silent launcher is resumed at once.                                     *)
AgentCrash ==
  /\ Fault /\ MayStrike({"asked", "noted", "leftover", "unstarted", "autorestarted"})
  /\ pc # "done"
  /\ result' \in {result} \cup (IF Reboots THEN [by : {be.job}, outcome : {"pass", "fail", "skip"}]
                                         ELSE {})
  /\ earned' = IF Reboots THEN earned \cup {be.job} ELSE earned
  /\ IF ~setup.silent \/ ~disk.found
       THEN reset_sa /\ UNCHANGED <<disk, error>>
       ELSE IF CanResume(result')
         THEN /\ resume_by_id(OutcomesOnResume(result'))
              /\ current' = NoJob /\ response' = "none" /\ be' = NoExecutor /\ lock' = FALSE
              /\ UNCHANGED error
         ELSE reset_sa /\ error' = "resume" /\ UNCHANGED disk
  /\ pc' = "out"
  /\ todo' = {}
  /\ UNCHANGED <<setup, asks, report>>

-----------------------------------------------------------------------------
Connecting ==
  \/ Connect \/ whats_up \/ Restart \/ Rollback \/ Rejoin
  \/ PeekList \/ PeekResume \/ PeekSelect \/ PeekBootstrap \/ PeekAbandon
  \/ automatically_resume_last_session

Starting ==
  \/ start_session \/ ChooseTestPlan \/ ChooseResume \/ MenuResume \/ MenuSelect
  \/ MenuBootstrap \/ \E answer \in {"pass", "fail", "skip", "none"} : _resume_session(answer)
  \/ prepare_bootstrapping \/ get_bootstrapping_todo_list \/ run_bootstrapping_job
  \/ FinishBootstrapJob \/ finish_bootstrap \/ finish_job_selection

Running ==
  \/ get_session_progress \/ note_metadata_starting_job \/ run_job
  \/ \E answer \in {"run", "skip"} : remember_users_response(answer)
  \/ RunJobGoesOn \/ wait_for_job
  \/ \E o \in {"pass", "fail", "skip"} : Verdict(o)
  \/ ReRunJob \/ FinishVerified \/ FinishSkipped \/ SkipRefused
  \/ \E chosen \in SUBSET Jobs : prepare_rerun_candidates(chosen)
  \/ NoRerun \/ finish_session

Controller == Connecting \/ Starting \/ Running
Executor == ReplacedEnds \/ \E r \in Outcomes : ExecutorEnds(r)
Faults == Lose \/ Quit \/ Abandon \/ KillCommand \/ AgentCrash
Finished == pc = "done" /\ UNCHANGED vars

Next == Controller \/ Executor \/ Faults \/ Finished

Spec == Init /\ [][Next]_vars

(* The controller goes on while it is connected and its user answers, and  *)
(* connects again when it is not; a command ends.                          *)
FairSpec == Spec /\ WF_vars(Controller) /\ WF_vars(Executor)

-----------------------------------------------------------------------------
(* No job is passed that did not earn it: its command ended well, or       *)
(* rebooted the machine as it was meant to, or the user said so.  Nothing  *)
(* else may pass a job: not a result taken from the executor of another    *)
(* one, not a resume (finish_job, resume_by_id).                           *)
PassIsEarned ==
  \A j \in Jobs : "pass" \in {outcome[j], disk.outcome[j], report[j]} => j \in earned

(* What the controller does next is never refused by the agent, and no     *)
(* thread of the agent dies of a call that is not expected: the states of  *)
(* the remote assistant, the calls the session assistant allows and the    *)
(* dialogue of the controller agree, whatever was interrupted.             *)
NoCallRefused == error = "none"

(* A job is started only when the executor of the one before has ended and *)
(* given back the lock, so the controller is never stuck in a call, and no *)
(* two commands of a session run at once (BackgroundExecutor, finish_job,  *)
(* remember_users_response).                                               *)
ExecutorSlotFree ==
  pc \in {"run", "next", "boot_run"} => ~lock /\ ~be.alive /\ be.beside = 0

(* Two commands of a session never run at once: "run_job() and             *)
(* use_job_result() must be called in pairs" (session/assistant.py).  A    *)
(* rollback gives the lock of the executor back while its command runs.    *)
OneCommandAtATime == ~(be.alive /\ be.beside > 0)

(* A session is reported only when each of its jobs has an outcome.  Only  *)
(* a job that no one asks the user about may end undecided: a user-verify  *)
(* job, which the lists of plugins in session/remote_assistant.py leave    *)
(* out.                                                                    *)
AllJobsReported ==
  pc = "done" => \A j \in Jobs :
    report[j] # "none" /\ (report[j] = "undecided" => setup.kind[j] = "user-verify")

(* What is checkpointed is what is loaded: apart from jobs rearmed, which  *)
(* are not checkpointed, a controller that runs jobs sees the outcomes     *)
(* that a crash would bring back.                                          *)
LoadedIsCheckpointed ==
  state \in {"testsselected", "running", "interacting"} =>
    disk.found /\ \A j \in Jobs : outcome[j] \in {"none", disk.outcome[j]}

(* A checkpointed outcome is replaced only by running the job again, by    *)
(* the verdict its command left before it rebooted the machine, by the     *)
(* answer of the user who resumes, or by a new session: no reconnection    *)
(* and no restart changes it.                                              *)
ResultsKept ==
  [][\A j \in Jobs :
       Recorded(j) /\ disk'.outcome[j] # disk.outcome[j] =>
         \/ pc = "boot_finish"
         \/ pc = "menu_answer" /\ disk.running = j
         \/ asks > 0 /\ (current = j \/ result'.by = j)
         \/ /\ j \in setup.autorestart /\ disk.running = j
            /\ result'.by = j /\ result'.outcome = disk'.outcome[j]]_vars

(* A session that can be resumed stays so until it has been reported or    *)
(* the user abandons it: no reconnection ends it.                          *)
SessionKept ==
  [][disk.found /\ ~disk'.found => pc' = "done" \/ faults' # faults]_vars

(* The session ends, with the jobs reported, however often it is           *)
(* interrupted.                                                            *)
Completes == <>(pc = "done")

=============================================================================
