------------------------------- MODULE TestRun -------------------------------
(***************************************************************************)
(* The loops that drive a session from bootstrap to the end: the local     *)
(* launcher (checkbox_ng/launcher/subcommands.py, stages.py) and the       *)
(* remote controller (checkbox_ng/launcher/controller.py).  Both bootstrap,*)
(* let the user select, run the todo list, and then rerun failed jobs:     *)
(* by hand, automatically, or (remote only) first one and then the other.  *)
(***************************************************************************)
EXTENDS JobSession

CONSTANTS
  CommandOutcomes, \* the outcomes a command of an automated job may end in
  ManualRounds,    \* bound: rounds of the re-run screen
  UserReruns       \* bound: times the user answers "re-run" to a verification

ASSUME DriverAssumption ==
  /\ CommandOutcomes \subseteq {"pass", "fail", "crash"}
  /\ ManualRounds \in Nat
  /\ UserReruns \in Nat

VARIABLES
  phase,     \* which loop of the driver is running
  todo,      \* what is left of the list that loop iterates over
  rounds,    \* rounds of the re-run screen so far
  reruns     \* "re-run" answers so far

driverVars == <<phase, todo, rounds, reruns>>
vars == <<plan, config, run_list, outcome, inhibitors, attempts, resource_map,
          pending, runs, verdict, phase, todo, rounds, reruns>>

Phases == {"bootstrap", "selecting", "main", "manual", "auto", "done"}

TypeOK ==
  /\ SessionTypeOK
  /\ phase \in Phases
  /\ todo \in Seq(Jobs)
  /\ rounds \in 0..ManualRounds
  /\ reruns \in 0..UserReruns

Init ==
  /\ plan \in Plans
  /\ config \in Configs
  /\ outcome = [j \in Jobs |-> "none"]
  /\ attempts = [j \in Jobs |-> DefaultAttempts]
  /\ resource_map = [j \in Jobs |-> "absent"]
  /\ run_list \in RunLists(plan.bootstrap)
  /\ inhibitors = recompute_job_readiness(run_list, outcome, resource_map)
  /\ pending = NoRun
  /\ runs = [j \in Jobs |-> 0]
  /\ verdict = [j \in Jobs |-> "none"]
  /\ phase = "bootstrap"
  /\ todo = run_list
  /\ rounds = 0
  /\ reruns = 0

Idle == todo = <<>> /\ pending = NoRun

-----------------------------------------------------------------------------
(* Choosing what to run.                                                   *)

update_desired_job_list(desired) ==
  /\ run_list' \in RunLists(desired)
  /\ inhibitors' = recompute_job_readiness(run_list', outcome, resource_map)

(* The remote assistant gives every selected job its attempts here, when   *)
(* auto-retry is on.                                                       *)
finish_bootstrap ==
  /\ phase = "bootstrap" /\ Idle
  /\ phase' = "selecting"
  /\ update_desired_job_list(plan.include)
  /\ attempts' = [j \in Jobs |->
                    IF config.remote /\ config.autoRetry /\ j \in ToSet(run_list')
                      THEN MaxAttempts ELSE attempts[j]]
  /\ UNCHANGED <<plan, config, outcome, resource_map, pending, runs, verdict,
                 todo, rounds, reruns>>

(* Mutant: the static todo list, with the jobs that have run.              *)
StaticTodoLists(list) ==
  Orderings(ToSet(list), LAMBDA a, b : IndexOf(list, a) < IndexOf(list, b))

(* get_dynamic_todo_list: the run list without the jobs that have a result.*)
TodoLists(list) ==
  Orderings({j \in ToSet(list) : outcome[j] = "none"},
            LAMBDA a, b : IndexOf(list, a) < IndexOf(list, b))

(* The user keeps part of the static todo list, which is the run list; the *)
(* local launcher then sets the attempts of what is left to run.           *)
use_alternate_selection(selection) ==
  /\ phase = "selecting"
  /\ phase' = "main"
  /\ update_desired_job_list(selection)
  /\ todo' \in TodoLists(run_list')
  /\ attempts' = [j \in Jobs |->
                    IF ~config.remote /\ j \in ToSet(todo') THEN MaxAttempts ELSE attempts[j]]
  /\ UNCHANGED <<plan, config, outcome, resource_map, pending, runs, verdict,
                 rounds, reruns>>

-----------------------------------------------------------------------------
(* One job of the list.                                                    *)

Records(j) == IF j \in plan.resource THEN {"match", "nomatch"} ELSE {"absent"}

(* The local launcher prompts the user only in an interactive session, the *)
(* controller always.                                                      *)
Prompts == config.interactive \/ config.remote

(* Is the user asked for the outcome the command leaves open?  Never in    *)
(* the bootstrap, and about a job that did not wait for the user (that is  *)
(* user-verify) only in an interactive session of the local launcher.      *)
AskedAbout(j) ==
  /\ j \in plan.verify /\ phase # "bootstrap"
  /\ IF j \in plan.manual THEN Prompts ELSE config.interactive /\ ~config.remote

(* Without a prompt a manual job is skipped, whatever its readiness; at    *)
(* the prompt the user may skip a job that could start.                    *)
MaySkip(j) == j \in plan.manual /\ (Prompts => can_start(j))

StartJob ==
  /\ todo # <<>> /\ phase # "selecting"
  /\ phase = "bootstrap" \/ Prompts \/ Head(todo) \notin plan.manual
  /\ run_job(Head(todo))
  /\ UNCHANGED driverVars

SkipJob ==
  /\ todo # <<>> /\ pending = NoRun
  /\ phase \in {"main", "manual", "auto"}
  /\ MaySkip(Head(todo))
  /\ use_job_result(Head(todo), "skip", "nomatch")
  /\ todo' = Tail(todo)
  /\ UNCHANGED <<phase, rounds, reruns>>

(* The outcome of a job that ran: the user's answer, or nobody's, or what  *)
(* its command returned.                                                   *)
EndsIn(j) ==
  IF AskedAbout(j) THEN {"pass", "fail", "skip"}
    ELSE IF j \in plan.verify THEN {"undecided"} ELSE CommandOutcomes

(* A resource job that did not run leaves no records: nothing matches.     *)
CompleteJob ==
  /\ todo # <<>> /\ pending # NoRun /\ pending.job = Head(todo)
  /\ IF pending.outcome = "undecided"
       THEN \E o \in EndsIn(Head(todo)), r \in Records(Head(todo)) :
              use_job_result(Head(todo), o, r)
       ELSE use_job_result(Head(todo), pending.outcome, "nomatch")
  /\ todo' = Tail(todo)
  /\ UNCHANGED <<phase, rounds, reruns>>

(* Mutant: the driver goes on to the next job.                             *)
RerunJobMovingOn ==
  /\ todo # <<>> /\ pending # NoRun /\ pending.job = Head(todo)
  /\ pending.outcome = "undecided"
  /\ AskedAbout(Head(todo))
  /\ reruns < UserReruns
  /\ reruns' = reruns + 1
  /\ use_job_result(Head(todo), "undecided", "nomatch")
  /\ todo' = Tail(todo)
  /\ UNCHANGED <<phase, rounds>>

(* The user looks at the outcome and asks to run the job again: the open   *)
(* result is fed to the session and the same job is next.                  *)
RerunJob ==
  /\ todo # <<>> /\ pending # NoRun /\ pending.job = Head(todo)
  /\ pending.outcome = "undecided"
  /\ AskedAbout(Head(todo))
  /\ reruns < UserReruns
  /\ reruns' = reruns + 1
  /\ use_job_result(Head(todo), "undecided", "nomatch")
  /\ UNCHANGED <<phase, todo, rounds>>

-----------------------------------------------------------------------------
(* The rerun loops.                                                        *)

AfterMain ==
  IF config.interactive /\ (config.remote \/ ~config.autoRetry) THEN "manual"
    ELSE IF config.autoRetry THEN "auto" ELSE "done"

AfterManual == IF config.autoRetry THEN "auto" ELSE "done"

FinishMain ==
  /\ phase = "main" /\ Idle
  /\ phase' = AfterMain
  /\ UNCHANGED <<plan, config, run_list, outcome, inhibitors, attempts,
                 resource_map, pending, runs, verdict, todo, rounds, reruns>>

(* The local screen returns a set, which is iterated in any order; the     *)
(* controller keeps the order of the run list.                             *)
ManualCandidateLists(wanted) ==
  Orderings(wanted, LAMBDA a, b : config.remote /\ InRunListOrder(a, b))

maybe_manual_rerun_jobs ==
  /\ phase = "manual" /\ Idle
  /\ rounds < ManualRounds
  /\ rounds' = rounds + 1
  /\ \E wanted \in (SUBSET RerunCandidates(ManualCandidate)) \ {{}} :
       \E candidates \in ManualCandidateLists(wanted) :
         /\ todo' \in RearmedLists(candidates)
         /\ prepare_rerun_candidates(candidates, todo')
  /\ UNCHANGED <<phase, reruns>>

(* Nothing to rerun, or nothing chosen.                                    *)
FinishManual ==
  /\ phase = "manual" /\ Idle
  /\ phase' = AfterManual
  /\ UNCHANGED <<plan, config, run_list, outcome, inhibitors, attempts,
                 resource_map, pending, runs, verdict, todo, rounds, reruns>>

maybe_auto_rerun_jobs ==
  /\ phase = "auto" /\ Idle
  /\ RerunCandidates(AutoCandidate) # {}
  /\ \E candidates \in Orderings(RerunCandidates(AutoCandidate), InRunListOrder) :
       /\ todo' \in RearmedLists(candidates)
       /\ prepare_rerun_candidates(candidates, todo')
  /\ UNCHANGED <<phase, rounds, reruns>>

FinishAuto ==
  /\ phase = "auto" /\ Idle
  /\ RerunCandidates(AutoCandidate) = {}
  /\ phase' = "done"
  /\ UNCHANGED <<plan, config, run_list, outcome, inhibitors, attempts,
                 resource_map, pending, runs, verdict, todo, rounds, reruns>>

(* The results are exported and the program ends.                          *)
Done == phase = "done" /\ UNCHANGED vars

Next ==
  \/ finish_bootstrap
  \/ \E selection \in (SUBSET ToSet(run_list)) \ {{}} : use_alternate_selection(selection)
  \/ StartJob \/ SkipJob \/ CompleteJob \/ RerunJob
  \/ FinishMain
  \/ maybe_manual_rerun_jobs \/ FinishManual
  \/ maybe_auto_rerun_jobs \/ FinishAuto
  \/ Done

Spec == Init /\ [][Next]_vars

(* One thread runs the loops.  What it waits for ends: a command, an       *)
(* answer, the delay before a retry.                                       *)
FairSpec == Spec /\ WF_vars(Next)

-----------------------------------------------------------------------------
(* Properties.                                                             *)

Started(j) == pending.job = j /\ pending.outcome = "undecided"

(* A command runs only while every job its job depends on has a pass and   *)
(* every resource it requires matches ("depends" and "requires" of the job *)
(* unit), although prepare_rerun_candidates resets results without         *)
(* recomputing the readiness that can_start looks at.                      *)
StartRequirementsMet ==
  \A j \in Jobs : Started(j) =>
    /\ \A d \in plan.depends[j] : outcome[d] = "pass"
    /\ \A r \in plan.requires[j] : resource_map[r] = "match"

(* "If the job passes, it won't be retried": once a job has passed no      *)
(* rerun loop resets, reruns or overwrites that result.                    *)
PassedJobStaysPassed ==
  [][\A j \in Jobs : outcome[j] = "pass" => outcome'[j] = "pass"]_vars

(* Jobs the bootstrap runs have used attempts the driver does not count.   *)
Bootstrapped == Closure(plan.bootstrap)

(* In auto-retry mode a job's command is not executed more than            *)
(* max_attempts times, whichever loops and users asked for it.             *)
RunsWithinBudget ==
  config.autoRetry => \A j \in Jobs \ Bootstrapped : runs[j] <= MaxAttempts

(* Jobs about whose outcome the user may never be asked: those the         *)
(* bootstrap runs, and user-verify jobs of a silent or a remote session.   *)
Unasked(j) ==
  /\ j \in plan.verify
  /\ j \in Bootstrapped \/ (j \notin plan.manual /\ (config.remote \/ ~config.interactive))

(* When the driver is done every selected job has an outcome, and the      *)
(* outcome of every job the user is asked about is decided: none was left  *)
(* rearmed, or open after the user asked to run it again.  The jobs nobody *)
(* is asked about do end undecided, although "A Checkbox job always        *)
(* receives a final status" (docs/reference/job-status.rst).               *)
EveryJobAccountedFor ==
  phase = "done" => \A j \in ToSet(run_list) :
    outcome[j] # "none" /\ (outcome[j] = "undecided" => Unasked(j))

Failed(j) == verdict[j] \in {"fail", "crash"}

(* The exit status and the reports count failures by the last outcome: the *)
(* failure of a job that ran is not replaced by "not supported".           *)
FailureNotMasked ==
  phase = "done" => \A j \in Jobs : Failed(j) => outcome[j] # "not-supported"

(* "every failing job will be retried": in auto-retry mode the command of  *)
(* a job that failed in the main pass is executed again, unless the job is *)
(* excluded or the user skips it.                                          *)
FailedJobIsRetried ==
  \A j \in Jobs :
    (/\ phase = "main" /\ Idle /\ config.autoRetry /\ MaxAttempts > 1
     /\ outcome[j] \in {"fail", "crash"} /\ Failed(j)
     /\ j \notin Bootstrapped \cup plan.noRetry)
    ~> (runs[j] > 1 \/ outcome[j] = "skip")

Needed(j) == \E c \in Jobs : j \in plan.depends[c]

(* "even if the job bar fails and auto-retry is activated, it will not be  *)
(* retried" (docs/how-to/launcher/auto-retry.rst): the automatic loop      *)
(* leaves a failed job marked auto-retry=no alone.  Where another job      *)
(* depends on it this is not so: prepare_rerun_candidates adds the failed  *)
(* dependencies of a candidate without looking at auto-retry.              *)
NoRetryRespected ==
  [][\A j \in plan.noRetry :
       phase = "auto" /\ Failed(j) /\ ~Needed(j) => runs'[j] = runs[j]]_vars

(* The loops end.                                                          *)
Terminates == <>(phase = "done")

-----------------------------------------------------------------------------
(* The inductive invariant behind the proofs, part by part.                *)

(* A job without inhibitors has its requirements met although its          *)
(* inhibitors may be stale: what prepare_rerun_candidates resets was not   *)
(* a pass, so no job that relies on it was ready.                          *)
ReadyMeansMet ==
  \A j \in Jobs : inhibitors[j] = {} =>
    /\ \A d \in plan.depends[j] : outcome[d] = "pass"
    /\ \A r \in plan.requires[j] : resource_map[r] = "match"

FailedDepHasNotPassed ==
  \A j, d \in Jobs : <<"FAILED_DEP", d>> \in inhibitors[j] => outcome[d] # "pass"

OthersUndesired ==
  \A j \in Jobs : j \notin ToSet(run_list) => inhibitors[j] = {Undesired}

PassedResourceStored ==
  \A r \in plan.resource : outcome[r] = "pass" => resource_map[r] # "absent"

StartedIsReady ==
  pending.outcome = "undecided" => inhibitors[pending.job] = {}

SelectingIsIdle == phase = "selecting" => Idle

(* The rest of the list holds each job once, and none that has passed.     *)
TodoNotPassed ==
  /\ \A i, k \in DOMAIN todo : i # k => todo[i] # todo[k]
  /\ \A i \in DOMAIN todo : outcome[todo[i]] # "pass"

(* Before the main pass only bootstrap jobs ran; from then on what a job   *)
(* has run and what it may still run are within the budget together.       *)
SpentWithinBudget ==
  config.autoRetry =>
    /\ phase = "bootstrap" => ToSet(todo) \subseteq Bootstrapped
    /\ phase \in {"bootstrap", "selecting"} =>
         \A j \in Jobs \ Bootstrapped : runs[j] = 0 /\ outcome[j] = "none"
    /\ phase = "selecting" =>
         /\ ToSet(run_list) = Closure(plan.include)
         /\ config.remote => \A j \in ToSet(run_list) : attempts[j] = MaxAttempts
    /\ phase \notin {"bootstrap", "selecting"} =>
         \A j \in Jobs \ Bootstrapped :
           /\ runs[j] <= MaxAttempts
           /\ j \in ToSet(run_list) =>
                runs[j] + attempts[j] <= MaxAttempts + (IF Started(j) THEN 1 ELSE 0)
           /\ Started(j) => attempts[j] > 0

(* What concerns the session alone.                                        *)
SessionInv ==
  /\ SessionTypeOK
  /\ ReadyMeansMet
  /\ FailedDepHasNotPassed
  /\ OthersUndesired
  /\ PassedResourceStored
  /\ StartedIsReady

(* Every state of a test run keeps all of this.                            *)
Inv ==
  /\ TypeOK
  /\ SessionInv
  /\ SelectingIsIdle
  /\ TodoNotPassed
  /\ SpentWithinBudget
=============================================================================
