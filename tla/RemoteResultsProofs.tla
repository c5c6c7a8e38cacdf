------------------------- MODULE RemoteResultsProofs -------------------------
(***************************************************************************)
(* Proof that RemoteSession replaces a checkpointed outcome only for a     *)
(* reason, for every list of jobs, every session and any number of faults, *)
(* outside the moments of WindowNames.  The argument is about sessions in  *)
(* which no job was asked for again: there a job that is about to run, or  *)
(* runs, has no outcome yet, loaded or checkpointed, and a verdict left    *)
(* behind in a file replaces nothing.                                      *)
(***************************************************************************)
EXTENDS RemoteSessionProofs

(* What has no outcome in the loaded session has none on the disk.         *)
LoadedMatches == Loaded => \A j \in Jobs : outcome[j] = "none" => ~Recorded(j)

(* A job whose turn it is, or that runs, has no outcome.                   *)
TurnIsOpen == pc \in JobSteps => outcome[Job] = "none"
RunningIsOpen == state = "running" /\ current \in Jobs => outcome[current] = "none"

(* The verdict a resume would take from the file replaces no other one,    *)
(* but for the one that the restart gave to an autorestart job.            *)
FileMatches ==
  disk.found /\ Unloaded /\ result # NoFile =>
    \/ disk.outcome[result.by] \in {"none", result.outcome}
    \/ result.by \in setup.autorestart

FirstRun == asks = 0 => LoadedMatches /\ TurnIsOpen /\ RunningIsOpen /\ FileMatches

RunInv == RemoteInv /\ FirstRun

(* What a step may replace: the body of ResultsKept.                       *)
ReplacedForAReason ==
  \A j \in Jobs :
    Recorded(j) /\ disk'.outcome[j] # disk.outcome[j] =>
      \/ pc = "boot_finish"
      \/ pc = "menu_answer" /\ disk.running = j
      \/ asks > 0 /\ (current = j \/ result'.by = j)
      \/ /\ j \in setup.autorestart /\ disk.running = j
         /\ result'.by = j /\ result'.outcome = disk'.outcome[j]

(* A step that keeps what is on the disk replaces nothing.                 *)
LEMMA NothingReplaced ==
  ASSUME disk'.outcome = disk.outcome PROVE ReplacedForAReason
  BY DEF ReplacedForAReason

-----------------------------------------------------------------------------
USE DEF RemoteInv, TypeOK, Quiet, SameJob, rsaVars, States, Rpc, Fails, Peeking,
        MenuResuming, JobSteps, Closing, Loaded, Unloaded, FirstRun

(* Calls that neither load a session nor end a job.                        *)
LEMMA ConnectingFirstRun ==
  ASSUME RemoteInv, FirstRun, Connecting, pc' # "failed",
         ~Rejoin, ~automatically_resume_last_session, ~PeekResume
  PROVE  FirstRun' /\ disk'.outcome = disk.outcome
  <1>. USE DEF StatesAgree, LoadedMatches, TurnIsOpen, RunningIsOpen, FileMatches, Recorded
  <1>1. CASE Connect BY <1>1 DEF Connect
  <1>2. CASE whats_up BY <1>2 DEF whats_up, Dispatch
  <1>3. CASE Restart
    BY <1>3 DEF Restart, finalize_session, reset_sa, Forget
  <1>4. CASE Rollback BY <1>4 DEF Rollback
  <1>5. CASE PeekList \/ PeekSelect \/ PeekBootstrap \/ PeekAbandon
    BY <1>5 DEF PeekList, PeekSelect, PeekBootstrap, PeekAbandon, reset_sa, Forget,
                get_resumable_sessions
  <1>. QED BY <1>1, <1>2, <1>3, <1>4, <1>5 DEF Connecting

LEMMA StartingFirstRun ==
  ASSUME RemoteInv, FirstRun, Starting, pc' # "failed",
         ~FinishBootstrapJob, ~finish_bootstrap, ~MenuResume,
         ~\E answer \in {"pass", "fail", "skip", "none"} : _resume_session(answer)
  PROVE  FirstRun' /\ disk'.outcome = disk.outcome
  <1>. USE DEF StatesAgree, LoadedMatches, TurnIsOpen, RunningIsOpen, FileMatches, Recorded
  <1>1. CASE start_session BY <1>1 DEF start_session, Forget
  <1>2. CASE ChooseTestPlan \/ ChooseResume \/ MenuSelect \/ MenuBootstrap
    BY <1>2 DEF ChooseTestPlan, ChooseResume, MenuSelect, MenuBootstrap
  <1>3. CASE \/ prepare_bootstrapping \/ get_bootstrapping_todo_list
             \/ run_bootstrapping_job
    BY <1>3 DEF prepare_bootstrapping, get_bootstrapping_todo_list,
                run_bootstrapping_job
  <1>4. CASE finish_job_selection BY <1>4 DEF finish_job_selection
  <1>. QED BY <1>1, <1>2, <1>3, <1>4 DEF Starting

(* What is loaded, and checkpointed again, of a session that is resumed    *)
(* replaces nothing: an autorestart job had the outcome of its restart, or *)
(* none.                                                                   *)
LEMMA LoadingFirstRun ==
  ASSUME RemoteInv, FirstRun, PeekResume \/ MenuResume, pc' # "failed"
  PROVE  FirstRun' /\ ReplacedForAReason
  <1>1. /\ Unloaded /\ disk.found
        /\ disk' = [disk EXCEPT !.outcome = OutcomesLoaded]
        /\ pc' \in {"peek_select", "menu_select"}
        /\ UNCHANGED <<setup, state, current, result, asks>>
    BY DEF PeekResume, MenuResume, resume_session, StatesAgree, DiskAgrees
  <1>2. disk'.outcome = OutcomesLoaded /\ disk'.found /\ disk'.running = disk.running
    BY <1>1
  <1>3. asks = 0 => FileMatches'
    BY <1>1, <1>2, LoadedType DEF FileMatches, FileAgrees
  <1>4. FirstRun'
    BY <1>1, <1>3 DEF LoadedMatches, TurnIsOpen, RunningIsOpen
  <1>5. ReplacedForAReason
    BY <1>1, <1>2, LoadedEarned DEF ReplacedForAReason, Recorded
  <1>. QED BY <1>4, <1>5

(* The bootstrap job has no place among the results.                       *)
LEMMA FinishBootstrapJobFirstRun ==
  ASSUME RemoteInv, FirstRun, FinishBootstrapJob, pc' # "failed"
  PROVE  FirstRun' /\ disk'.outcome = disk.outcome
  <1>1. pc = "boot_wait" /\ state = "bootstrapping" /\ current = BootJob /\ current \notin Jobs
    BY JobsAssumption DEF FinishBootstrapJob, StatesAgree, ExecutorAgrees, BootJob
  <1>2. /\ UNCHANGED <<disk, outcome, asks, result, todo, current, setup, state>>
        /\ pc' = "boot_finish"
    BY <1>1 DEF FinishBootstrapJob, finish_job, sa_use_job_result, StateAfter
  <1>. QED
    BY <1>1, <1>2 DEF LoadedMatches, TurnIsOpen, RunningIsOpen, FileMatches, Recorded

(* A new session has no outcomes.                                          *)
LEMMA Finish_bootstrapFirstRun ==
  ASSUME RemoteInv, FirstRun, finish_bootstrap
  PROVE  FirstRun' /\ ReplacedForAReason
  BY DEF finish_bootstrap, NoOutcomes, StatesAgree, LoadedMatches, TurnIsOpen,
         RunningIsOpen, FileMatches, Recorded, ReplacedForAReason

(* The outcome of the job that ends is loaded and checkpointed at once.    *)
LEMMA JobEndsFirstRun ==
  ASSUME RemoteInv, FirstRun, NEW res, NEW next \in {"jobs", "rerun", "note"},
         finish_job(res, next), StatesAgree', UNCHANGED <<setup, result, asks>>,
         state \in {"running", "interacting"}, current \in Jobs,
         asks = 0 => outcome[current] = "none"
  PROVE  FirstRun' /\ ReplacedForAReason
  <1>1. asks = 0 => ~Recorded(current) BY DEF LoadedMatches
  <1>2. /\ outcome' = [outcome EXCEPT ![current] = ResultOf(res)]
        /\ disk' = [disk EXCEPT !.outcome[current] = ResultOf(res)]
        /\ state' \in {"idle", "testsselected"} /\ pc' = next
    BY DEF finish_job, sa_use_job_result, StateAfter, StatesAgree
  <1>a. /\ outcome'[current] = disk'.outcome[current]
        /\ \A j \in Jobs \ {current} :
             outcome'[j] = outcome[j] /\ disk'.outcome[j] = disk.outcome[j]
    BY <1>2
  <1>3. FirstRun'
    <2>1. asks = 0 => LoadedMatches' BY <1>a DEF LoadedMatches, Recorded
    <2>2. TurnIsOpen' /\ RunningIsOpen' /\ FileMatches'
      BY <1>2 DEF TurnIsOpen, RunningIsOpen, FileMatches, StatesAgree
    <2>. QED BY <2>1, <2>2
  <1>4. \A j \in Jobs : disk'.outcome[j] # disk.outcome[j] => j = current
    BY <1>a
  <1>5. asks > 0 \/ asks = 0 BY BoundAssumption
  <1>. QED BY <1>1, <1>3, <1>4, <1>5 DEF ReplacedForAReason

LEMMA FinishFirstRun ==
  ASSUME RemoteInv, FirstRun, StatesAgree',
         Rejoin \/ wait_for_job \/ FinishVerified \/ FinishSkipped
  PROVE  FirstRun' /\ ReplacedForAReason
  <1>1. CASE Rejoin
    <2>1. state = "running" /\ current \in Jobs BY <1>1 DEF Rejoin, StatesAgree, ExecutorAgrees
    <2>2. finish_job("none", "jobs") /\ UNCHANGED <<setup, result, asks>>
      BY <1>1 DEF Rejoin, StatesAgree
    <2>. QED BY <2>1, <2>2, JobEndsFirstRun DEF RunningIsOpen
  <1>2. CASE wait_for_job \/ FinishVerified \/ FinishSkipped
    <2>1. /\ state \in {"running", "interacting"}
          /\ current = Job /\ current \in Jobs /\ pc \in JobSteps
      BY <1>2, FirstJob DEF wait_for_job, FinishVerified, FinishSkipped, StatesAgree, JobAgrees
    <2>2. \/ finish_job("none", AfterJob)
          \/ finish_job(be.result, AfterJob)
      BY <1>2 DEF wait_for_job, FinishVerified, FinishSkipped, StatesAgree
    <2>3. AfterJob \in {"rerun", "note"} /\ UNCHANGED <<setup, result, asks>>
      BY <1>2 DEF AfterJob, wait_for_job, FinishVerified, FinishSkipped
    <2>. QED BY <2>1, <2>2, <2>3, JobEndsFirstRun DEF TurnIsOpen
  <1>. QED BY <1>1, <1>2

(* A resume takes a verdict from the file, or keeps what the disk has, and *)
(* gives an outcome to the job that was running.                           *)
LEMMA ResumeFirstRun ==
  ASSUME asks' = asks, NEW outcomes, resume_by_id(outcomes),
         disk.outcome \in [Jobs -> Outcomes], outcomes \in [Jobs -> Outcomes],
         pc' \in {"out", "jobs"}
  PROVE  FirstRun'
  BY DEF resume_by_id, LoadedMatches, TurnIsOpen, RunningIsOpen, FileMatches, Recorded

LEMMA Automatic_resumeFirstRun ==
  ASSUME RemoteInv, FirstRun, automatically_resume_last_session, pc' # "failed"
  PROVE  FirstRun' /\ ReplacedForAReason
  <1>1. /\ pc = "auto" /\ state = "idle" /\ disk.found /\ disk.running \in Jobs
        /\ result # NoFile => result.by = disk.running
        /\ resume_by_id(OutcomesOnResume(result)) /\ pc' = "jobs"
        /\ UNCHANGED <<asks, result>>
    BY DEF automatically_resume_last_session, StatesAgree, DiskAgrees, RunningShellJob, FileAgrees
  <1>2. /\ OutcomesOnResume(result) =
             [OutcomesLoaded EXCEPT ![disk.running] = LastOutcome(disk.running, result)]
        /\ LastOutcome(disk.running, result) \in Outcomes
    BY <1>1, LoadedType DEF OutcomesOnResume, ResumedOutcomes, LastOutcome, Outcomes
  <1>3. OutcomesOnResume(result) \in [Jobs -> Outcomes] BY <1>1, <1>2, LoadedType
  <1>4. FirstRun' BY <1>1, <1>3, ResumeFirstRun
  <1>5. \A j \in Jobs : Recorded(j) => OutcomesLoaded[j] = disk.outcome[j]
    BY <1>1, LoadedEarned DEF Recorded
  <1>6. ASSUME NEW j \in Jobs, Recorded(j), disk'.outcome[j] # disk.outcome[j]
        PROVE  /\ j = disk.running /\ result'.by = j /\ result'.outcome = disk'.outcome[j]
               /\ asks > 0 \/ j \in setup.autorestart
    <2>1. j = disk.running /\ disk'.outcome[j] = LastOutcome(j, result)
      BY <1>1, <1>2, <1>5, <1>6, LoadedType DEF resume_by_id
    <2>2. result # NoFile /\ disk'.outcome[j] = result.outcome
      BY <1>5, <1>6, <2>1 DEF LastOutcome, Recorded
    <2>3. disk.outcome[result.by] \notin {"none", result.outcome}
      BY <1>1, <1>6, <2>1, <2>2 DEF Recorded
    <2>4. asks # 0 \/ result.by \in setup.autorestart BY <1>1, <2>2, <2>3 DEF FileMatches
    <2>. QED BY <1>1, <2>1, <2>2, <2>4, BoundAssumption
  <1>. QED BY <1>4, <1>6 DEF ReplacedForAReason

LEMMA Resume_sessionFirstRun ==
  ASSUME RemoteInv, FirstRun, NEW answer \in {"pass", "fail", "skip", "none"},
         _resume_session(answer), pc' # "failed"
  PROVE  FirstRun' /\ ReplacedForAReason
  <1>1. /\ pc = "menu_answer" /\ pc' = "jobs" /\ UNCHANGED asks
        /\ resume_by_id(ResumedOutcomes(disk.running, answer))
    BY DEF _resume_session
  <1>a. Unloaded /\ disk.found BY <1>1 DEF StatesAgree, DiskAgrees
  <1>2. ResumedOutcomes(disk.running, answer) \in [Jobs -> Outcomes]
    BY LoadedType DEF ResumedOutcomes, Outcomes
  <1>3. FirstRun' BY <1>1, <1>2, ResumeFirstRun
  <1>4. \A j \in Jobs : Recorded(j) /\ disk'.outcome[j] # disk.outcome[j] => j = disk.running
    BY <1>1, <1>a, <1>2, LoadedEarned DEF resume_by_id, ResumedOutcomes, Recorded
  <1>. QED BY <1>1, <1>3, <1>4 DEF ReplacedForAReason

(* Starting a job and its commands: the job whose turn it is stays open.   *)
LEMMA RunningFirstRun ==
  ASSUME RemoteInv, FirstRun, pc' # "failed",
         \/ get_session_progress \/ note_metadata_starting_job \/ run_job
         \/ \E answer \in {"run", "skip"} : remember_users_response(answer)
         \/ RunJobGoesOn \/ \E o \in {"pass", "fail", "skip"} : Verdict(o)
  PROVE  FirstRun' /\ disk'.outcome = disk.outcome
  <1>. USE DEF StatesAgree, LoadedMatches, TurnIsOpen, RunningIsOpen, FileMatches, Recorded
  <1>1. CASE get_session_progress
    <2>1. /\ pc = "jobs" /\ pc' \in {"rerun", "note"}
          /\ UNCHANGED <<state, current, outcome, disk, result, asks>>
      BY <1>1 DEF get_session_progress
    <2>2. state' = "idle" => pc' = "rerun"
      BY <1>1, <2>1 DEF get_session_progress, ListAgrees
    <2>. QED BY <2>1, <2>2
  <1>2. CASE note_metadata_starting_job
    <2>a. pc = "note" /\ todo # {} BY <1>2 DEF note_metadata_starting_job, JobAgrees
    <2>b. Job \in todo BY <2>a, FirstJob
    <2>1. outcome[Job] = "none" BY <2>a, <2>b DEF ListAgrees
    <2>2. Job' = Job BY <1>2 DEF note_metadata_starting_job, Job
    <2>. QED BY <1>2, <2>1, <2>2 DEF note_metadata_starting_job
  <1>3. CASE run_job
    <2>1. Job' = Job BY <1>3 DEF run_job, Job
    <2>. QED BY <1>3, <2>1 DEF run_job, RunCommand
  <1>4. ASSUME NEW answer, remember_users_response(answer)
        PROVE  FirstRun' /\ disk'.outcome = disk.outcome
    <2>1. Job' = Job BY <1>4 DEF remember_users_response, Job
    <2>. QED BY <1>4, <2>1 DEF remember_users_response, JobAgrees
  <1>5. CASE RunJobGoesOn
    <2>1. Job' = Job BY <1>5 DEF RunJobGoesOn, Job
    <2>2. pc = "next" /\ current = Job /\ UNCHANGED <<current, outcome, result, asks>>
      BY <1>5 DEF RunJobGoesOn, JobAgrees
    <2>3. /\ state' \in {"interacting", "running"} /\ pc' \in {"skip", "verify", "wait"}
          /\ disk'.outcome = disk.outcome /\ disk'.found = disk.found
      BY <1>5 DEF RunJobGoesOn, RunCommand
    <2>4. LoadedMatches => LoadedMatches' BY <2>2, <2>3 DEF Loaded
    <2>. QED BY <2>1, <2>2, <2>3, <2>4
  <1>6. ASSUME NEW o, Verdict(o)
        PROVE  FirstRun' /\ disk'.outcome = disk.outcome
    <2>1. Job' = Job BY <1>6 DEF Verdict, Job
    <2>. QED BY <1>6, <2>1 DEF Verdict, JobAgrees
  <1>. QED BY <1>1, <1>2, <1>3, <1>4, <1>5, <1>6

(* From the first job asked for again there is nothing left to show of the *)
(* loaded session; the job had no outcome if it was the first.             *)
LEMMA AskFirstRun ==
  ASSUME RemoteInv, FirstRun, pc' # "failed", ReRunJob \/ SkipRefused
  PROVE  FirstRun' /\ ReplacedForAReason
  <1>1. /\ pc \in {"verify", "skip"} /\ state = "interacting" /\ current = Job
        /\ disk' = [disk EXCEPT !.outcome[Job] = be.result] \/ disk' = disk
        /\ asks' = asks + 1
    BY DEF ReRunJob, SkipRefused, rerun_job, sa_use_job_result, StatesAgree, JobAgrees
  <1>2. asks = 0 => ~Recorded(Job) BY <1>1, FirstJob DEF TurnIsOpen, LoadedMatches, JobAgrees
  <1>3. (asks > 0 \/ asks = 0) /\ asks' # 0 BY <1>1, BoundAssumption
  <1>4. \A j \in Jobs : disk'.outcome[j] # disk.outcome[j] => j = Job BY <1>1
  <1>. QED BY <1>1, <1>2, <1>3, <1>4 DEF ReplacedForAReason

LEMMA ClosingFirstRun ==
  ASSUME RemoteInv, FirstRun, pc' # "failed",
         \/ \E chosen \in SUBSET Jobs : prepare_rerun_candidates(chosen)
         \/ NoRerun \/ finish_session
  PROVE  FirstRun' /\ disk'.outcome = disk.outcome
  <1>1. ASSUME NEW chosen, prepare_rerun_candidates(chosen)
        PROVE  FirstRun' /\ disk'.outcome = disk.outcome
    <2>1. asks' = asks + 1 /\ disk' = disk BY <1>1 DEF prepare_rerun_candidates
    <2>. QED BY <2>1, BoundAssumption
  <1>2. CASE NoRerun
    BY <1>2 DEF NoRerun, LoadedMatches, TurnIsOpen, RunningIsOpen, FileMatches, Recorded
  <1>3. CASE finish_session
    <2>1. Resumable
      BY <1>3 DEF finish_session, StatesAgree, CallsAgree, Resumable, LoadedCalls, NormalCalls
    <2>. QED
      BY <1>3, <2>1 DEF finish_session, finalize_session, reset_sa, Forget, LoadedMatches,
                  TurnIsOpen, RunningIsOpen, FileMatches
  <1>. QED BY <1>1, <1>2, <1>3

LEMMA ExecutorFirstRun ==
  ASSUME RemoteInv, FirstRun, NEW r, ExecutorEnds(r)
  PROVE  FirstRun' /\ disk'.outcome = disk.outcome
  <1>1. UNCHANGED <<setup, state, pc, todo, current, outcome, disk, result, asks>> BY DEF ExecutorEnds
  <1>. QED BY <1>1 DEF LoadedMatches, TurnIsOpen, RunningIsOpen, FileMatches, Recorded, Job

-----------------------------------------------------------------------------
(* The faults.                                                             *)
LEMMA LossFirstRun ==
  ASSUME NoWindows, RemoteInv, FirstRun, Lose \/ Quit \/ KillCommand
  PROVE  FirstRun' /\ disk'.outcome = disk.outcome
  <1>1. MayStrike(LossWindows) BY DEF Lose, Quit, KillCommand, MayStrike
  <1>2. result # NoFile =>
          \/ disk.outcome[result.by] \in {"none", result.outcome}
          \/ result.by \in setup.autorestart
    BY <1>1, LossCoped
  <1>3. UNCHANGED <<setup, disk, result, asks>> BY DEF Lose, Quit, KillCommand
  <1>4. CASE Lose \/ KillCommand
    <2>1. /\ UNCHANGED <<state, current, outcome>> /\ pc' \in {"out", "dispatch"}
      BY <1>4 DEF Lose, KillCommand
    <2>. QED BY <1>2, <1>3, <2>1 DEF LoadedMatches, TurnIsOpen, RunningIsOpen, FileMatches, Recorded
  <1>5. CASE Quit
    BY <1>2, <1>3, <1>5
       DEF Quit, reset_sa, LoadedMatches, TurnIsOpen, RunningIsOpen, FileMatches
  <1>. QED BY <1>4, <1>5

LEMMA AbandonFirstRun ==
  ASSUME NoWindows, RemoteInv, FirstRun, Abandon
  PROVE  FirstRun' /\ disk'.outcome = disk.outcome
  <1>0. "finalize_session" \in allowed BY AbandonCoped DEF Abandon
  <1>1. /\ pc' = "dispatch" /\ state' = "idle" /\ UNCHANGED <<setup, result, asks>>
        /\ disk' = IF Resumable THEN [disk EXCEPT !.found = FALSE] ELSE disk
    BY <1>0 DEF Abandon, finalize_session, reset_sa
  <1>2. disk'.found => disk' = disk /\ Unloaded
    BY <1>1 DEF CallsAgree, Resumable, LoadedCalls, NormalCalls
  <1>. QED BY <1>1, <1>2 DEF LoadedMatches, TurnIsOpen, RunningIsOpen, FileMatches

(* A command without return leaves its verdict for a job that had none; a  *)
(* resume at once takes it from the file.                                  *)
LEMMA AgentCrashFirstRun ==
  ASSUME NoWindows, RemoteInv, FirstRun, AgentCrash
  PROVE  FirstRun' /\ ReplacedForAReason
  <1>1. /\ pc' = "out" /\ UNCHANGED <<setup, asks>>
        /\ MayStrike({"asked", "noted", "leftover", "unstarted", "autorestarted"})
        /\ \/ result' = result
           \/ Reboots /\ result' \in [by : {be.job}, outcome : {"pass", "fail", "skip"}]
    BY DEF AgentCrash
  <1>a. result'.outcome \in Outcomes BY <1>1 DEF Outcomes
  <1>2. Reboots => /\ be.job = current /\ current \in Jobs /\ disk.running = current
                   /\ state \in {"running", "interacting"}
                   /\ asks = 0 => ~Recorded(current)
    <2>. SUFFICES ASSUME Reboots
                  PROVE  /\ be.job = current /\ current \in Jobs /\ disk.running = current
                         /\ state \in {"running", "interacting"}
                         /\ asks = 0 => ~Recorded(current)
      OBVIOUS
    <2>1. /\ be.alive /\ be.job \in Jobs /\ be.job = current /\ disk.running = current
          /\ ~Verified(current) /\ lock
      BY DEF Reboots, Started, ExecutorAgrees, Verified
    <2>2. state = "running"
      BY <2>1, JobsAssumption DEF StatesAgree, ExecutorAgrees, JobAgrees, BootJob
    <2>. QED BY <2>1, <2>2 DEF RunningIsOpen, LoadedMatches
  <1>3. result' # NoFile =>
          /\ result'.by = disk.running
          /\ \/ disk.outcome[result'.by] \in {"none", result'.outcome}
             \/ asks # 0
             \/ result'.by \in setup.autorestart
    <2>1. CASE result' = result BY <1>1, <2>1, CrashCoped
    <2>2. CASE Reboots /\ result'.by = be.job BY <1>1, <1>2, <2>2 DEF Recorded
    <2>. QED BY <1>1, <2>1, <2>2
  <1>4. CASE state' = "idle" /\ UNCHANGED disk
    BY <1>1, <1>3, <1>4, NothingReplaced DEF LoadedMatches, TurnIsOpen, RunningIsOpen, FileMatches
  <1>5. CASE disk.found /\ resume_by_id(OutcomesOnResume(result'))
    <2>a. \A j \in Jobs : Recorded(j) => OutcomesLoaded[j] = disk.outcome[j]
      BY <1>1, <1>5, CrashCoped, LoadedType DEF Recorded
    <2>1. OutcomesOnResume(result') =
            IF disk.running \in Jobs
              THEN [OutcomesLoaded EXCEPT ![disk.running] = LastOutcome(disk.running, result')]
              ELSE OutcomesLoaded
      BY DEF OutcomesOnResume, ResumedOutcomes
    <2>2. disk.running \in Jobs => LastOutcome(disk.running, result') \in Outcomes
      BY <1>a, LoadedType DEF LastOutcome, Outcomes
    <2>3. OutcomesOnResume(result') \in [Jobs -> Outcomes] BY <2>1, <2>2, LoadedType
    <2>4. FirstRun' BY <1>1, <1>5, <2>3, ResumeFirstRun
    <2>5. ASSUME NEW j \in Jobs, Recorded(j), disk'.outcome[j] # disk.outcome[j]
          PROVE  /\ j = disk.running /\ result'.by = j
                 /\ result'.outcome = disk'.outcome[j]
                 /\ asks > 0 \/ j \in setup.autorestart
      <3>1. j = disk.running /\ disk'.outcome[j] = LastOutcome(j, result')
        BY <1>5, <2>a, <2>1, <2>3, <2>5, LoadedType DEF resume_by_id
      <3>2. /\ result' # NoFile /\ disk'.outcome[j] = result'.outcome
            /\ disk.outcome[j] \notin {"none", result'.outcome}
        BY <2>a, <2>5, <3>1 DEF LastOutcome, Recorded
      <3>. QED BY <1>3, <3>1, <3>2, BoundAssumption
    <2>. QED BY <2>4, <2>5 DEF ReplacedForAReason
  <1>. QED BY <1>1, <1>4, <1>5 DEF AgentCrash, reset_sa

-----------------------------------------------------------------------------
LEMMA InitFirstRun == Init => FirstRun
  BY DEF Init, LoadedMatches, TurnIsOpen, RunningIsOpen, FileMatches

(* Every step keeps the invariant and replaces no outcome without a reason.*)
LEMMA NextFirstRun ==
  ASSUME NoWindows, RemoteInv, StatesAgree', FirstRun, [Next]_vars
  PROVE  FirstRun' /\ ReplacedForAReason
  <1>0. pc' # "failed" BY DEF StatesAgree
  <1>1. CASE Connecting
    <2>1. CASE Rejoin BY <2>1, FinishFirstRun
    <2>2. CASE automatically_resume_last_session BY <1>0, <2>2, Automatic_resumeFirstRun
    <2>3. CASE PeekResume BY <1>0, <2>3, LoadingFirstRun
    <2>. QED BY <1>0, <1>1, <2>1, <2>2, <2>3, ConnectingFirstRun, NothingReplaced
  <1>2. CASE Starting
    <2>1. CASE FinishBootstrapJob
      BY <1>0, <2>1, FinishBootstrapJobFirstRun, NothingReplaced
    <2>2. CASE finish_bootstrap BY <2>2, Finish_bootstrapFirstRun
    <2>3. CASE \E answer \in {"pass", "fail", "skip", "none"} : _resume_session(answer)
      BY <1>0, <2>3, Resume_sessionFirstRun
    <2>a. CASE MenuResume BY <1>0, <2>a, LoadingFirstRun
    <2>4. CASE /\ ~FinishBootstrapJob /\ ~finish_bootstrap /\ ~MenuResume
               /\ ~\E answer \in {"pass", "fail", "skip", "none"} : _resume_session(answer)
      BY <1>0, <1>2, <2>4, StartingFirstRun, NothingReplaced
    <2>. QED BY <2>1, <2>2, <2>3, <2>a, <2>4
  <1>3. CASE Running
    <2>1. CASE wait_for_job \/ FinishVerified \/ FinishSkipped BY <2>1, FinishFirstRun
    <2>2. CASE ReRunJob \/ SkipRefused BY <1>0, <2>2, AskFirstRun
    <2>3. CASE \/ \E chosen \in SUBSET Jobs : prepare_rerun_candidates(chosen)
               \/ NoRerun \/ finish_session
      BY <1>0, <2>3, ClosingFirstRun, NothingReplaced
    <2>4. CASE \/ get_session_progress \/ note_metadata_starting_job \/ run_job
               \/ \E answer \in {"run", "skip"} : remember_users_response(answer)
               \/ RunJobGoesOn \/ \E o \in {"pass", "fail", "skip"} : Verdict(o)
      BY <1>0, <2>4, RunningFirstRun, NothingReplaced
    <2>. QED BY <1>3, <2>1, <2>2, <2>3, <2>4 DEF Running
  <1>4. CASE Executor
    <2>1. ~ReplacedEnds BY DEF ReplacedEnds, ExecutorAgrees
    <2>. QED BY <1>4, <2>1, ExecutorFirstRun, NothingReplaced DEF Executor
  <1>5. CASE Faults
    BY <1>5, LossFirstRun, AbandonFirstRun, AgentCrashFirstRun, NothingReplaced DEF Faults
  <1>6. CASE UNCHANGED vars
    <2>1. UNCHANGED <<setup, state, pc, todo, current, outcome, disk, result, asks>>
      BY <1>6 DEF vars
    <2>2. FirstRun'
      BY <2>1 DEF LoadedMatches, TurnIsOpen, RunningIsOpen, FileMatches, Recorded, Job
    <2>. QED BY <2>1, <2>2, NothingReplaced
  <1>. QED BY <1>1, <1>2, <1>3, <1>4, <1>5, <1>6 DEF Next, Controller, Finished

(* Where no job was asked for again, a job that has its turn has no        *)
(* outcome, in every reachable state.                                      *)
THEOREM FirstRunInvariance == NoWindows => (Spec => []RunInv)
  <1>. SUFFICES ASSUME NoWindows PROVE Spec => []RunInv OBVIOUS
  <1>1. Init => RunInv BY StartsAgreed, InitFirstRun DEF RunInv
  <1>2. RunInv /\ [Next]_vars => RunInv'
    <2>. SUFFICES ASSUME RunInv, [Next]_vars PROVE RunInv' OBVIOUS
    <2>1. RemoteInv' BY StaysAgreed DEF RunInv
    <2>2. StatesAgree' BY <2>1
    <2>3. FirstRun' BY <2>2, NextFirstRun DEF RunInv
    <2>. QED BY <2>1, <2>3 DEF RunInv
  <1>. QED BY <1>1, <1>2, PTL DEF Spec

(* No reconnection, no restart of the agent and no resume changes the      *)
(* checkpointed outcome of a job that nobody asked to run again            *)
(* (finish_job, rerun_job and resume_by_id in remote_assistant.py).        *)
THEOREM ResultsAreKept == NoWindows => (Spec => ResultsKept)
  <1>. SUFFICES ASSUME NoWindows PROVE Spec => ResultsKept OBVIOUS
  <1>1. RunInv /\ RunInv' /\ [Next]_vars => [ReplacedForAReason]_vars
    BY NextFirstRun DEF RunInv
  <1>2. Spec => [][ReplacedForAReason]_vars BY <1>1, FirstRunInvariance, PTL DEF Spec
  <1>. QED BY <1>2 DEF ResultsKept, ReplacedForAReason

=============================================================================
