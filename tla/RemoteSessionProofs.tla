------------------------- MODULE RemoteSessionProofs -------------------------
(***************************************************************************)
(* Proofs about RemoteSession, for every list of jobs, every session and   *)
(* any number of faults, outside the moments of WindowNames.  Where the    *)
(* controller is, what the agent is up to and which calls its session      *)
(* assistant accepts are three views of one thing: the invariant says how  *)
(* they agree, also when the controller has just been lost.                *)
(***************************************************************************)
EXTENDS RemoteSession, TLAPS

NoWindows == Windows = {}

(* The stretches of the dialogue.                                          *)
Peeking ==
  {"peek", "peek_resume", "peek_select", "peek_bootstrap", "peek_abandon", "auto"}
MenuResuming == {"menu_resume", "menu_select", "menu_bootstrap", "menu_answer"}
JobSteps == {"run", "prompt", "next", "wait", "verify", "verified", "skip"}
Closing == {"rerun", "finish"}

(* A session whose jobs can be run is loaded.                              *)
Loaded ==
  \/ state \in {"bootstrapped", "testsselected", "running", "interacting"}
  \/ pc \in Closing \cup {"jobs"}

(* No session is loaded, and one may be that is on the disk.               *)
Unloaded == state \in {"idle", "started", "bootstrapping"} /\ ~Loaded

(* What the session assistant always accepts then.                         *)
LoadedCalls == NormalCalls \ {"run_job", "use_job_result"}

(* Where the controller is says what state the agent is in.                *)
StatesAgree ==
  /\ pc \in Peeking \cup {"choose", "done"} => state = "idle"
  /\ pc \in MenuResuming \cup {"menu", "prepare", "boot_list", "boot_run"} => state = "started"
  /\ pc = "boot_wait" => state = "bootstrapping"
  /\ pc \in {"boot_finish", "restart"} => state \in {"started", "bootstrapping"}
  /\ pc = "select" => state = "bootstrapped"
  /\ pc \in {"note", "run"} => state = "testsselected"
  /\ pc \in {"wait", "next", "verified", "rejoin"} => state = "running"
  /\ pc \in {"prompt", "verify", "skip", "rollback"} => state = "interacting"
  /\ pc \in Closing \cup {"jobs"} => state \in {"idle", "testsselected"}
  /\ pc # "failed"

(* Both say what the session assistant accepts.                            *)
CallsAgree ==
  /\ state = "idle" /\ pc # "peek_bootstrap" => "get_resumable_sessions" \in allowed
  /\ pc = "menu" => "get_resumable_sessions" \in allowed
  /\ pc \in {"peek_resume", "menu_resume"} => "resume_session" \in allowed
  /\ pc \in {"peek_select", "menu", "menu_select", "prepare"} => "select_test_plan" \in allowed
  /\ pc \in {"peek_bootstrap", "menu_bootstrap"} => "bootstrap" \in allowed
  /\ pc = "boot_list" => SelectedCalls \subseteq allowed
  /\ pc = "auto" => "resume_session" \in allowed
  /\ pc \in {"peek_abandon", "menu_answer", "boot_run"} => NormalCalls \subseteq allowed
  /\ state = "bootstrapping" \/ pc = "boot_finish" \/ Loaded => LoadedCalls \subseteq allowed
  /\ Loaded => "bootstrap" \notin allowed
  /\ state = "started"
       /\ pc \notin {"menu_select", "menu_bootstrap", "menu_answer", "boot_list"} =>
       "finalize_session" \in allowed
  /\ state \in {"started", "bootstrapping"} /\ pc # "menu_answer" =>
       "get_job" \notin allowed \/ "bootstrap" \in allowed

(* A job can be started where one may be, and its result be used.          *)
RunExpected ==
  /\ state \in {"bootstrapped", "testsselected"} => "run_job" \in allowed
  /\ pc \in Closing \cup {"boot_run", "next", "jobs"} => "run_job" \in allowed
  /\ state = "interacting" /\ (pc = "verify" => ~HasCommand(Job)) => "run_job" \in allowed
  /\ be.alive => "run_job" \in allowed
  /\ state = "running" \/ pc \in JobSteps \ {"run"} => "use_job_result" \in allowed
  /\ pc = "boot_wait" => "use_job_result" \in allowed

(* The executor runs the job the agent is in the state for, or has its     *)
(* result, and holds the lock just as long.                                *)
ExecutorAgrees ==
  /\ lock => state \in {"bootstrapping", "running", "interacting"}
  /\ pc \in {"boot_finish", "prompt", "next"} => ~lock
  /\ be.alive =>
       /\ lock /\ be.result = "none" /\ be.job = current
       /\ current \in Jobs => disk.found /\ disk.running = current /\ HasCommand(current)
       /\ state = "interacting" => pc = "verify"
  /\ state = "started" => be.job = NoJob /\ be.result = "none" /\ ~be.alive
  /\ state = "bootstrapping" =>
       be.job = BootJob /\ current = BootJob /\ (be.alive \/ be.result # "none")
  /\ state = "running" /\ pc \notin {"next", "verified"} =>
       /\ current \in Jobs /\ ~Verified(current)
       /\ be.job = current /\ (be.alive \/ be.result # "none")
       /\ be.result = "undecided" => setup.kind[current] = "user-verify"
  /\ be.beside = 0

(* The job whose turn it is.                                               *)
JobAgrees ==
  /\ pc \in JobSteps \cup {"note"} => todo # {}
  /\ pc \in JobSteps => disk.running = Job
  /\ pc \in JobSteps \ {"run"} => current = Job
  /\ pc \in {"wait", "verify", "verified", "skip"} =>
       be.job = Job /\ (be.alive \/ be.result # "none")
  /\ pc = "prompt" => Interactive(Job)
  /\ pc \in {"verify", "verified"} => Verified(Job)
  /\ pc \in {"verified", "skip"} => ~be.alive /\ be.result # "undecided"
  /\ pc \in {"verify", "skip"} => be.result # "pass"

(* What the list still has is what has no outcome, but for a job that is   *)
(* run again.                                                              *)
ListAgrees ==
  /\ pc \in JobSteps \cup {"note"} => \A j \in Jobs \ todo : outcome[j] # "none"
  /\ pc \in JobSteps => \A j \in todo \ {Job} : outcome[j] = "none"
  /\ pc = "note" => \A j \in todo : outcome[j] = "none"
  /\ pc \in Closing \/ (pc = "jobs" /\ state = "idle") => \A j \in Jobs : outcome[j] # "none"
  /\ Loaded => \A j \in Jobs : outcome[j] = "undecided" =>
       (pc \in JobSteps /\ j = Job) \/ setup.kind[j] = "user-verify"
  /\ disk.found => \A j \in Jobs : disk.outcome[j] = "undecided" =>
       (pc \in JobSteps /\ j = Job /\ outcome[j] = "undecided") \/ setup.kind[j] = "user-verify"
  /\ AllJobsReported

DiskAgrees ==
  /\ Loaded => disk.found /\ \A j \in Jobs : outcome[j] \in {"none", disk.outcome[j]}
  /\ pc \in (Peeking \ {"peek"}) \cup MenuResuming => disk.found
  /\ disk.found /\ disk.running = NoJob =>
       pc \in {"select", "jobs", "note"} \cup Closing /\ result = NoFile
  /\ pc = "auto" => RunningShellJob
  /\ pc \in MenuResuming \cup {"choose", "menu"} /\ disk.found => ~RunningShellJob
  /\ disk.found /\ Unloaded /\ disk.running \in setup.autorestart =>
       disk.outcome[disk.running] \in
         {"none", IF setup.kind[disk.running] = "noreturn" THEN "pass" ELSE "fail"}

(* What is known of the jobs that were passed, or are about to be.         *)
PassesEarned ==
  /\ PassIsEarned
  /\ be.result = "pass" => be.job \in earned \cup {BootJob}
  /\ Loaded => \A j \in Jobs : outcome[j] = "none" => disk.outcome[j] # "pass"
  /\ pc \in JobSteps => outcome[Job] # "pass"
  /\ pc # "done" => \A j \in Jobs : report[j] = "none"

FileAgrees ==
  /\ result.outcome # "undecided"
  /\ result # NoFile =>
       result.by \in Jobs /\ setup.kind[result.by] = "noreturn" /\ result.outcome # "none"
  /\ disk.found /\ result.outcome = "pass" =>
       result.by \in earned \/ disk.outcome[result.by] \notin {"none", "pass"}
  /\ disk.found /\ Loaded /\ result # NoFile => disk.outcome[result.by] # "none"
  /\ disk.found /\ Unloaded /\ result # NoFile =>
       result.by = disk.running /\ (result.outcome = "pass" => result.by \in earned)
  /\ disk.found /\ Unloaded /\ disk.running \in Jobs
       /\ setup.kind[disk.running] = "noreturn" /\ ~Recorded(disk.running) =>
       disk.running \in earned

RemoteInv ==
  /\ TypeOK /\ error = "none"
  /\ StatesAgree /\ CallsAgree /\ RunExpected /\ ExecutorAgrees
  /\ JobAgrees /\ ListAgrees /\ DiskAgrees /\ PassesEarned /\ FileAgrees

-----------------------------------------------------------------------------
USE DEF RemoteInv, TypeOK, Quiet, SameJob, rsaVars, States, Rpc, Fails, Peeking,
        MenuResuming, JobSteps, Closing, Loaded, LoadedCalls, Unloaded,
        NormalCalls, FreshCalls, StartedCalls, ResumedCalls, SelectedCalls

(* Facts about jobs and executors that many actions need.                  *)
LEMMA FirstJob ==
  ASSUME todo \subseteq Jobs, todo # {}
  PROVE  Job \in todo
  BY JobsAssumption DEF Job, Min

LEMMA NewExecutorType ==
  ASSUME NEW j \in JobIds, NEW alive \in BOOLEAN, NEW r \in Outcomes,
         be \in ExecutorRecords, BackgroundExecutor(j, alive, r)
  PROVE  be' \in ExecutorRecords
  <1>1. be.beside + (IF be.alive THEN 1 ELSE 0) \in Nat BY DEF ExecutorRecords
  <1>. QED BY <1>1 DEF BackgroundExecutor, ExecutorRecords

LEMMA NoExecutorType == NoExecutor \in ExecutorRecords
  BY DEF NoExecutor, JobIds, Outcomes, ExecutorRecords

(* What a controller does keeps the invariant: one lemma for each of its   *)
(* actions, in the order of the dialogue.                                  *)
LEMMA ConnectKeeps ==
  ASSUME RemoteInv, Connect
  PROVE  RemoteInv'
  <1>. USE DEF Connect
  <1>1. TypeOK' /\ error' = "none" BY DEF Disconnected, Dialogue
  <1>2. StatesAgree' BY DEF StatesAgree
  <1>3. CallsAgree' BY DEF CallsAgree
  <1>4. RunExpected' BY DEF RunExpected
  <1>5. ExecutorAgrees' BY DEF ExecutorAgrees, Verified, HasCommand
  <1>6. JobAgrees' BY DEF JobAgrees
  <1>7. ListAgrees' BY DEF ListAgrees, AllJobsReported
  <1>8. DiskAgrees' BY DEF DiskAgrees
  <1>9. PassesEarned' BY DEF PassesEarned, PassIsEarned
  <1>10. FileAgrees' BY DEF FileAgrees, Recorded
  <1>. QED BY <1>1, <1>2, <1>3, <1>4, <1>5, <1>6, <1>7, <1>8, <1>9, <1>10

LEMMA Whats_upKeeps ==
  ASSUME RemoteInv, whats_up
  PROVE  RemoteInv'
  <1>. USE DEF whats_up, Dispatch
  <1>1. TypeOK' /\ error' = "none" BY DEF Disconnected, Dialogue
  <1>2. StatesAgree' BY DEF StatesAgree
  <1>3. CallsAgree' BY DEF CallsAgree
  <1>4. RunExpected' BY DEF RunExpected
  <1>5. ExecutorAgrees' BY DEF ExecutorAgrees, Verified, HasCommand
  <1>6. JobAgrees' BY DEF JobAgrees
  <1>7. ListAgrees' BY DEF ListAgrees, AllJobsReported
  <1>8. DiskAgrees' BY DEF DiskAgrees
  <1>9. PassesEarned' BY DEF PassesEarned, PassIsEarned
  <1>10. FileAgrees' BY DEF FileAgrees, Recorded
  <1>. QED BY <1>1, <1>2, <1>3, <1>4, <1>5, <1>6, <1>7, <1>8, <1>9, <1>10

LEMMA RestartKeeps ==
  ASSUME RemoteInv, Restart
  PROVE  RemoteInv'
  <1>. USE DEF Restart, finalize_session, Resumable, reset_sa, Forget, NoOutcomes
  <1>0. "finalize_session" \in allowed BY DEF StatesAgree, CallsAgree
  <1>1. TypeOK' /\ error' = "none"
    <2>1. error' = "none" BY <1>0
    <2>2. allowed' \subseteq Calls BY DEF Calls
    <2>3. pc' \in Disconnected \cup Dialogue BY DEF Disconnected, Dialogue
    <2>4. current' \in JobIds BY DEF JobIds
    <2>5. be' \in ExecutorRecords
      BY NewExecutorType, NoExecutorType
    <2>6. lock' \in BOOLEAN BY <1>0, BoundAssumption DEF NoExecutor
    <2>7. outcome' \in [Jobs -> Outcomes] /\ report' \in [Jobs -> Outcomes]
      BY DEF Outcomes
    <2>8. disk' \in [found : BOOLEAN, running : JobIds, outcome : [Jobs -> Outcomes]]
      BY <1>0, BoundAssumption
         DEF JobIds, Outcomes, NoJob, BootJob, NoExecutor, JobAgrees, ExecutorAgrees
    <2>9. /\ state' \in States /\ setup' \in SetupType
          /\ response' \in {"none", "run", "skip", "verdict"}
          /\ result' \in [by : Jobs \cup {NoJob}, outcome : Outcomes]
          /\ todo' \subseteq Jobs /\ faults' \in 0..MaxFaults /\ asks' \in 0..MaxAsks
          /\ earned' \subseteq Jobs
      OBVIOUS
    <2>. QED BY <2>1, <2>2, <2>3, <2>4, <2>5, <2>6, <2>7, <2>8, <2>9
  <1>2. StatesAgree' BY <1>0 DEF StatesAgree
  <1>3. CallsAgree' BY DEF CallsAgree
  <1>4. RunExpected' BY DEF RunExpected, HasCommand, NoExecutor
  <1>5. ExecutorAgrees' BY DEF ExecutorAgrees, Verified, HasCommand, NoExecutor
  <1>6. JobAgrees' BY DEF JobAgrees
  <1>7. ListAgrees' BY DEF ListAgrees, AllJobsReported
  <1>8. DiskAgrees' BY DEF StatesAgree, DiskAgrees
  <1>9. PassesEarned' BY DEF StatesAgree, PassesEarned, PassIsEarned, NoExecutor
  <1>10. FileAgrees' BY DEF StatesAgree, FileAgrees, Recorded
  <1>. QED BY <1>1, <1>2, <1>3, <1>4, <1>5, <1>6, <1>7, <1>8, <1>9, <1>10

LEMMA RollbackKeeps ==
  ASSUME RemoteInv, Rollback
  PROVE  RemoteInv'
  <1>. USE DEF Rollback
  <1>0. state = "interacting" BY JobsAssumption DEF StatesAgree
  <1>1. TypeOK' /\ error' = "none"
    <2>1. /\ error' = "none" /\ state' \in States /\ allowed' \subseteq Calls
          /\ pc' \in Disconnected \cup Dialogue /\ current' \in JobIds
          /\ lock' \in BOOLEAN /\ setup' \in SetupType
          /\ response' \in {"none", "run", "skip", "verdict"}
          /\ result' \in [by : Jobs \cup {NoJob}, outcome : Outcomes]
          /\ todo' \subseteq Jobs /\ faults' \in 0..MaxFaults /\ asks' \in 0..MaxAsks
          /\ earned' \subseteq Jobs
      BY JobsAssumption, <1>0, BoundAssumption, ZenonT(40)
         DEF StatesAgree, BootJob, JobAgrees, ExecutorAgrees, Calls, Disconnected,
             Dialogue, JobIds, NoJob, NoFile, Outcomes
    <2>2. be' \in ExecutorRecords OBVIOUS
    <2>3. /\ outcome' \in [Jobs -> Outcomes] /\ report' \in [Jobs -> Outcomes]
          /\ disk' \in [found : BOOLEAN, running : JobIds, outcome : [Jobs -> Outcomes]]
      OBVIOUS
    <2>. QED BY <2>1, <2>2, <2>3
  <1>2. StatesAgree' BY DEF StatesAgree
  <1>3. CallsAgree' BY DEF CallsAgree
  <1>4. RunExpected' BY DEF RunExpected
  <1>5. ExecutorAgrees' BY <1>0 DEF ExecutorAgrees
  <1>6. JobAgrees' BY DEF JobAgrees
  <1>7. ListAgrees' BY DEF StatesAgree, ListAgrees, AllJobsReported
  <1>8. DiskAgrees' BY DEF DiskAgrees
  <1>9. PassesEarned' BY DEF StatesAgree, PassesEarned, PassIsEarned
  <1>10. FileAgrees' BY <1>0 DEF FileAgrees
  <1>. QED BY <1>1, <1>2, <1>3, <1>4, <1>5, <1>6, <1>7, <1>8, <1>9, <1>10

LEMMA RejoinKeeps ==
  ASSUME RemoteInv, Rejoin
  PROVE  RemoteInv'
  <1>. USE DEF Rejoin, finish_job, sa_use_job_result, ResultOf, StateAfter, Verified
  <1>0. "get_job" \in allowed /\ "use_job_result" \in allowed
    BY JobsAssumption DEF StatesAgree, CallsAgree, RunExpected
  <1>1. TypeOK' /\ error' = "none"
    <2>1. error' = "none" BY <1>0 DEF StatesAgree, ExecutorAgrees
    <2>2. allowed' \subseteq Calls BY DEF Calls
    <2>3. pc' \in Disconnected \cup Dialogue BY DEF Disconnected, Dialogue
    <2>4. lock' \in BOOLEAN BY <1>0, BoundAssumption
    <2>5. outcome' \in [Jobs -> Outcomes] /\ report' \in [Jobs -> Outcomes]
      BY DEF Outcomes, ExecutorRecords
    <2>6. disk' \in [found : BOOLEAN, running : JobIds, outcome : [Jobs -> Outcomes]]
      BY DEF Outcomes, ExecutorRecords
    <2>7. /\ state' \in States /\ current' \in JobIds
          /\ be' \in ExecutorRecords
          /\ setup' \in SetupType /\ response' \in {"none", "run", "skip", "verdict"}
          /\ result' \in [by : Jobs \cup {NoJob}, outcome : Outcomes]
          /\ todo' \subseteq Jobs /\ faults' \in 0..MaxFaults /\ asks' \in 0..MaxAsks
          /\ earned' \subseteq Jobs
      OBVIOUS
    <2>. QED BY <2>1, <2>2, <2>3, <2>4, <2>5, <2>6, <2>7
  <1>2. StatesAgree' BY <1>0 DEF StatesAgree, ExecutorAgrees
  <1>3. CallsAgree' BY DEF StatesAgree, CallsAgree
  <1>4. RunExpected' BY DEF RunExpected
  <1>5. ExecutorAgrees' BY DEF ExecutorAgrees
  <1>6. JobAgrees' BY DEF JobAgrees
  <1>7. ListAgrees' BY DEF StatesAgree, ListAgrees, AllJobsReported, ExecutorAgrees
  <1>8. DiskAgrees' BY DEF StatesAgree, DiskAgrees
  <1>9. PassesEarned'
    BY JobsAssumption
       DEF StatesAgree, PassesEarned, PassIsEarned, ExecutorAgrees, BootJob
  <1>10. FileAgrees'
    BY JobsAssumption
       DEF StatesAgree, FileAgrees, NoFile, PassesEarned, ExecutorAgrees, BootJob
  <1>. QED BY <1>1, <1>2, <1>3, <1>4, <1>5, <1>6, <1>7, <1>8, <1>9, <1>10

LEMMA PeekListKeeps ==
  ASSUME RemoteInv, PeekList
  PROVE  RemoteInv'
  <1>. USE DEF PeekList, get_resumable_sessions
  <1>0. "get_resumable_sessions" \in allowed BY DEF StatesAgree, CallsAgree
  <1>1. TypeOK' /\ error' = "none"
    <2>1. error' = "none" BY <1>0
    <2>2. allowed' \subseteq Calls BY <1>0, BoundAssumption DEF Calls
    <2>3. pc' \in Disconnected \cup Dialogue BY DEF Disconnected, Dialogue
    <2>4. /\ state' \in States /\ current' \in JobIds
          /\ be' \in ExecutorRecords
          /\ lock' \in BOOLEAN /\ outcome' \in [Jobs -> Outcomes]
          /\ report' \in [Jobs -> Outcomes]
          /\ disk' \in [found : BOOLEAN, running : JobIds, outcome : [Jobs -> Outcomes]]
          /\ setup' \in SetupType /\ response' \in {"none", "run", "skip", "verdict"}
          /\ result' \in [by : Jobs \cup {NoJob}, outcome : Outcomes]
          /\ todo' \subseteq Jobs /\ faults' \in 0..MaxFaults /\ asks' \in 0..MaxAsks
          /\ earned' \subseteq Jobs
      OBVIOUS
    <2>. QED BY <2>1, <2>2, <2>3, <2>4
  <1>2. StatesAgree' BY <1>0 DEF StatesAgree
  <1>3. CallsAgree' BY DEF CallsAgree
  <1>4. RunExpected' BY DEF RunExpected
  <1>5. ExecutorAgrees' BY DEF StatesAgree, ExecutorAgrees
  <1>6. JobAgrees' BY DEF JobAgrees
  <1>7. ListAgrees' BY DEF StatesAgree, ListAgrees, AllJobsReported
  <1>8. DiskAgrees' BY DEF DiskAgrees
  <1>9. PassesEarned'
    BY <1>0, JobsAssumption
       DEF StatesAgree, PassesEarned, PassIsEarned, DiskAgrees, ListAgrees,
           ExecutorAgrees, JobAgrees, FileAgrees, NoFile, RunningShellJob, BootJob
  <1>10. FileAgrees' BY DEF StatesAgree, FileAgrees, Recorded
  <1>. QED BY <1>1, <1>2, <1>3, <1>4, <1>5, <1>6, <1>7, <1>8, <1>9, <1>10

(* What is loaded of a session that is resumed: an autorestart job that    *)
(* was running has the outcome of its restart, all else is as it was.      *)
LEMMA LoadedType ==
  ASSUME TypeOK
  PROVE  /\ OutcomesLoaded \in [Jobs -> Outcomes]
         /\ \A j \in Jobs :
              OutcomesLoaded[j] = IF j = disk.running /\ j \in setup.autorestart
                                    THEN RestartOutcome(j) ELSE disk.outcome[j]
         /\ disk.running \notin setup.autorestart => OutcomesLoaded = disk.outcome
         /\ setup.autorestart \subseteq Jobs
  <1>1. disk.outcome \in [Jobs -> Outcomes] /\ setup.autorestart \subseteq Jobs
    BY DEF SetupType
  <1>2. \A j \in Jobs : RestartOutcome(j) \in Outcomes BY DEF RestartOutcome, Outcomes
  <1>3. CASE disk.running \notin setup.autorestart BY <1>1, <1>3 DEF OutcomesLoaded
  <1>4. CASE disk.running \in setup.autorestart
    <2>1. OutcomesLoaded = [disk.outcome EXCEPT ![disk.running] = RestartOutcome(disk.running)]
      BY <1>4 DEF OutcomesLoaded
    <2>. QED BY <1>1, <1>2, <1>4, <2>1
  <1>. QED BY <1>3, <1>4

LEMMA LoadedEarned ==
  ASSUME RemoteInv, Unloaded, disk.found
  PROVE  /\ OutcomesLoaded \in [Jobs -> Outcomes]
         /\ \A j \in Jobs :
              /\ disk.outcome[j] # "none" => OutcomesLoaded[j] = disk.outcome[j]
              /\ OutcomesLoaded[j] = "undecided" => setup.kind[j] = "user-verify"
              /\ OutcomesLoaded[j] = "pass" => j \in earned
         /\ disk.running \in setup.autorestart =>
              OutcomesLoaded[disk.running] =
                IF setup.kind[disk.running] = "noreturn" THEN "pass" ELSE "fail"
  <1>1. \A j \in Jobs :
          /\ disk.outcome[j] = "undecided" => setup.kind[j] = "user-verify"
          /\ disk.outcome[j] = "pass" => j \in earned
    BY DEF ListAgrees, StatesAgree, PassesEarned, PassIsEarned
  <1>2. disk.running \in setup.autorestart =>
          /\ disk.outcome[disk.running] \in {"none", RestartOutcome(disk.running)}
          /\ RestartOutcome(disk.running) = "pass" => disk.running \in earned
    BY <1>1, LoadedType DEF RestartOutcome, DiskAgrees, FileAgrees, Recorded
  <1>3. \A j \in Jobs : RestartOutcome(j) \in {"pass", "fail"} BY DEF RestartOutcome
  <1>. QED BY <1>1, <1>2, <1>3, LoadedType DEF RestartOutcome

LEMMA PeekResumeKeeps ==
  ASSUME RemoteInv, PeekResume
  PROVE  RemoteInv'
  <1>. USE DEF PeekResume, resume_session
  <1>0. "resume_session" \in allowed BY DEF CallsAgree
  <1>a. /\ pc = "peek_resume" /\ pc' = "peek_select" /\ state = "idle"
        /\ Quiet /\ SameJob /\ UNCHANGED <<state, error>>
        /\ allowed' = ResumedCalls /\ outcome' = OutcomesLoaded
        /\ disk' = [disk EXCEPT !.outcome = OutcomesLoaded]
    BY <1>0 DEF StatesAgree
  <1>b. Unloaded /\ disk.found BY <1>a DEF DiskAgrees
  <1>1. TypeOK' /\ error' = "none" BY <1>a, <1>b, LoadedEarned DEF Calls, Dialogue
  <1>2. StatesAgree' BY <1>a DEF StatesAgree
  <1>3. CallsAgree' BY <1>a DEF StatesAgree, CallsAgree
  <1>4. RunExpected' BY <1>a DEF StatesAgree, RunExpected, ExecutorAgrees
  <1>5. ExecutorAgrees' BY <1>a DEF StatesAgree, ExecutorAgrees
  <1>6. JobAgrees' BY <1>a DEF JobAgrees
  <1>7. ListAgrees'
    BY <1>a, <1>b, LoadedEarned DEF StatesAgree, ListAgrees, AllJobsReported
  <1>8. DiskAgrees' BY <1>a, <1>b, LoadedEarned DEF DiskAgrees
  <1>9. PassesEarned'
    BY <1>a, <1>b, LoadedEarned DEF StatesAgree, PassesEarned, PassIsEarned
  <1>10. FileAgrees'
    BY <1>a, <1>b, LoadedEarned DEF StatesAgree, FileAgrees, Recorded, NoFile
  <1>. QED BY <1>1, <1>2, <1>3, <1>4, <1>5, <1>6, <1>7, <1>8, <1>9, <1>10

LEMMA PeekSelectKeeps ==
  ASSUME RemoteInv, PeekSelect
  PROVE  RemoteInv'
  <1>. USE DEF PeekSelect
  <1>0. "select_test_plan" \in allowed BY DEF CallsAgree
  <1>1. TypeOK' /\ error' = "none" BY JobsAssumption, <1>0 DEF Calls, Dialogue
  <1>2. StatesAgree' BY <1>0 DEF StatesAgree
  <1>3. CallsAgree' BY DEF StatesAgree, CallsAgree
  <1>4. RunExpected' BY DEF StatesAgree, RunExpected, ExecutorAgrees
  <1>5. ExecutorAgrees' BY DEF StatesAgree, ExecutorAgrees
  <1>6. JobAgrees' BY DEF JobAgrees
  <1>7. ListAgrees' BY DEF StatesAgree, ListAgrees, AllJobsReported
  <1>8. DiskAgrees' BY DEF DiskAgrees
  <1>9. PassesEarned' BY DEF StatesAgree, PassesEarned, PassIsEarned
  <1>10. FileAgrees' BY DEF StatesAgree, FileAgrees, Recorded
  <1>. QED BY <1>1, <1>2, <1>3, <1>4, <1>5, <1>6, <1>7, <1>8, <1>9, <1>10

LEMMA PeekBootstrapKeeps ==
  ASSUME RemoteInv, PeekBootstrap
  PROVE  RemoteInv'
  <1>. USE DEF PeekBootstrap
  <1>0. "bootstrap" \in allowed BY DEF CallsAgree
  <1>1. TypeOK' /\ error' = "none" BY JobsAssumption, <1>0 DEF Calls, Dialogue
  <1>2. StatesAgree' BY <1>0 DEF StatesAgree
  <1>3. CallsAgree' BY DEF StatesAgree, CallsAgree
  <1>4. RunExpected' BY DEF RunExpected
  <1>5. ExecutorAgrees' BY DEF StatesAgree, ExecutorAgrees
  <1>6. JobAgrees' BY DEF JobAgrees
  <1>7. ListAgrees' BY DEF StatesAgree, ListAgrees, AllJobsReported
  <1>8. DiskAgrees' BY DEF DiskAgrees
  <1>9. PassesEarned' BY DEF StatesAgree, PassesEarned, PassIsEarned
  <1>10. FileAgrees' BY DEF StatesAgree, FileAgrees, Recorded
  <1>. QED BY <1>1, <1>2, <1>3, <1>4, <1>5, <1>6, <1>7, <1>8, <1>9, <1>10

LEMMA PeekAbandonKeeps ==
  ASSUME RemoteInv, PeekAbandon
  PROVE  RemoteInv'
  <1>. USE DEF PeekAbandon, reset_sa, Forget, NoOutcomes, RunningShellJob
  <1>0. "get_job" \in allowed BY DEF CallsAgree
  <1>a. /\ pc = "peek_abandon" /\ pc' \in {"auto", "choose"} /\ state' = "idle"
        /\ UNCHANGED <<disk, todo>>
    BY <1>0
  <1>1. TypeOK' /\ error' = "none"
    <2>1. error' = "none" BY <1>0
    <2>2. allowed' \subseteq Calls BY <1>0 DEF Calls
    <2>3. pc' \in Disconnected \cup Dialogue BY DEF Disconnected, Dialogue
    <2>4. current' \in JobIds BY DEF JobIds
    <2>5. be' \in ExecutorRecords
      BY NewExecutorType, NoExecutorType
    <2>6. lock' \in BOOLEAN BY <1>0, BoundAssumption DEF NoExecutor
    <2>7. outcome' \in [Jobs -> Outcomes] /\ report' \in [Jobs -> Outcomes]
      BY DEF Outcomes
    <2>8. /\ state' \in States
          /\ disk' \in [found : BOOLEAN, running : JobIds, outcome : [Jobs -> Outcomes]]
          /\ setup' \in SetupType /\ response' \in {"none", "run", "skip", "verdict"}
          /\ result' \in [by : Jobs \cup {NoJob}, outcome : Outcomes]
          /\ todo' \subseteq Jobs /\ faults' \in 0..MaxFaults /\ asks' \in 0..MaxAsks
          /\ earned' \subseteq Jobs
      OBVIOUS
    <2>. QED BY <2>1, <2>2, <2>3, <2>4, <2>5, <2>6, <2>7, <2>8
  <1>2. StatesAgree' BY <1>0 DEF StatesAgree
  <1>3. CallsAgree' BY DEF CallsAgree
  <1>4. RunExpected' BY DEF RunExpected, HasCommand, NoExecutor
  <1>5. ExecutorAgrees' BY DEF ExecutorAgrees, Verified, HasCommand, NoExecutor
  <1>6. JobAgrees' BY DEF JobAgrees
  <1>7. ListAgrees' BY DEF ListAgrees, AllJobsReported
  <1>8. DiskAgrees' BY DEF StatesAgree, DiskAgrees
  <1>9. PassesEarned' BY DEF StatesAgree, PassesEarned, PassIsEarned, NoExecutor
  <1>10. FileAgrees' BY DEF StatesAgree, FileAgrees, Recorded
  <1>. QED BY <1>1, <1>2, <1>3, <1>4, <1>5, <1>6, <1>7, <1>8, <1>9, <1>10

LEMMA Automatically_resume_last_sessionKeeps ==
  ASSUME RemoteInv, automatically_resume_last_session
  PROVE  RemoteInv'
  <1>. USE DEF automatically_resume_last_session, resume_by_id, ResumedOutcomes,
               LastOutcome, OutcomesOnResume
  <1>0. {"get_resumable_sessions", "resume_session"} \subseteq allowed
    BY DEF StatesAgree, CallsAgree
  <1>a. /\ disk.running \in Jobs /\ disk.found /\ Unloaded
        /\ setup.kind[disk.running] \in {"shell", "noreturn"}
    BY DEF StatesAgree, DiskAgrees, RunningShellJob
  <1>b. PICK r \in Outcomes : r = LastOutcome(disk.running, result)
    BY <1>a, LoadedEarned DEF Outcomes, NoFile
  <1>c. r \notin {"none", "undecided"} /\ (r = "pass" => disk.running \in earned)
    BY <1>a, <1>b, LoadedEarned DEF FileAgrees, NoFile, Outcomes, Recorded
  <1>d. /\ outcome' = [OutcomesLoaded EXCEPT ![disk.running] = r]
        /\ disk' = [disk EXCEPT !.outcome = outcome']
        /\ state' = "testsselected" /\ pc = "auto" /\ pc' = "jobs" /\ Quiet /\ SameJob
    BY <1>0, <1>a, <1>b
  <1>1. TypeOK' /\ error' = "none"
    BY <1>0, <1>a, <1>d, LoadedEarned DEF ExecutorAgrees, Calls, Dialogue, Outcomes
  <1>2. StatesAgree' BY <1>0 DEF StatesAgree
  <1>3. CallsAgree' BY DEF CallsAgree
  <1>4. RunExpected' BY DEF RunExpected
  <1>5. ExecutorAgrees' BY DEF StatesAgree, ExecutorAgrees
  <1>6. JobAgrees' BY DEF JobAgrees
  <1>7. ListAgrees'
    BY <1>a, <1>c, <1>d, LoadedEarned DEF ListAgrees, AllJobsReported
  <1>8. DiskAgrees' BY <1>a, <1>d, LoadedEarned DEF DiskAgrees
  <1>9. PassesEarned'
    BY <1>a, <1>c, <1>d, LoadedEarned DEF PassesEarned, PassIsEarned
  <1>10. FileAgrees'
    BY <1>a, <1>c, <1>d, LoadedEarned DEF StatesAgree, FileAgrees, Recorded, NoFile
  <1>. QED BY <1>1, <1>2, <1>3, <1>4, <1>5, <1>6, <1>7, <1>8, <1>9, <1>10

LEMMA Start_sessionKeeps ==
  ASSUME RemoteInv, start_session
  PROVE  RemoteInv'
  <1>. USE DEF start_session, Forget, NoOutcomes
  <1>0. state = "idle" BY JobsAssumption DEF StatesAgree
  <1>1. TypeOK' /\ error' = "none"
    <2>1. error' = "none" BY <1>0
    <2>2. allowed' \subseteq Calls BY <1>0 DEF Calls
    <2>3. pc' \in Disconnected \cup Dialogue BY DEF Disconnected, Dialogue
    <2>4. current' \in JobIds BY DEF JobIds
    <2>5. be' \in ExecutorRecords
      BY NewExecutorType, NoExecutorType
    <2>6. lock' \in BOOLEAN BY <1>0, BoundAssumption DEF NoExecutor
    <2>7. outcome' \in [Jobs -> Outcomes] /\ report' \in [Jobs -> Outcomes]
      BY DEF Outcomes
    <2>8. /\ state' \in States
          /\ disk' \in [found : BOOLEAN, running : JobIds, outcome : [Jobs -> Outcomes]]
          /\ setup' \in SetupType /\ response' \in {"none", "run", "skip", "verdict"}
          /\ result' \in [by : Jobs \cup {NoJob}, outcome : Outcomes]
          /\ todo' \subseteq Jobs /\ faults' \in 0..MaxFaults /\ asks' \in 0..MaxAsks
          /\ earned' \subseteq Jobs
      OBVIOUS
    <2>. QED BY <2>1, <2>2, <2>3, <2>4, <2>5, <2>6, <2>7, <2>8
  <1>2. StatesAgree' BY DEF StatesAgree
  <1>3. CallsAgree' BY DEF CallsAgree
  <1>4. RunExpected' BY DEF RunExpected, HasCommand, NoExecutor
  <1>5. ExecutorAgrees' BY DEF ExecutorAgrees, Verified, HasCommand, NoExecutor
  <1>6. JobAgrees' BY DEF JobAgrees
  <1>7. ListAgrees' BY DEF ListAgrees, AllJobsReported
  <1>8. DiskAgrees' BY DEF DiskAgrees, RunningShellJob
  <1>9. PassesEarned' BY DEF StatesAgree, PassesEarned, PassIsEarned, NoExecutor
  <1>10. FileAgrees' BY DEF StatesAgree, FileAgrees, Recorded
  <1>. QED BY <1>1, <1>2, <1>3, <1>4, <1>5, <1>6, <1>7, <1>8, <1>9, <1>10

LEMMA ChooseTestPlanKeeps ==
  ASSUME RemoteInv, ChooseTestPlan
  PROVE  RemoteInv'
  <1>. USE DEF ChooseTestPlan, get_resumable_sessions
  <1>0. "get_resumable_sessions" \in allowed BY DEF CallsAgree
  <1>. todo # {} => Job \in todo /\ Job \in Jobs BY FirstJob
  <1>1. TypeOK' /\ error' = "none"
    BY <1>0, BoundAssumption, ZenonT(40) DEF Calls, Disconnected, Dialogue
  <1>2. StatesAgree' BY <1>0 DEF StatesAgree
  <1>3. CallsAgree' BY DEF CallsAgree
  <1>4. RunExpected' BY DEF RunExpected
  <1>5. ExecutorAgrees' BY DEF StatesAgree, ExecutorAgrees
  <1>6. JobAgrees' BY DEF JobAgrees
  <1>7. ListAgrees' BY DEF StatesAgree, ListAgrees, AllJobsReported
  <1>8. DiskAgrees' BY DEF DiskAgrees
  <1>9. PassesEarned' BY DEF StatesAgree, PassesEarned, PassIsEarned
  <1>10. FileAgrees' BY DEF StatesAgree, FileAgrees, Recorded
  <1>. QED BY <1>1, <1>2, <1>3, <1>4, <1>5, <1>6, <1>7, <1>8, <1>9, <1>10

LEMMA ChooseResumeKeeps ==
  ASSUME RemoteInv, ChooseResume
  PROVE  RemoteInv'
  <1>. USE DEF ChooseResume, get_resumable_sessions
  <1>0. "get_resumable_sessions" \in allowed BY DEF CallsAgree
  <1>1. TypeOK' /\ error' = "none"
    BY <1>0, BoundAssumption, ZenonT(40) DEF Calls, Disconnected, Dialogue
  <1>2. StatesAgree' BY <1>0 DEF StatesAgree
  <1>3. CallsAgree' BY DEF CallsAgree
  <1>4. RunExpected' BY DEF RunExpected
  <1>5. ExecutorAgrees' BY DEF StatesAgree, ExecutorAgrees
  <1>6. JobAgrees' BY DEF JobAgrees
  <1>7. ListAgrees' BY DEF StatesAgree, ListAgrees, AllJobsReported
  <1>8. DiskAgrees' BY DEF DiskAgrees, RunningShellJob
  <1>9. PassesEarned' BY DEF StatesAgree, PassesEarned, PassIsEarned
  <1>10. FileAgrees' BY DEF StatesAgree, FileAgrees, Recorded
  <1>. QED BY <1>1, <1>2, <1>3, <1>4, <1>5, <1>6, <1>7, <1>8, <1>9, <1>10

LEMMA MenuResumeKeeps ==
  ASSUME RemoteInv, MenuResume
  PROVE  RemoteInv'
  <1>. USE DEF MenuResume, resume_session
  <1>0. "resume_session" \in allowed BY DEF CallsAgree
  <1>a. /\ pc = "menu_resume" /\ pc' = "menu_select" /\ state = "started"
        /\ Quiet /\ SameJob /\ UNCHANGED <<state, error>>
        /\ allowed' = ResumedCalls /\ outcome' = OutcomesLoaded
        /\ disk' = [disk EXCEPT !.outcome = OutcomesLoaded]
    BY <1>0 DEF StatesAgree
  <1>b. Unloaded /\ disk.found BY <1>a DEF DiskAgrees
  <1>1. TypeOK' /\ error' = "none" BY <1>a, <1>b, LoadedEarned DEF Calls, Dialogue
  <1>2. StatesAgree' BY <1>a DEF StatesAgree
  <1>3. CallsAgree' BY <1>a DEF StatesAgree, CallsAgree
  <1>4. RunExpected' BY <1>a DEF StatesAgree, RunExpected, ExecutorAgrees
  <1>5. ExecutorAgrees' BY <1>a DEF StatesAgree, ExecutorAgrees
  <1>6. JobAgrees' BY <1>a DEF JobAgrees
  <1>7. ListAgrees'
    BY <1>a, <1>b, LoadedEarned DEF StatesAgree, ListAgrees, AllJobsReported
  <1>8. DiskAgrees' BY <1>a, <1>b, LoadedEarned DEF DiskAgrees, RunningShellJob
  <1>9. PassesEarned'
    BY <1>a, <1>b, LoadedEarned DEF StatesAgree, PassesEarned, PassIsEarned
  <1>10. FileAgrees'
    BY <1>a, <1>b, LoadedEarned DEF StatesAgree, FileAgrees, Recorded, NoFile
  <1>. QED BY <1>1, <1>2, <1>3, <1>4, <1>5, <1>6, <1>7, <1>8, <1>9, <1>10

LEMMA MenuSelectKeeps ==
  ASSUME RemoteInv, MenuSelect
  PROVE  RemoteInv'
  <1>. USE DEF MenuSelect
  <1>0. "select_test_plan" \in allowed BY DEF CallsAgree
  <1>1. TypeOK' /\ error' = "none" BY JobsAssumption, <1>0 DEF Calls, Dialogue
  <1>2. StatesAgree' BY <1>0 DEF StatesAgree
  <1>3. CallsAgree' BY DEF StatesAgree, CallsAgree
  <1>4. RunExpected' BY DEF StatesAgree, RunExpected, ExecutorAgrees
  <1>5. ExecutorAgrees' BY DEF StatesAgree, ExecutorAgrees
  <1>6. JobAgrees' BY DEF JobAgrees
  <1>7. ListAgrees' BY DEF StatesAgree, ListAgrees, AllJobsReported
  <1>8. DiskAgrees' BY DEF DiskAgrees, RunningShellJob
  <1>9. PassesEarned' BY DEF StatesAgree, PassesEarned, PassIsEarned
  <1>10. FileAgrees' BY DEF StatesAgree, FileAgrees, Recorded
  <1>. QED BY <1>1, <1>2, <1>3, <1>4, <1>5, <1>6, <1>7, <1>8, <1>9, <1>10

LEMMA MenuBootstrapKeeps ==
  ASSUME RemoteInv, MenuBootstrap
  PROVE  RemoteInv'
  <1>. USE DEF MenuBootstrap
  <1>0. "bootstrap" \in allowed BY DEF CallsAgree
  <1>1. TypeOK' /\ error' = "none" BY JobsAssumption, <1>0 DEF Calls, Dialogue
  <1>2. StatesAgree' BY <1>0 DEF StatesAgree
  <1>3. CallsAgree' BY DEF CallsAgree
  <1>4. RunExpected' BY DEF RunExpected
  <1>5. ExecutorAgrees' BY DEF StatesAgree, ExecutorAgrees
  <1>6. JobAgrees' BY DEF JobAgrees
  <1>7. ListAgrees' BY DEF StatesAgree, ListAgrees, AllJobsReported
  <1>8. DiskAgrees' BY DEF DiskAgrees, RunningShellJob
  <1>9. PassesEarned' BY DEF StatesAgree, PassesEarned, PassIsEarned
  <1>10. FileAgrees' BY DEF StatesAgree, FileAgrees, Recorded
  <1>. QED BY <1>1, <1>2, <1>3, <1>4, <1>5, <1>6, <1>7, <1>8, <1>9, <1>10

LEMMA Resume_sessionKeeps ==
  ASSUME RemoteInv, NEW answer \in {"pass", "fail", "skip", "none"}, _resume_session(answer)
  PROVE  RemoteInv'
  <1>. USE DEF _resume_session, resume_by_id
  <1>0. /\ disk.running # NoJob /\ disk.found /\ Unloaded
        /\ {"get_job", "get_resumable_sessions"} \subseteq allowed
    BY JobsAssumption DEF StatesAgree, CallsAgree, DiskAgrees
  <1>a. /\ pc = "menu_answer" /\ pc' = "jobs" /\ state' = "testsselected"
        /\ allowed' = NormalCalls \ {"use_job_result"}
        /\ outcome' = ResumedOutcomes(disk.running, answer)
        /\ disk' = [disk EXCEPT !.outcome = outcome']
        /\ earned' = IF answer = "pass" THEN earned \cup ({disk.running} \cap Jobs) ELSE earned
        /\ SameJob /\ UNCHANGED <<setup, result, todo, faults, asks, report, error>>
    BY <1>0
  <1>b. /\ outcome' \in [Jobs -> Outcomes]
        /\ \A j \in Jobs : outcome'[j] = IF j = disk.running THEN answer
                                                            ELSE OutcomesLoaded[j]
    BY <1>0, <1>a, LoadedEarned DEF ResumedOutcomes, Outcomes
  <1>1. TypeOK' /\ error' = "none" BY <1>0, <1>a, <1>b DEF Calls, Dialogue
  <1>2. StatesAgree' BY <1>0, <1>a DEF StatesAgree
  <1>3. CallsAgree' BY <1>0, <1>a DEF CallsAgree
  <1>4. RunExpected' BY <1>a DEF RunExpected
  <1>5. ExecutorAgrees' BY <1>a DEF StatesAgree, ExecutorAgrees
  <1>6. JobAgrees' BY <1>a DEF JobAgrees
  <1>7. ListAgrees'
    BY <1>0, <1>a, <1>b, LoadedEarned DEF StatesAgree, ListAgrees, AllJobsReported
  <1>8. DiskAgrees' BY <1>0, <1>a, <1>b DEF DiskAgrees
  <1>9. PassesEarned'
    BY <1>0, <1>a, <1>b, LoadedEarned DEF StatesAgree, PassesEarned, PassIsEarned
  <1>10. FileAgrees'
    BY <1>0, <1>a DEF StatesAgree, FileAgrees, Recorded, NoFile, DiskAgrees, RunningShellJob
  <1>. QED BY <1>1, <1>2, <1>3, <1>4, <1>5, <1>6, <1>7, <1>8, <1>9, <1>10

LEMMA Prepare_bootstrappingKeeps ==
  ASSUME RemoteInv, prepare_bootstrapping
  PROVE  RemoteInv'
  <1>. USE DEF prepare_bootstrapping
  <1>0. state = "started" /\ "select_test_plan" \in allowed
    BY DEF StatesAgree, CallsAgree
  <1>1. TypeOK' /\ error' = "none" BY JobsAssumption, <1>0 DEF Calls, Dialogue
  <1>2. StatesAgree' BY <1>0 DEF StatesAgree
  <1>3. CallsAgree' BY DEF CallsAgree
  <1>4. RunExpected' BY DEF StatesAgree, RunExpected, ExecutorAgrees
  <1>5. ExecutorAgrees' BY <1>0 DEF ExecutorAgrees
  <1>6. JobAgrees' BY DEF JobAgrees
  <1>7. ListAgrees' BY DEF StatesAgree, ListAgrees, AllJobsReported
  <1>8. DiskAgrees' BY DEF DiskAgrees
  <1>9. PassesEarned' BY DEF StatesAgree, PassesEarned, PassIsEarned
  <1>10. FileAgrees' BY DEF StatesAgree, FileAgrees, Recorded
  <1>. QED BY <1>1, <1>2, <1>3, <1>4, <1>5, <1>6, <1>7, <1>8, <1>9, <1>10

LEMMA Get_bootstrapping_todo_listKeeps ==
  ASSUME RemoteInv, get_bootstrapping_todo_list
  PROVE  RemoteInv'
  <1>. USE DEF get_bootstrapping_todo_list
  <1>0. state = "started" /\ "get_bootstrap_todo_list" \in allowed
    BY DEF StatesAgree, CallsAgree
  <1>1. TypeOK' /\ error' = "none"
    BY <1>0, BoundAssumption DEF Calls, Disconnected, Dialogue
  <1>2. StatesAgree' BY <1>0 DEF StatesAgree
  <1>3. CallsAgree' BY DEF CallsAgree
  <1>4. RunExpected' BY DEF RunExpected
  <1>5. ExecutorAgrees' BY <1>0 DEF ExecutorAgrees
  <1>6. JobAgrees' BY DEF JobAgrees
  <1>7. ListAgrees' BY DEF StatesAgree, ListAgrees, AllJobsReported
  <1>8. DiskAgrees' BY DEF DiskAgrees
  <1>9. PassesEarned' BY DEF StatesAgree, PassesEarned, PassIsEarned
  <1>10. FileAgrees' BY DEF StatesAgree, FileAgrees, Recorded
  <1>. QED BY <1>1, <1>2, <1>3, <1>4, <1>5, <1>6, <1>7, <1>8, <1>9, <1>10

LEMMA Run_bootstrapping_jobKeeps ==
  ASSUME RemoteInv, run_bootstrapping_job
  PROVE  RemoteInv'
  <1>. USE DEF run_bootstrapping_job
  <1>0. state = "started" BY JobsAssumption DEF StatesAgree
  <1>1. TypeOK' /\ error' = "none"
    <2>1. /\ error' = "none" /\ state' \in States /\ allowed' \subseteq Calls
          /\ pc' \in Disconnected \cup Dialogue /\ current' \in JobIds
          /\ lock' \in BOOLEAN /\ setup' \in SetupType
          /\ response' \in {"none", "run", "skip", "verdict"}
          /\ result' \in [by : Jobs \cup {NoJob}, outcome : Outcomes]
          /\ todo' \subseteq Jobs /\ faults' \in 0..MaxFaults /\ asks' \in 0..MaxAsks
          /\ earned' \subseteq Jobs
      BY JobsAssumption, <1>0, BoundAssumption, ZenonT(40)
         DEF StatesAgree, BootJob, BackgroundExecutor, JobAgrees, ExecutorAgrees,
             Calls, Disconnected, Dialogue, JobIds, NoJob, NoFile, Outcomes
    <2>2. be' \in ExecutorRecords
      BY NewExecutorType, NoExecutorType, <1>0, BoundAssumption
         DEF JobIds, Outcomes, BootJob, JobAgrees, ExecutorAgrees
    <2>3. /\ outcome' \in [Jobs -> Outcomes] /\ report' \in [Jobs -> Outcomes]
          /\ disk' \in [found : BOOLEAN, running : JobIds, outcome : [Jobs -> Outcomes]]
      BY <1>0
    <2>. QED BY <2>1, <2>2, <2>3
  <1>2. StatesAgree' BY DEF StatesAgree
  <1>3. CallsAgree' BY <1>0 DEF CallsAgree
  <1>4. RunExpected' BY DEF RunExpected, BackgroundExecutor, CallsAgree
  <1>5. ExecutorAgrees'
    BY <1>0, JobsAssumption DEF ExecutorAgrees, BackgroundExecutor, BootJob
  <1>6. JobAgrees' BY <1>0 DEF JobAgrees
  <1>7. ListAgrees' BY DEF StatesAgree, ListAgrees, AllJobsReported
  <1>8. DiskAgrees' BY <1>0 DEF DiskAgrees
  <1>9. PassesEarned'
    BY DEF StatesAgree, PassesEarned, PassIsEarned, BackgroundExecutor
  <1>10. FileAgrees' BY DEF StatesAgree, FileAgrees, Recorded
  <1>. QED BY <1>1, <1>2, <1>3, <1>4, <1>5, <1>6, <1>7, <1>8, <1>9, <1>10

LEMMA FinishBootstrapJobKeeps ==
  ASSUME RemoteInv, FinishBootstrapJob
  PROVE  RemoteInv'
  <1>. USE DEF FinishBootstrapJob, finish_job, sa_use_job_result, ResultOf,
               StateAfter, Verified
  <1>0. {"get_job", "use_job_result"} \subseteq allowed
    BY JobsAssumption DEF StatesAgree, CallsAgree, RunExpected
  <1>1. TypeOK' /\ error' = "none"
    <2>1. error' = "none"
      BY JobsAssumption, <1>0 DEF StatesAgree, BootJob, ExecutorAgrees
    <2>2. allowed' \subseteq Calls BY DEF Calls
    <2>3. pc' \in Disconnected \cup Dialogue BY DEF Disconnected, Dialogue
    <2>4. lock' \in BOOLEAN BY <1>0, BoundAssumption DEF BootJob
    <2>5. outcome' \in [Jobs -> Outcomes] /\ report' \in [Jobs -> Outcomes]
      BY DEF Outcomes, ExecutorRecords
    <2>6. disk' \in [found : BOOLEAN, running : JobIds, outcome : [Jobs -> Outcomes]]
      BY DEF Outcomes, ExecutorRecords
    <2>7. /\ state' \in States /\ current' \in JobIds
          /\ be' \in ExecutorRecords
          /\ setup' \in SetupType /\ response' \in {"none", "run", "skip", "verdict"}
          /\ result' \in [by : Jobs \cup {NoJob}, outcome : Outcomes]
          /\ todo' \subseteq Jobs /\ faults' \in 0..MaxFaults /\ asks' \in 0..MaxAsks
          /\ earned' \subseteq Jobs
      OBVIOUS
    <2>. QED BY <2>1, <2>2, <2>3, <2>4, <2>5, <2>6, <2>7
  <1>2. StatesAgree' BY <1>0, JobsAssumption DEF StatesAgree, BootJob, ExecutorAgrees
  <1>3. CallsAgree' BY DEF StatesAgree, CallsAgree
  <1>4. RunExpected' BY DEF RunExpected
  <1>5. ExecutorAgrees' BY DEF ExecutorAgrees
  <1>6. JobAgrees' BY DEF JobAgrees
  <1>7. ListAgrees'
    BY <1>0, JobsAssumption
       DEF StatesAgree, ListAgrees, AllJobsReported, BootJob, ExecutorAgrees
  <1>8. DiskAgrees' BY <1>0, JobsAssumption DEF BootJob, ExecutorAgrees, StatesAgree, DiskAgrees
  <1>9. PassesEarned'
    BY <1>0, JobsAssumption
       DEF StatesAgree, PassesEarned, PassIsEarned, BootJob, ExecutorAgrees
  <1>10. FileAgrees' BY DEF StatesAgree, FileAgrees, Recorded, NoFile
  <1>. QED BY <1>1, <1>2, <1>3, <1>4, <1>5, <1>6, <1>7, <1>8, <1>9, <1>10

LEMMA Finish_bootstrapKeeps ==
  ASSUME RemoteInv, finish_bootstrap
  PROVE  RemoteInv'
  <1>. USE DEF finish_bootstrap, NoOutcomes
  <1>0. "finish_bootstrap" \in allowed BY DEF CallsAgree
  <1>1. TypeOK' /\ error' = "none"
    <2>1. error' = "none" BY <1>0
    <2>2. state' \in States OBVIOUS
    <2>3. allowed' \subseteq Calls BY <1>0 DEF Calls
    <2>4. pc' \in Disconnected \cup Dialogue BY DEF Disconnected, Dialogue
    <2>5. current' \in JobIds OBVIOUS
    <2>6. be' \in ExecutorRecords OBVIOUS
    <2>7. lock' \in BOOLEAN OBVIOUS
    <2>8. outcome' \in [Jobs -> Outcomes] /\ report' \in [Jobs -> Outcomes]
      BY DEF Outcomes
    <2>9. disk' \in [found : BOOLEAN, running : JobIds, outcome : [Jobs -> Outcomes]]
      <3>1. NoOutcomes \in [Jobs -> Outcomes] BY DEF Outcomes
      <3>2. PICK k \in JobIds : disk' = [found |-> TRUE, running |-> k, outcome |-> NoOutcomes]
        BY <1>0 DEF JobIds
      <3>. QED BY <3>1, <3>2
    <2>10. /\ setup' \in SetupType /\ response' \in {"none", "run", "skip", "verdict"}
           /\ result' \in [by : Jobs \cup {NoJob}, outcome : Outcomes]
           /\ todo' \subseteq Jobs /\ faults' \in 0..MaxFaults /\ asks' \in 0..MaxAsks
           /\ earned' \subseteq Jobs
      BY DEF NoJob, NoFile, Outcomes
    <2>. QED BY <2>1, <2>2, <2>3, <2>4, <2>5, <2>6, <2>7, <2>8, <2>9, <2>10
  <1>2. StatesAgree' BY <1>0 DEF StatesAgree
  <1>3. CallsAgree' BY DEF CallsAgree
  <1>4. RunExpected' BY DEF RunExpected
  <1>5. ExecutorAgrees' BY <1>0 DEF ExecutorAgrees
  <1>6. JobAgrees' BY DEF JobAgrees
  <1>7. ListAgrees' BY DEF ListAgrees, AllJobsReported
  <1>8. DiskAgrees' BY DEF DiskAgrees
  <1>9. PassesEarned' BY DEF StatesAgree, PassesEarned, PassIsEarned, ExecutorAgrees
  <1>10. FileAgrees' BY DEF StatesAgree, FileAgrees, Recorded, NoFile
  <1>. QED BY <1>1, <1>2, <1>3, <1>4, <1>5, <1>6, <1>7, <1>8, <1>9, <1>10

LEMMA Finish_job_selectionKeeps ==
  ASSUME RemoteInv, finish_job_selection
  PROVE  RemoteInv'
  <1>. USE DEF finish_job_selection
  <1>0. {"use_alternate_selection", "get_dynamic_todo_list"} \subseteq allowed
    BY DEF StatesAgree, CallsAgree
  <1>1. TypeOK' /\ error' = "none"
    <2>1. /\ error' = "none" /\ state' \in States /\ allowed' \subseteq Calls
          /\ pc' \in Disconnected \cup Dialogue /\ lock' \in BOOLEAN
      BY JobsAssumption, <1>0, BoundAssumption
         DEF StatesAgree, BootJob, JobAgrees, ExecutorAgrees, Calls, Disconnected,
             Dialogue
    <2>2. current' \in JobIds OBVIOUS
    <2>3. be' \in ExecutorRecords OBVIOUS
    <2>4. outcome' \in [Jobs -> Outcomes] /\ report' \in [Jobs -> Outcomes] OBVIOUS
    <2>5. disk' \in [found : BOOLEAN, running : JobIds, outcome : [Jobs -> Outcomes]]
      OBVIOUS
    <2>6. /\ setup' \in SetupType /\ response' \in {"none", "run", "skip", "verdict"}
          /\ result' \in [by : Jobs \cup {NoJob}, outcome : Outcomes]
          /\ todo' \subseteq Jobs /\ faults' \in 0..MaxFaults /\ asks' \in 0..MaxAsks
          /\ earned' \subseteq Jobs
      OBVIOUS
    <2>. QED BY <2>1, <2>2, <2>3, <2>4, <2>5, <2>6
  <1>2. StatesAgree' BY <1>0 DEF StatesAgree
  <1>3. CallsAgree' BY DEF StatesAgree, CallsAgree
  <1>4. RunExpected' BY DEF StatesAgree, RunExpected
  <1>5. ExecutorAgrees' BY DEF StatesAgree, ExecutorAgrees
  <1>6. JobAgrees' BY DEF JobAgrees
  <1>7. ListAgrees' BY DEF StatesAgree, ListAgrees, AllJobsReported
  <1>8. DiskAgrees' BY <1>0, JobsAssumption DEF StatesAgree, DiskAgrees
  <1>9. PassesEarned' BY DEF StatesAgree, PassesEarned, PassIsEarned
  <1>10. FileAgrees' BY DEF StatesAgree, FileAgrees
  <1>. QED BY <1>1, <1>2, <1>3, <1>4, <1>5, <1>6, <1>7, <1>8, <1>9, <1>10

LEMMA Get_session_progressKeeps ==
  ASSUME RemoteInv, get_session_progress
  PROVE  RemoteInv'
  <1>. USE DEF get_session_progress
  <1>0. "get_dynamic_todo_list" \in allowed BY DEF CallsAgree
  <1>. todo' \subseteq Jobs OBVIOUS
  <1>1. TypeOK' /\ error' = "none"
    BY <1>0, BoundAssumption, ZenonT(40) DEF Calls, Disconnected, Dialogue
  <1>2. StatesAgree' BY DEF StatesAgree, CallsAgree, ListAgrees
  <1>3. CallsAgree' BY DEF CallsAgree
  <1>4. RunExpected' BY DEF RunExpected
  <1>5. ExecutorAgrees' BY DEF StatesAgree, ExecutorAgrees
  <1>6. JobAgrees' BY DEF JobAgrees
  <1>7. ListAgrees' BY DEF StatesAgree, ListAgrees, AllJobsReported
  <1>8. DiskAgrees' BY <1>0, <1>2 DEF StatesAgree, DiskAgrees
  <1>9. PassesEarned' BY DEF StatesAgree, PassesEarned, PassIsEarned
  <1>10. FileAgrees' BY <1>0, JobsAssumption DEF StatesAgree, FileAgrees, ListAgrees
  <1>. QED BY <1>1, <1>2, <1>3, <1>4, <1>5, <1>6, <1>7, <1>8, <1>9, <1>10

LEMMA Note_metadata_starting_jobKeeps ==
  ASSUME RemoteInv, note_metadata_starting_job
  PROVE  RemoteInv'
  <1>. USE DEF note_metadata_starting_job
  <1>0. "get_job" \in allowed BY DEF StatesAgree, CallsAgree
  <1>. todo # {} => Job \in todo /\ Job \in Jobs BY FirstJob
  <1>. Job' = Job BY DEF Job
  <1>1. TypeOK' /\ error' = "none" BY <1>0 DEF JobAgrees, Calls, Dialogue, JobIds
  <1>2. StatesAgree' BY <1>0 DEF StatesAgree
  <1>3. CallsAgree' BY DEF CallsAgree
  <1>4. RunExpected' BY DEF RunExpected
  <1>5. ExecutorAgrees' BY DEF StatesAgree, ExecutorAgrees
  <1>6. JobAgrees' BY DEF JobAgrees
  <1>7. ListAgrees' BY DEF StatesAgree, ListAgrees, AllJobsReported
  <1>8. DiskAgrees'
    BY <1>0, JobsAssumption DEF StatesAgree, DiskAgrees, NoJob, JobAgrees
  <1>9. PassesEarned' BY DEF PassesEarned, PassIsEarned, ListAgrees, JobAgrees
  <1>10. FileAgrees' BY DEF StatesAgree, FileAgrees
  <1>. QED BY <1>1, <1>2, <1>3, <1>4, <1>5, <1>6, <1>7, <1>8, <1>9, <1>10

LEMMA Run_jobKeeps ==
  ASSUME RemoteInv, run_job
  PROVE  RemoteInv'
  <1>. USE DEF run_job, RunCommand, Verified, HasCommand, Interactive
  <1>0. state = "testsselected" /\ "get_job" \in allowed
    BY DEF StatesAgree, CallsAgree
  <1>. todo # {} => Job \in todo /\ Job \in Jobs BY FirstJob
  <1>. Job' = Job BY DEF Job
  <1>1. TypeOK' /\ error' = "none"
    <2>1. error' = "none" BY <1>0
    <2>2. state' \in States BY DEF BackgroundExecutor
    <2>3. allowed' \subseteq Calls BY DEF Calls, BackgroundExecutor
    <2>4. pc' \in Disconnected \cup Dialogue
      BY DEF Disconnected, Dialogue, BackgroundExecutor
    <2>5. current' \in JobIds BY DEF BackgroundExecutor, JobAgrees
    <2>6. be' \in ExecutorRecords
      BY NewExecutorType, NoExecutorType, <1>0, BoundAssumption
         DEF JobIds, Outcomes, JobAgrees, ExecutorAgrees
    <2>7. lock' \in BOOLEAN BY <1>0, BoundAssumption DEF BackgroundExecutor
    <2>8. outcome' \in [Jobs -> Outcomes] /\ report' \in [Jobs -> Outcomes] BY <1>0
    <2>9. disk' \in [found : BOOLEAN, running : JobIds, outcome : [Jobs -> Outcomes]]
      BY DEF BackgroundExecutor, JobAgrees
    <2>10. /\ setup' \in SetupType /\ response' \in {"none", "run", "skip", "verdict"}
           /\ result' \in [by : Jobs \cup {NoJob}, outcome : Outcomes]
           /\ todo' \subseteq Jobs /\ faults' \in 0..MaxFaults /\ asks' \in 0..MaxAsks
           /\ earned' \subseteq Jobs
      BY DEF Outcomes, BackgroundExecutor
    <2>. QED BY <2>1, <2>2, <2>3, <2>4, <2>5, <2>6, <2>7, <2>8, <2>9, <2>10
  <1>2. StatesAgree' BY DEF StatesAgree, BackgroundExecutor, CallsAgree
  <1>3. CallsAgree' BY DEF CallsAgree, BackgroundExecutor
  <1>4. RunExpected' BY <1>0 DEF RunExpected
  <1>5. ExecutorAgrees'
    BY DEF ExecutorAgrees, BackgroundExecutor, JobAgrees, DiskAgrees
  <1>6. JobAgrees' BY DEF StatesAgree, JobAgrees, BackgroundExecutor
  <1>7. ListAgrees' BY <1>0 DEF ListAgrees, AllJobsReported, BackgroundExecutor
  <1>8. DiskAgrees' BY DEF DiskAgrees, BackgroundExecutor, JobAgrees
  <1>9. PassesEarned'
    BY DEF PassesEarned, PassIsEarned, BackgroundExecutor, DiskAgrees
  <1>10. FileAgrees'
    BY DEF StatesAgree, FileAgrees, Recorded, NoFile, BackgroundExecutor, DiskAgrees,
           PassesEarned
  <1>. QED BY <1>1, <1>2, <1>3, <1>4, <1>5, <1>6, <1>7, <1>8, <1>9, <1>10

LEMMA Remember_users_responseKeeps ==
  ASSUME RemoteInv, NEW answer \in {"run", "skip"}, remember_users_response(answer)
  PROVE  RemoteInv'
  <1>. USE DEF remember_users_response, HasCommand
  <1>0. state = "interacting" BY JobsAssumption DEF StatesAgree
  <1>. Job' = Job BY DEF Job
  <1>1. TypeOK' /\ error' = "none"
    <2>1. /\ error' = "none" /\ state' \in States /\ allowed' \subseteq Calls
          /\ pc' \in Disconnected \cup Dialogue /\ lock' \in BOOLEAN
      BY JobsAssumption, <1>0, BoundAssumption
         DEF StatesAgree, BootJob, JobAgrees, ExecutorAgrees, Calls, Disconnected,
             Dialogue
    <2>2. current' \in JobIds OBVIOUS
    <2>3. be' \in ExecutorRecords OBVIOUS
    <2>4. outcome' \in [Jobs -> Outcomes] /\ report' \in [Jobs -> Outcomes] OBVIOUS
    <2>5. disk' \in [found : BOOLEAN, running : JobIds, outcome : [Jobs -> Outcomes]]
      OBVIOUS
    <2>6. /\ setup' \in SetupType /\ response' \in {"none", "run", "skip", "verdict"}
          /\ result' \in [by : Jobs \cup {NoJob}, outcome : Outcomes]
          /\ todo' \subseteq Jobs /\ faults' \in 0..MaxFaults /\ asks' \in 0..MaxAsks
          /\ earned' \subseteq Jobs
      OBVIOUS
    <2>. QED BY <2>1, <2>2, <2>3, <2>4, <2>5, <2>6
  <1>2. StatesAgree' BY DEF StatesAgree
  <1>3. CallsAgree' BY DEF CallsAgree
  <1>4. RunExpected' BY DEF RunExpected
  <1>5. ExecutorAgrees' BY <1>0 DEF ExecutorAgrees
  <1>6. JobAgrees' BY DEF JobAgrees
  <1>7. ListAgrees' BY DEF StatesAgree, ListAgrees, AllJobsReported
  <1>8. DiskAgrees' BY DEF DiskAgrees
  <1>9. PassesEarned' BY DEF StatesAgree, PassesEarned, PassIsEarned
  <1>10. FileAgrees' BY <1>0 DEF FileAgrees
  <1>. QED BY <1>1, <1>2, <1>3, <1>4, <1>5, <1>6, <1>7, <1>8, <1>9, <1>10

LEMMA RunJobGoesOnKeeps ==
  ASSUME RemoteInv, RunJobGoesOn
  PROVE  RemoteInv'
  <1>. USE DEF RunJobGoesOn, RunCommand, Verified, HasCommand, Interactive
  <1>0. "get_job" \in allowed BY DEF StatesAgree, CallsAgree
  <1>. todo # {} => Job \in todo /\ Job \in Jobs BY FirstJob
  <1>. Job' = Job BY DEF Job
  <1>1. TypeOK' /\ error' = "none"
    <2>1. error' = "none" BY <1>0
    <2>2. state' \in States BY DEF BackgroundExecutor
    <2>3. allowed' \subseteq Calls BY <1>0
    <2>4. pc' \in Disconnected \cup Dialogue
      BY DEF Disconnected, Dialogue, BackgroundExecutor
    <2>5. current' \in JobIds BY <1>0
    <2>6. be' \in ExecutorRecords
      BY NewExecutorType, NoExecutorType, <1>0, BoundAssumption
         DEF JobIds, Outcomes, JobAgrees, ExecutorAgrees
    <2>7. lock' \in BOOLEAN BY <1>0, BoundAssumption DEF BackgroundExecutor
    <2>8. outcome' \in [Jobs -> Outcomes] /\ report' \in [Jobs -> Outcomes] BY <1>0
    <2>9. disk' \in [found : BOOLEAN, running : JobIds, outcome : [Jobs -> Outcomes]]
      BY DEF BackgroundExecutor, JobAgrees
    <2>10. /\ setup' \in SetupType /\ response' \in {"none", "run", "skip", "verdict"}
           /\ result' \in [by : Jobs \cup {NoJob}, outcome : Outcomes]
           /\ todo' \subseteq Jobs /\ faults' \in 0..MaxFaults /\ asks' \in 0..MaxAsks
           /\ earned' \subseteq Jobs
      BY DEF Outcomes, BackgroundExecutor
    <2>. QED BY <2>1, <2>2, <2>3, <2>4, <2>5, <2>6, <2>7, <2>8, <2>9, <2>10
  <1>2. StatesAgree' BY DEF StatesAgree, BackgroundExecutor, CallsAgree
  <1>3. CallsAgree' BY DEF StatesAgree, CallsAgree, BackgroundExecutor
  <1>4. RunExpected' BY <1>0 DEF RunExpected
  <1>5. ExecutorAgrees'
    BY <1>0 DEF StatesAgree, ExecutorAgrees, BackgroundExecutor, JobAgrees, DiskAgrees
  <1>6. JobAgrees' BY DEF StatesAgree, JobAgrees, BackgroundExecutor
  <1>7. ListAgrees'
    BY <1>0 DEF StatesAgree, ListAgrees, AllJobsReported, BackgroundExecutor
  <1>8. DiskAgrees' BY DEF StatesAgree, DiskAgrees, BackgroundExecutor, JobAgrees
  <1>9. PassesEarned'
    BY DEF StatesAgree, PassesEarned, PassIsEarned, BackgroundExecutor, DiskAgrees
  <1>10. FileAgrees'
    BY DEF StatesAgree, FileAgrees, Recorded, NoFile, BackgroundExecutor, DiskAgrees,
           PassesEarned
  <1>. QED BY <1>1, <1>2, <1>3, <1>4, <1>5, <1>6, <1>7, <1>8, <1>9, <1>10

LEMMA ExecutorEndsKeeps ==
  ASSUME RemoteInv, NEW r, ExecutorEnds(r)
  PROVE  RemoteInv'
  <1>. USE DEF ExecutorEnds, Verified, EndsOpen
  <1>0. "run_job" \in allowed BY DEF RunExpected
  <1>a. /\ r \in {"pass", "fail", "undecided"} /\ be.alive
        /\ be' = [be EXCEPT !.alive = FALSE, !.result = r]
        /\ allowed' = (allowed \ {"run_job"}) \cup {"use_job_result"}
        /\ earned' = IF r = "pass" THEN earned \cup ({be.job} \cap Jobs) ELSE earned
        /\ be.job \in Jobs /\ Verified(be.job) => r = "undecided"
        /\ be.job \in Jobs /\ r = "undecided" =>
             Verified(be.job) \/ setup.kind[be.job] = "user-verify"
        /\ be.job = BootJob => r = "pass"
        /\ be.job \in Jobs \cup {BootJob}
    BY <1>0, JobsAssumption DEF BootJob
  <1>b. UNCHANGED <<setup, state, current, response, lock, outcome, disk, result,
                    pc, todo, faults, asks, report>>
    OBVIOUS
  <1>. Job' = Job BY DEF Job
  <1>1. TypeOK' /\ error' = "none"
    <2>1. /\ error' = "none" /\ state' \in States /\ allowed' \subseteq Calls
          /\ pc' \in Disconnected \cup Dialogue /\ current' \in JobIds
          /\ lock' \in BOOLEAN /\ setup' \in SetupType
          /\ response' \in {"none", "run", "skip", "verdict"}
          /\ result' \in [by : Jobs \cup {NoJob}, outcome : Outcomes]
          /\ todo' \subseteq Jobs /\ faults' \in 0..MaxFaults /\ asks' \in 0..MaxAsks
          /\ earned' \subseteq Jobs
      BY JobsAssumption, <1>0 DEF Calls
    <2>2. be' \in ExecutorRecords
      BY <1>a DEF Outcomes, ExecutorRecords
    <2>3. /\ outcome' \in [Jobs -> Outcomes] /\ report' \in [Jobs -> Outcomes]
          /\ disk' \in [found : BOOLEAN, running : JobIds, outcome : [Jobs -> Outcomes]]
      OBVIOUS
    <2>. QED BY <2>1, <2>2, <2>3
  <1>2. StatesAgree' BY DEF StatesAgree
  <1>3. CallsAgree' BY DEF StatesAgree, CallsAgree, ExecutorAgrees
  <1>4. RunExpected'
    BY <1>0, <1>a DEF StatesAgree, RunExpected, ExecutorAgrees, JobAgrees, HasCommand
  <1>5. ExecutorAgrees' BY <1>a DEF ExecutorAgrees
  <1>6. JobAgrees' BY <1>a DEF JobAgrees, Interactive
  <1>7. ListAgrees' BY DEF ListAgrees, AllJobsReported
  <1>8. DiskAgrees' BY DEF DiskAgrees, RunningShellJob
  <1>9. PassesEarned' BY <1>a DEF PassesEarned, PassIsEarned
  <1>10. FileAgrees' BY DEF StatesAgree, FileAgrees, Recorded
  <1>. QED BY <1>1, <1>2, <1>3, <1>4, <1>5, <1>6, <1>7, <1>8, <1>9, <1>10

LEMMA Wait_for_jobKeeps ==
  ASSUME RemoteInv, wait_for_job
  PROVE  RemoteInv'
  <1>. USE DEF wait_for_job, finish_job, sa_use_job_result, ResultOf, StateAfter,
               Verified, AfterJob, NextJob
  <1>0. {"get_job", "use_job_result"} \subseteq allowed
    BY JobsAssumption DEF StatesAgree, CallsAgree, RunExpected
  <1>. todo' \subseteq Jobs OBVIOUS
  <1>1. TypeOK' /\ error' = "none"
    <2>1. error' = "none" BY <1>0 DEF StatesAgree, ExecutorAgrees
    <2>2. allowed' \subseteq Calls BY DEF Calls
    <2>3. pc' \in Disconnected \cup Dialogue BY DEF Disconnected, Dialogue
    <2>4. lock' \in BOOLEAN BY <1>0, BoundAssumption
    <2>5. outcome' \in [Jobs -> Outcomes] /\ report' \in [Jobs -> Outcomes]
      BY DEF JobAgrees, ExecutorRecords
    <2>6. disk' \in [found : BOOLEAN, running : JobIds, outcome : [Jobs -> Outcomes]]
      BY DEF JobAgrees, ExecutorRecords
    <2>7. /\ state' \in States /\ current' \in JobIds
          /\ be' \in ExecutorRecords
          /\ setup' \in SetupType /\ response' \in {"none", "run", "skip", "verdict"}
          /\ result' \in [by : Jobs \cup {NoJob}, outcome : Outcomes]
          /\ todo' \subseteq Jobs /\ faults' \in 0..MaxFaults /\ asks' \in 0..MaxAsks
          /\ earned' \subseteq Jobs
      OBVIOUS
    <2>. QED BY <2>1, <2>2, <2>3, <2>4, <2>5, <2>6, <2>7
  <1>2. StatesAgree' BY <1>0 DEF StatesAgree, ExecutorAgrees, JobAgrees, ListAgrees
  <1>3. CallsAgree' BY DEF StatesAgree, CallsAgree
  <1>4. RunExpected' BY DEF RunExpected
  <1>5. ExecutorAgrees' BY DEF ExecutorAgrees
  <1>6. JobAgrees' BY DEF JobAgrees
  <1>7. ListAgrees'
    BY <1>0 DEF StatesAgree, ListAgrees, AllJobsReported, ExecutorAgrees, JobAgrees
  <1>8. DiskAgrees' BY <1>0, <1>2 DEF StatesAgree, DiskAgrees
  <1>9. PassesEarned'
    BY JobsAssumption
       DEF StatesAgree, PassesEarned, PassIsEarned, ExecutorAgrees, BootJob
  <1>10. FileAgrees'
    BY JobsAssumption
       DEF FileAgrees, Recorded, NoFile, ListAgrees, PassesEarned, JobAgrees, BootJob
  <1>. QED BY <1>1, <1>2, <1>3, <1>4, <1>5, <1>6, <1>7, <1>8, <1>9, <1>10

LEMMA VerdictKeeps ==
  ASSUME RemoteInv, NEW o \in {"pass", "fail", "skip"}, Verdict(o)
  PROVE  RemoteInv'
  <1>. USE DEF Verdict
  <1>0. state = "interacting" /\ be.result # "none" BY DEF StatesAgree, JobAgrees
  <1>. todo # {} => Job \in todo /\ Job \in Jobs BY FirstJob
  <1>. Job' = Job BY DEF Job
  <1>1. TypeOK' /\ error' = "none"
    BY BoundAssumption DEF StatesAgree, BootJob, JobAgrees, Dialogue, Outcomes, ExecutorRecords
  <1>2. StatesAgree' BY <1>0 DEF StatesAgree
  <1>3. CallsAgree' BY DEF CallsAgree
  <1>4. RunExpected' BY <1>0 DEF ExecutorRecords, RunExpected
  <1>5. ExecutorAgrees' BY <1>0 DEF ExecutorRecords, ExecutorAgrees
  <1>6. JobAgrees' BY DEF ExecutorRecords, StatesAgree, JobAgrees, Verified
  <1>7. ListAgrees' BY DEF StatesAgree, ListAgrees, AllJobsReported, JobAgrees
  <1>8. DiskAgrees' BY DEF DiskAgrees
  <1>9. PassesEarned' BY DEF ExecutorRecords, PassesEarned, PassIsEarned, DiskAgrees, JobAgrees
  <1>10. FileAgrees' BY DEF FileAgrees, Recorded, NoFile, DiskAgrees, PassesEarned
  <1>. QED BY <1>1, <1>2, <1>3, <1>4, <1>5, <1>6, <1>7, <1>8, <1>9, <1>10

LEMMA ReRunJobKeeps ==
  ASSUME RemoteInv, ReRunJob
  PROVE  RemoteInv'
  <1>. USE DEF ReRunJob, rerun_job, sa_use_job_result
  <1>0. state = "interacting" /\ "use_job_result" \in allowed /\ be.result # "none"
    BY DEF StatesAgree, RunExpected, JobAgrees
  <1>. Job' = Job BY DEF Job
  <1>1. TypeOK' /\ error' = "none"
    <2>1. error' = "none" BY <1>0
    <2>2. allowed' \subseteq Calls BY DEF Calls
    <2>3. pc' \in Disconnected \cup Dialogue BY DEF Disconnected, Dialogue
    <2>4. lock' \in BOOLEAN BY <1>0, BoundAssumption
    <2>5. /\ setup' \in SetupType /\ response' \in {"none", "run", "skip", "verdict"}
          /\ result' \in [by : Jobs \cup {NoJob}, outcome : Outcomes]
          /\ todo' \subseteq Jobs /\ faults' \in 0..MaxFaults /\ asks' \in 0..MaxAsks
          /\ earned' \subseteq Jobs
      BY <1>0, BoundAssumption
    <2>6. /\ state' \in States /\ current' \in JobIds
          /\ be' \in ExecutorRecords
          /\ outcome' \in [Jobs -> Outcomes] /\ report' \in [Jobs -> Outcomes]
          /\ disk' \in [found : BOOLEAN, running : JobIds, outcome : [Jobs -> Outcomes]]
      BY DEF ExecutorRecords
    <2>. QED BY <2>1, <2>2, <2>3, <2>4, <2>5, <2>6
  <1>2. StatesAgree' BY <1>0 DEF StatesAgree
  <1>3. CallsAgree' BY DEF CallsAgree
  <1>4. RunExpected' BY <1>0 DEF RunExpected
  <1>5. ExecutorAgrees' BY <1>0 DEF ExecutorAgrees
  <1>6. JobAgrees' BY DEF JobAgrees
  <1>7. ListAgrees' BY <1>0 DEF ListAgrees, AllJobsReported
  <1>8. DiskAgrees' BY DEF DiskAgrees
  <1>9. PassesEarned' BY DEF PassesEarned, PassIsEarned, JobAgrees
  <1>10. FileAgrees' BY DEF StatesAgree, FileAgrees, NoFile, JobAgrees
  <1>. QED BY <1>1, <1>2, <1>3, <1>4, <1>5, <1>6, <1>7, <1>8, <1>9, <1>10

LEMMA FinishVerifiedKeeps ==
  ASSUME RemoteInv, FinishVerified
  PROVE  RemoteInv'
  <1>. USE DEF FinishVerified, finish_job, sa_use_job_result, ResultOf, StateAfter,
               Verified, AfterJob, NextJob
  <1>0. {"get_job", "use_job_result"} \subseteq allowed
    BY JobsAssumption DEF StatesAgree, CallsAgree, RunExpected
  <1>. todo' \subseteq Jobs OBVIOUS
  <1>1. TypeOK' /\ error' = "none"
    <2>1. error' = "none" BY JobsAssumption, <1>0 DEF JobAgrees
    <2>2. allowed' \subseteq Calls BY DEF Calls
    <2>3. pc' \in Disconnected \cup Dialogue BY DEF Disconnected, Dialogue
    <2>4. lock' \in BOOLEAN BY <1>0, BoundAssumption
    <2>5. outcome' \in [Jobs -> Outcomes] /\ report' \in [Jobs -> Outcomes]
      BY DEF JobAgrees, ExecutorRecords
    <2>6. disk' \in [found : BOOLEAN, running : JobIds, outcome : [Jobs -> Outcomes]]
      BY DEF JobAgrees, ExecutorRecords
    <2>7. /\ state' \in States /\ current' \in JobIds
          /\ be' \in ExecutorRecords
          /\ setup' \in SetupType /\ response' \in {"none", "run", "skip", "verdict"}
          /\ result' \in [by : Jobs \cup {NoJob}, outcome : Outcomes]
          /\ todo' \subseteq Jobs /\ faults' \in 0..MaxFaults /\ asks' \in 0..MaxAsks
          /\ earned' \subseteq Jobs
      OBVIOUS
    <2>. QED BY <2>1, <2>2, <2>3, <2>4, <2>5, <2>6, <2>7
  <1>2. StatesAgree' BY <1>0 DEF StatesAgree, JobAgrees, ListAgrees
  <1>3. CallsAgree' BY DEF StatesAgree, CallsAgree
  <1>4. RunExpected' BY DEF RunExpected
  <1>5. ExecutorAgrees' BY <1>0 DEF ExecutorAgrees, JobAgrees
  <1>6. JobAgrees' BY DEF JobAgrees
  <1>7. ListAgrees' BY <1>0 DEF StatesAgree, ListAgrees, AllJobsReported, JobAgrees
  <1>8. DiskAgrees' BY <1>0, <1>2 DEF StatesAgree, DiskAgrees
  <1>9. PassesEarned'
    BY JobsAssumption DEF StatesAgree, PassesEarned, PassIsEarned, JobAgrees, BootJob
  <1>10. FileAgrees'
    BY DEF StatesAgree, FileAgrees, Recorded, NoFile, ListAgrees, JobAgrees
  <1>. QED BY <1>1, <1>2, <1>3, <1>4, <1>5, <1>6, <1>7, <1>8, <1>9, <1>10

LEMMA FinishSkippedKeeps ==
  ASSUME RemoteInv, FinishSkipped
  PROVE  RemoteInv'
  <1>. USE DEF FinishSkipped, finish_job, sa_use_job_result, ResultOf, StateAfter,
               Verified, AfterJob, NextJob
  <1>0. {"get_job", "use_job_result"} \subseteq allowed
    BY JobsAssumption DEF StatesAgree, CallsAgree, RunExpected
  <1>. todo' \subseteq Jobs OBVIOUS
  <1>1. TypeOK' /\ error' = "none"
    <2>1. error' = "none" BY JobsAssumption, <1>0 DEF JobAgrees
    <2>2. allowed' \subseteq Calls BY DEF Calls
    <2>3. pc' \in Disconnected \cup Dialogue BY DEF Disconnected, Dialogue
    <2>4. lock' \in BOOLEAN BY <1>0, BoundAssumption
    <2>5. outcome' \in [Jobs -> Outcomes] /\ report' \in [Jobs -> Outcomes]
      BY DEF JobAgrees, ExecutorRecords
    <2>6. disk' \in [found : BOOLEAN, running : JobIds, outcome : [Jobs -> Outcomes]]
      BY DEF JobAgrees, ExecutorRecords
    <2>7. /\ state' \in States /\ current' \in JobIds
          /\ be' \in ExecutorRecords
          /\ setup' \in SetupType /\ response' \in {"none", "run", "skip", "verdict"}
          /\ result' \in [by : Jobs \cup {NoJob}, outcome : Outcomes]
          /\ todo' \subseteq Jobs /\ faults' \in 0..MaxFaults /\ asks' \in 0..MaxAsks
          /\ earned' \subseteq Jobs
      OBVIOUS
    <2>. QED BY <2>1, <2>2, <2>3, <2>4, <2>5, <2>6, <2>7
  <1>2. StatesAgree' BY <1>0 DEF StatesAgree, JobAgrees, ListAgrees
  <1>3. CallsAgree' BY DEF StatesAgree, CallsAgree
  <1>4. RunExpected' BY DEF RunExpected
  <1>5. ExecutorAgrees' BY DEF StatesAgree, ExecutorAgrees
  <1>6. JobAgrees' BY DEF JobAgrees
  <1>7. ListAgrees' BY <1>0 DEF StatesAgree, ListAgrees, AllJobsReported, JobAgrees
  <1>8. DiskAgrees' BY <1>0, <1>2 DEF StatesAgree, DiskAgrees
  <1>9. PassesEarned' BY DEF StatesAgree, PassesEarned, PassIsEarned, JobAgrees
  <1>10. FileAgrees'
    BY DEF StatesAgree, FileAgrees, Recorded, NoFile, ListAgrees, JobAgrees
  <1>. QED BY <1>1, <1>2, <1>3, <1>4, <1>5, <1>6, <1>7, <1>8, <1>9, <1>10

LEMMA SkipRefusedKeeps ==
  ASSUME RemoteInv, SkipRefused
  PROVE  RemoteInv'
  <1>. USE DEF SkipRefused, rerun_job, sa_use_job_result
  <1>0. state = "interacting" /\ "use_job_result" \in allowed
    BY JobsAssumption DEF StatesAgree, RunExpected
  <1>. Job' = Job BY DEF Job
  <1>1. TypeOK' /\ error' = "none"
    <2>1. error' = "none" BY <1>0
    <2>2. allowed' \subseteq Calls BY DEF Calls
    <2>3. pc' \in Disconnected \cup Dialogue BY DEF Disconnected, Dialogue
    <2>4. lock' \in BOOLEAN BY <1>0, BoundAssumption
    <2>5. /\ setup' \in SetupType /\ response' \in {"none", "run", "skip", "verdict"}
          /\ result' \in [by : Jobs \cup {NoJob}, outcome : Outcomes]
          /\ todo' \subseteq Jobs /\ faults' \in 0..MaxFaults /\ asks' \in 0..MaxAsks
          /\ earned' \subseteq Jobs
      BY <1>0, BoundAssumption
    <2>6. /\ state' \in States /\ current' \in JobIds
          /\ be' \in ExecutorRecords
          /\ outcome' \in [Jobs -> Outcomes] /\ report' \in [Jobs -> Outcomes]
          /\ disk' \in [found : BOOLEAN, running : JobIds, outcome : [Jobs -> Outcomes]]
      BY DEF ExecutorRecords
    <2>. QED BY <2>1, <2>2, <2>3, <2>4, <2>5, <2>6
  <1>2. StatesAgree' BY <1>0 DEF StatesAgree
  <1>3. CallsAgree' BY DEF CallsAgree
  <1>4. RunExpected' BY DEF RunExpected
  <1>5. ExecutorAgrees' BY <1>0 DEF ExecutorAgrees
  <1>6. JobAgrees' BY DEF JobAgrees
  <1>7. ListAgrees' BY <1>0 DEF ListAgrees, AllJobsReported, JobAgrees
  <1>8. DiskAgrees' BY DEF DiskAgrees
  <1>9. PassesEarned' BY DEF PassesEarned, PassIsEarned, JobAgrees
  <1>10. FileAgrees' BY DEF StatesAgree, FileAgrees, NoFile, JobAgrees
  <1>. QED BY <1>1, <1>2, <1>3, <1>4, <1>5, <1>6, <1>7, <1>8, <1>9, <1>10

LEMMA Prepare_rerun_candidatesKeeps ==
  ASSUME RemoteInv, NEW chosen \in SUBSET Jobs, prepare_rerun_candidates(chosen)
  PROVE  RemoteInv'
  <1>. USE DEF prepare_rerun_candidates, RerunCandidates
  <1>0. "get_rerun_candidates" \in allowed BY DEF CallsAgree
  <1>a. /\ pc = "rerun" /\ pc' = "note"
        /\ \A j \in chosen : outcome[j] \in {"fail", "crash", "skip", "not-supported"}
        /\ outcome' = [j \in Jobs |-> IF j \in chosen THEN "none" ELSE outcome[j]]
        /\ UNCHANGED <<be, disk, report, earned>>
    BY <1>0
  <1>. todo' \subseteq Jobs OBVIOUS
  <1>1. TypeOK' /\ error' = "none"
    <2>1. error' = "none" BY <1>0
    <2>2. allowed' \subseteq Calls BY <1>0, BoundAssumption DEF Calls
    <2>3. pc' \in Disconnected \cup Dialogue BY DEF Disconnected, Dialogue
    <2>4. outcome' \in [Jobs -> Outcomes] /\ report' \in [Jobs -> Outcomes]
      BY DEF Outcomes
    <2>5. /\ setup' \in SetupType /\ response' \in {"none", "run", "skip", "verdict"}
          /\ result' \in [by : Jobs \cup {NoJob}, outcome : Outcomes]
          /\ todo' \subseteq Jobs /\ faults' \in 0..MaxFaults /\ asks' \in 0..MaxAsks
          /\ earned' \subseteq Jobs
      BY <1>0, BoundAssumption
    <2>6. /\ state' \in States /\ current' \in JobIds
          /\ be' \in ExecutorRecords
          /\ lock' \in BOOLEAN
          /\ disk' \in [found : BOOLEAN, running : JobIds, outcome : [Jobs -> Outcomes]]
      OBVIOUS
    <2>. QED BY <2>1, <2>2, <2>3, <2>4, <2>5, <2>6
  <1>2. StatesAgree' BY <1>0 DEF StatesAgree
  <1>3. CallsAgree' BY DEF CallsAgree
  <1>4. RunExpected' BY DEF RunExpected
  <1>5. ExecutorAgrees' BY DEF StatesAgree, ExecutorAgrees
  <1>6. JobAgrees' BY DEF JobAgrees
  <1>7. ListAgrees' BY DEF StatesAgree, ListAgrees, AllJobsReported
  <1>8. DiskAgrees' BY <1>0 DEF DiskAgrees
  <1>9. PassesEarned' BY DEF PassesEarned, PassIsEarned, DiskAgrees
  <1>10. FileAgrees' BY <1>0 DEF FileAgrees
  <1>. QED BY <1>1, <1>2, <1>3, <1>4, <1>5, <1>6, <1>7, <1>8, <1>9, <1>10

LEMMA NoRerunKeeps ==
  ASSUME RemoteInv, NoRerun
  PROVE  RemoteInv'
  <1>. USE DEF NoRerun
  <1>0. "get_rerun_candidates" \in allowed BY DEF CallsAgree
  <1>1. TypeOK' /\ error' = "none"
    BY <1>0, BoundAssumption, ZenonT(40) DEF Calls, Disconnected, Dialogue
  <1>2. StatesAgree' BY <1>0 DEF StatesAgree
  <1>3. CallsAgree' BY DEF CallsAgree
  <1>4. RunExpected' BY DEF RunExpected
  <1>5. ExecutorAgrees' BY DEF StatesAgree, ExecutorAgrees
  <1>6. JobAgrees' BY DEF JobAgrees
  <1>7. ListAgrees' BY DEF StatesAgree, ListAgrees, AllJobsReported
  <1>8. DiskAgrees' BY <1>0 DEF DiskAgrees
  <1>9. PassesEarned' BY DEF StatesAgree, PassesEarned, PassIsEarned
  <1>10. FileAgrees' BY <1>0 DEF FileAgrees
  <1>. QED BY <1>1, <1>2, <1>3, <1>4, <1>5, <1>6, <1>7, <1>8, <1>9, <1>10

LEMMA Finish_sessionKeeps ==
  ASSUME RemoteInv, finish_session
  PROVE  RemoteInv'
  <1>. USE DEF finish_session, finalize_session, Resumable, reset_sa, Forget,
               NoOutcomes
  <1>0. "finalize_session" \in allowed /\ Resumable BY DEF CallsAgree
  <1>1. TypeOK' /\ error' = "none"
    <2>1. error' = "none" BY <1>0
    <2>2. allowed' \subseteq Calls BY DEF Calls
    <2>3. pc' \in Disconnected \cup Dialogue BY DEF Disconnected
    <2>4. current' \in JobIds BY DEF JobIds
    <2>5. be' \in ExecutorRecords
      BY NewExecutorType, NoExecutorType
    <2>6. lock' \in BOOLEAN BY <1>0, BoundAssumption DEF NoExecutor
    <2>7. outcome' \in [Jobs -> Outcomes] /\ report' \in [Jobs -> Outcomes]
      BY DEF Outcomes
    <2>8. disk' \in [found : BOOLEAN, running : JobIds, outcome : [Jobs -> Outcomes]]
      BY <1>0, BoundAssumption, ZenonT(40)
         DEF JobIds, Outcomes, NoJob, BootJob, NoExecutor, JobAgrees, ExecutorAgrees
    <2>9. /\ state' \in States /\ setup' \in SetupType
          /\ response' \in {"none", "run", "skip", "verdict"}
          /\ result' \in [by : Jobs \cup {NoJob}, outcome : Outcomes]
          /\ todo' \subseteq Jobs /\ faults' \in 0..MaxFaults /\ asks' \in 0..MaxAsks
          /\ earned' \subseteq Jobs
      OBVIOUS
    <2>. QED BY <2>1, <2>2, <2>3, <2>4, <2>5, <2>6, <2>7, <2>8, <2>9
  <1>2. StatesAgree' BY <1>0 DEF StatesAgree
  <1>3. CallsAgree' BY DEF CallsAgree
  <1>4. RunExpected' BY DEF RunExpected, HasCommand, NoExecutor
  <1>5. ExecutorAgrees' BY DEF ExecutorAgrees, Verified, HasCommand, NoExecutor
  <1>6. JobAgrees' BY DEF JobAgrees
  <1>7. ListAgrees' BY DEF ListAgrees, AllJobsReported
  <1>8. DiskAgrees' BY <1>0 DEF DiskAgrees
  <1>9. PassesEarned' BY DEF StatesAgree, PassesEarned, PassIsEarned, NoExecutor
  <1>10. FileAgrees' BY <1>0 DEF FileAgrees
  <1>. QED BY <1>1, <1>2, <1>3, <1>4, <1>5, <1>6, <1>7, <1>8, <1>9, <1>10

(* A fault strikes outside the listed moments: what each of them rules     *)
(* out, said of the state it finds.                                        *)
LEMMA NoMoment ==
  ASSUME NoWindows, NEW ws, MayStrike(ws), NEW w \in ws
  PROVE  ~Moment(w)
  BY DEF MayStrike, NoWindows

LEMMA LossCoped ==
  ASSUME NoWindows, MayStrike(LossWindows)
  PROVE  /\ pc \notin {"boot_list", "next", "verified", "peek_bootstrap",
                       "menu_select", "menu_bootstrap", "menu_answer"}
         /\ ~(pc = "verify" /\ HasCommand(Job))
         /\ pc \in JobSteps => outcome[Job] = "none"
         /\ result # NoFile =>
              /\ result.by = disk.running
              /\ \/ disk.outcome[result.by] \in {"none", result.outcome}
                 \/ /\ result.by \in setup.autorestart
                    /\ disk.outcome[result.by] = RestartOutcome(result.by)
         /\ ~(disk.found /\ disk.running = NoJob /\ result = NoFile)
  <1>1. /\ ~Moment("prepared") /\ ~Moment("answered") /\ ~Moment("verifying")
        /\ ~Moment("asked") /\ ~Moment("executing")
    BY NoMoment DEF LossWindows
  <1>2. /\ ~Moment("peeked") /\ ~Moment("resuming") /\ ~Moment("leftover")
        /\ ~Moment("unstarted")
    BY NoMoment DEF LossWindows
  <1>. QED BY <1>1, <1>2 DEF Moment

LEMMA CrashCoped ==
  ASSUME NoWindows, MayStrike({"asked", "noted", "leftover", "unstarted", "autorestarted"})
  PROVE  /\ pc \in JobSteps => outcome[Job] = "none"
         /\ disk.found /\ disk.running \in Jobs /\ ~Recorded(disk.running) /\ ~Reboots =>
              /\ setup.kind[disk.running] # "noreturn"
              /\ setup.silent => setup.kind[disk.running] = "shell"
         /\ result # NoFile =>
              /\ result.by = disk.running
              /\ \/ disk.outcome[result.by] \in {"none", result.outcome}
                 \/ /\ result.by \in setup.autorestart
                    /\ disk.outcome[result.by] = RestartOutcome(result.by)
         /\ ~(disk.found /\ disk.running = NoJob /\ result = NoFile)
         /\ disk.found /\ disk.running \in setup.autorestart /\ Recorded(disk.running) =>
              disk.outcome = OutcomesLoaded
  <1>1. /\ ~Moment("asked") /\ ~Moment("noted") /\ ~Moment("leftover")
        /\ ~Moment("unstarted") /\ ~Moment("autorestarted")
    BY NoMoment
  <1>. QED BY <1>1 DEF Moment

(* A session that is left with the agent idle, to be resumed.              *)
LEMMA RestartCoped ==
  ASSUME NoWindows, RemoteInv, MayStrike({"autorestarted"}), disk.found,
         disk.running \in setup.autorestart
  PROVE  disk.outcome[disk.running] \in
           {"none", IF setup.kind[disk.running] = "noreturn" THEN "pass" ELSE "fail"}
  <1>1. ~Moment("autorestarted") BY NoMoment
  <1>2. disk.outcome \in [Jobs -> Outcomes] /\ setup \in SetupType OBVIOUS
  <1>3. disk.running \in Jobs BY <1>2 DEF SetupType
  <1>4. CASE disk.outcome = OutcomesLoaded
    BY <1>2, <1>3, <1>4 DEF OutcomesLoaded, RestartOutcome
  <1>. QED BY <1>1, <1>4 DEF Moment, Recorded

LEMMA AbandonCoped ==
  ASSUME NoWindows, MayStrike({"abandoning"})
  PROVE  "finalize_session" \in allowed
  <1>1. ~Moment("abandoning") BY NoMoment
  <1>. QED BY <1>1 DEF Moment

(* Then faults keep the invariant as well.                                 *)
LEMMA LoseKeeps ==
  ASSUME NoWindows, RemoteInv, Lose
  PROVE  RemoteInv'
  <1>a. /\ pc # "done" /\ pc' = "out" /\ todo' = {}
        /\ UNCHANGED <<setup, state, allowed, current, response, be, lock, outcome, disk,
                       result, earned, report>>
    BY DEF Lose, Dialogue
  <1>b. MayStrike(LossWindows) BY DEF Lose
  <1>c. disk.found /\ state = "idle" /\ disk.running \in setup.autorestart =>
         disk.outcome[disk.running] \in
           {"none", IF setup.kind[disk.running] = "noreturn" THEN "pass" ELSE "fail"}
    BY RestartCoped DEF Lose
  <1>1. TypeOK' /\ error' = "none"
    BY BoundAssumption DEF Fault, Disconnected, Dialogue, Lose
  <1>2. StatesAgree' BY <1>a, <1>b, LossCoped DEF StatesAgree, Disconnected
  <1>3. CallsAgree' BY <1>a, <1>b, LossCoped DEF StatesAgree, CallsAgree
  <1>4. RunExpected'
    BY <1>a, <1>b, LossCoped DEF StatesAgree, RunExpected, ExecutorAgrees, HasCommand
  <1>5. ExecutorAgrees'
    BY <1>a, <1>b, LossCoped
       DEF StatesAgree, ExecutorAgrees, JobAgrees, Verified, HasCommand
  <1>6. JobAgrees' BY <1>a, <1>b, LossCoped DEF StatesAgree, JobAgrees
  <1>7. ListAgrees'
    BY <1>a, <1>b, LossCoped DEF StatesAgree, ListAgrees, AllJobsReported
  <1>8. DiskAgrees'
    BY <1>a, <1>b, <1>c, LossCoped DEF StatesAgree, DiskAgrees, RunningShellJob
  <1>9. PassesEarned'
    BY <1>a, <1>b, LossCoped DEF StatesAgree, PassesEarned, PassIsEarned
  <1>10. FileAgrees'
    BY <1>a, <1>b, LossCoped
       DEF StatesAgree, FileAgrees, ListAgrees, DiskAgrees, Recorded, NoFile,
           JobAgrees, Interactive, RestartOutcome
  <1>. QED BY <1>1, <1>2, <1>3, <1>4, <1>5, <1>6, <1>7, <1>8, <1>9, <1>10

LEMMA QuitKeeps ==
  ASSUME NoWindows, RemoteInv, Quit
  PROVE  RemoteInv'
  <1>a. /\ pc = "prompt" /\ pc' = "quit" /\ todo' = {}
        /\ UNCHANGED <<disk, setup, result, earned, report>>
        /\ state' = "idle" /\ allowed' = FreshCalls
        /\ current' = NoJob /\ response' = "none" /\ lock' = FALSE
        /\ be' = [job |-> NoJob, alive |-> FALSE, result |-> "none", beside |-> 0]
        /\ outcome' = [j \in Jobs |-> "none"]
    BY DEF Quit, reset_sa, Forget, NoExecutor, NoOutcomes
  <1>b. MayStrike(LossWindows) /\ MayStrike({"autorestarted"})
    BY DEF Quit, MayStrike
  <1>1. TypeOK' /\ error' = "none"
    <2>1. be' \in ExecutorRecords
      BY <1>a, NoExecutorType DEF NoExecutor
    <2>2. outcome' \in [Jobs -> Outcomes] BY <1>a DEF Outcomes
    <2>3. disk' \in [found : BOOLEAN, running : JobIds, outcome : [Jobs -> Outcomes]]
      BY <1>a
    <2>4. faults' \in 0..MaxFaults /\ asks' \in 0..MaxAsks
      BY BoundAssumption DEF Quit, Fault
    <2>5. error' = "none" BY <1>a DEF Quit
    <2>. QED
      BY <1>a, <2>1, <2>2, <2>3, <2>4, <2>5 DEF Calls, JobIds, Disconnected, Dialogue
  <1>2. StatesAgree'
    BY <1>a, <1>b, LossCoped, JobsAssumption DEF StatesAgree, Disconnected
  <1>3. CallsAgree'
    BY <1>a, <1>b, LossCoped, JobsAssumption DEF StatesAgree, CallsAgree
  <1>4. RunExpected'
    BY <1>a, <1>b, LossCoped, JobsAssumption
       DEF StatesAgree, RunExpected, ExecutorAgrees, HasCommand
  <1>5. ExecutorAgrees'
    BY <1>a, <1>b, LossCoped, JobsAssumption
       DEF StatesAgree, ExecutorAgrees, JobAgrees, Verified, HasCommand, NoJob,
           BootJob
  <1>6. JobAgrees' BY <1>a, <1>b, LossCoped, JobsAssumption DEF StatesAgree, JobAgrees
  <1>7. ListAgrees'
    BY <1>a, <1>b, LossCoped, JobsAssumption
       DEF StatesAgree, ListAgrees, AllJobsReported
  <1>8. DiskAgrees'
    BY <1>a, <1>b, LossCoped, RestartCoped, JobsAssumption
       DEF StatesAgree, DiskAgrees, RunningShellJob
  <1>9. PassesEarned'
    BY <1>a, <1>b, LossCoped, JobsAssumption
       DEF StatesAgree, PassesEarned, PassIsEarned, NoJob, BootJob
  <1>10. FileAgrees'
    BY <1>a, <1>b, LossCoped, JobsAssumption
       DEF StatesAgree, FileAgrees, ListAgrees, DiskAgrees, Recorded, NoFile,
           JobAgrees, Interactive, RestartOutcome
  <1>. QED BY <1>1, <1>2, <1>3, <1>4, <1>5, <1>6, <1>7, <1>8, <1>9, <1>10

LEMMA AbandonKeeps ==
  ASSUME NoWindows, RemoteInv, Abandon
  PROVE  RemoteInv'
  <1>0. "finalize_session" \in allowed BY AbandonCoped DEF Abandon
  <1>a. /\ pc # "done" /\ pc' = "dispatch" /\ todo' = {}
        /\ UNCHANGED <<setup, result, earned, report>>
        /\ disk' = IF Resumable THEN [disk EXCEPT !.found = FALSE] ELSE disk
        /\ state' = "idle" /\ allowed' = FreshCalls
        /\ current' = NoJob /\ response' = "none" /\ lock' = FALSE
        /\ be' = [job |-> NoJob, alive |-> FALSE, result |-> "none", beside |-> 0]
        /\ outcome' = [j \in Jobs |-> "none"]
    BY <1>0
       DEF Abandon, finalize_session, reset_sa, Forget, NoExecutor, NoOutcomes,
           Dialogue
  <1>b. disk'.found => disk' = disk /\ Unloaded BY <1>a DEF CallsAgree, Resumable
  <1>1. TypeOK' /\ error' = "none"
    <2>1. be' \in ExecutorRecords
      BY <1>0, <1>a, NoExecutorType DEF NoExecutor
    <2>2. outcome' \in [Jobs -> Outcomes] BY <1>0, <1>a DEF Outcomes
    <2>3. disk' \in [found : BOOLEAN, running : JobIds, outcome : [Jobs -> Outcomes]]
      BY <1>0, <1>a
    <2>4. faults' \in 0..MaxFaults /\ asks' \in 0..MaxAsks
      BY BoundAssumption DEF Abandon, Fault
    <2>5. error' = "none" BY <1>0, <1>a DEF Abandon
    <2>. QED
      BY <1>0, <1>a, <2>1, <2>2, <2>3, <2>4, <2>5
         DEF Calls, JobIds, Disconnected, Dialogue
  <1>2. StatesAgree' BY <1>a, <1>b, JobsAssumption DEF StatesAgree, Disconnected
  <1>3. CallsAgree' BY <1>a, <1>b, JobsAssumption DEF StatesAgree, CallsAgree
  <1>4. RunExpected'
    BY <1>a, <1>b, JobsAssumption
       DEF StatesAgree, RunExpected, ExecutorAgrees, HasCommand
  <1>5. ExecutorAgrees'
    BY <1>a, <1>b, JobsAssumption
       DEF StatesAgree, ExecutorAgrees, JobAgrees, Verified, HasCommand, NoJob,
           BootJob
  <1>6. JobAgrees' BY <1>a, <1>b, JobsAssumption DEF StatesAgree, JobAgrees
  <1>7. ListAgrees'
    BY <1>a, <1>b, JobsAssumption DEF StatesAgree, ListAgrees, AllJobsReported
  <1>8. DiskAgrees'
    BY <1>a, <1>b, JobsAssumption DEF StatesAgree, DiskAgrees, RunningShellJob
  <1>9. PassesEarned'
    BY <1>a, <1>b, JobsAssumption
       DEF StatesAgree, PassesEarned, PassIsEarned, NoJob, BootJob
  <1>10. FileAgrees'
    BY <1>a, <1>b, JobsAssumption DEF StatesAgree, FileAgrees, Recorded
  <1>. QED BY <1>1, <1>2, <1>3, <1>4, <1>5, <1>6, <1>7, <1>8, <1>9, <1>10

LEMMA KillCommandKeeps ==
  ASSUME NoWindows, RemoteInv, KillCommand
  PROVE  RemoteInv'
  <1>a. /\ pc \in {"wait", "verify", "rejoin", "boot_wait"} /\ pc' = "dispatch" /\ todo' = {}
        /\ be.alive
        /\ be' = [be EXCEPT !.alive = FALSE,
                            !.result = IF EndsOpen(be.job) THEN "undecided" ELSE "crash"]
        /\ allowed' = (allowed \ {"run_job"}) \cup {"use_job_result"}
        /\ UNCHANGED <<setup, state, current, response, lock, outcome, disk, result,
                       earned, report, error>>
    BY DEF KillCommand
  <1>b. MayStrike(LossWindows) BY DEF KillCommand
  <1>c. pc # "verify" BY <1>a, <1>b, LossCoped, FirstJob DEF ExecutorAgrees, JobAgrees
  <1>1. TypeOK' /\ error' = "none"
    <2>1. be' \in ExecutorRecords
      BY <1>a DEF Outcomes, ExecutorRecords
    <2>2. faults' \in 0..MaxFaults /\ asks' \in 0..MaxAsks
      BY BoundAssumption DEF KillCommand, Fault
    <2>3. error' = "none" BY <1>a DEF KillCommand
    <2>. QED BY <1>a, <2>1, <2>2, <2>3 DEF Calls, JobIds, Disconnected, Dialogue
  <1>2. StatesAgree'
    BY <1>a, <1>b, <1>c, LossCoped, JobsAssumption DEF StatesAgree, Disconnected
  <1>3. CallsAgree'
    BY <1>a, <1>b, <1>c, LossCoped, JobsAssumption
       DEF StatesAgree, CallsAgree, ExecutorAgrees
  <1>4. RunExpected'
    BY <1>a, <1>b, <1>c, LossCoped, JobsAssumption
       DEF StatesAgree, RunExpected, ExecutorAgrees, HasCommand
  <1>5. ExecutorAgrees'
    BY <1>a, <1>b, <1>c, LossCoped, JobsAssumption
       DEF StatesAgree, ExecutorAgrees, JobAgrees, Verified, EndsOpen, HasCommand
  <1>6. JobAgrees'
    BY <1>a, <1>b, <1>c, LossCoped, JobsAssumption DEF StatesAgree, JobAgrees
  <1>7. ListAgrees'
    BY <1>a, <1>b, <1>c, LossCoped, JobsAssumption
       DEF StatesAgree, ListAgrees, AllJobsReported
  <1>8. DiskAgrees'
    BY <1>a, <1>b, <1>c, LossCoped, JobsAssumption
       DEF StatesAgree, DiskAgrees, RunningShellJob
  <1>9. PassesEarned'
    BY <1>a, <1>b, <1>c, LossCoped, JobsAssumption
       DEF StatesAgree, PassesEarned, PassIsEarned
  <1>10. FileAgrees'
    BY <1>a, <1>b, <1>c, LossCoped, JobsAssumption
       DEF StatesAgree, FileAgrees, ListAgrees, DiskAgrees, Recorded, NoFile,
           JobAgrees, Interactive
  <1>. QED BY <1>1, <1>2, <1>3, <1>4, <1>5, <1>6, <1>7, <1>8, <1>9, <1>10

LEMMA AgentCrashKeeps ==
  ASSUME NoWindows, RemoteInv, AgentCrash
  PROVE  RemoteInv'
  <1>a. /\ pc # "done" /\ pc' = "out" /\ todo' = {}
        /\ current' = NoJob /\ response' = "none" /\ lock' = FALSE
        /\ be' = [job |-> NoJob, alive |-> FALSE, result |-> "none", beside |-> 0]
        /\ UNCHANGED <<setup, report>>
    BY DEF AgentCrash, reset_sa, Forget, NoExecutor
  <1>b. /\ MayStrike({"asked", "noted", "leftover", "unstarted", "autorestarted"})
        /\ MayStrike({"autorestarted"})
    BY DEF AgentCrash, MayStrike
  <1>c. /\ result' \in {result} \cup
             (IF Reboots THEN [by : {be.job}, outcome : {"pass", "fail", "skip"}] ELSE {})
        /\ earned' = IF Reboots THEN earned \cup {be.job} ELSE earned
    BY DEF AgentCrash
  <1>d. Reboots =>
          /\ be.job \in Jobs /\ setup.kind[be.job] = "noreturn"
          /\ disk.found /\ disk.running = be.job
    BY DEF Reboots, Started, ExecutorAgrees
  <1>e. /\ result' # NoFile =>
             /\ result'.by \in Jobs /\ result'.by = disk.running
             /\ setup.kind[result'.by] = "noreturn"
             /\ result'.outcome \notin {"none", "undecided"}
             /\ disk.found /\ result'.outcome = "pass" => result'.by \in earned'
        /\ result'.outcome # "undecided"
        /\ result' \in [by : Jobs \cup {NoJob}, outcome : Outcomes]
    <2>1. CASE result' = result
      BY <2>1, <1>b, <1>c, CrashCoped DEF FileAgrees, NoFile, RestartOutcome
    <2>2. CASE /\ Reboots
               /\ result' \in [by : {be.job}, outcome : {"pass", "fail", "skip"}]
      BY <2>2, <1>c, <1>d DEF Outcomes
    <2>. QED BY <1>c, <2>1, <2>2
  <1>f. disk.found => \A j \in Jobs :
          disk.outcome[j] = "undecided" => setup.kind[j] = "user-verify"
    BY <1>b, CrashCoped DEF ListAgrees
  <1>g. disk.found /\ disk.running \in Jobs
          /\ setup.kind[disk.running] = "noreturn" /\ ~Recorded(disk.running) =>
          disk.running \in earned'
    BY <1>b, <1>c, <1>d, CrashCoped
  <1>h. earned \subseteq earned' /\ earned' \subseteq Jobs BY <1>c, <1>d
  <1>i. faults' \in 0..MaxFaults /\ asks' \in 0..MaxAsks
    BY BoundAssumption DEF AgentCrash, Fault
  <1>j. disk.found => disk.running # NoJob BY <1>b, CrashCoped DEF DiskAgrees
  <1>1. CASE ~setup.silent \/ ~disk.found
    <2>a. /\ state' = "idle" /\ allowed' = FreshCalls
          /\ outcome' = [j \in Jobs |-> "none"] /\ UNCHANGED <<disk, error>>
      BY <1>1 DEF AgentCrash, reset_sa, Forget, NoOutcomes
    <2>1. TypeOK' /\ error' = "none"
      BY <1>a, <1>e, <1>h, <1>i, <2>a, NoExecutorType
         DEF NoExecutor, Calls, JobIds, Outcomes, Disconnected, Dialogue
    <2>2. StatesAgree' /\ CallsAgree' /\ RunExpected'
      BY <1>a, <2>a DEF StatesAgree, CallsAgree, RunExpected
    <2>3. ExecutorAgrees' /\ JobAgrees' BY <1>a, <2>a DEF ExecutorAgrees, JobAgrees
    <2>4. ListAgrees' BY <1>a, <1>f, <2>a DEF ListAgrees, AllJobsReported
    <2>5. DiskAgrees' BY <1>a, <1>b, <1>j, <2>a, RestartCoped DEF DiskAgrees
    <2>6. PassesEarned' BY <1>a, <1>h, <2>a DEF PassesEarned, PassIsEarned
    <2>7. FileAgrees' BY <1>a, <1>e, <1>g, <2>a DEF FileAgrees, NoFile, Recorded
    <2>. QED BY <2>1, <2>2, <2>3, <2>4, <2>5, <2>6, <2>7
  <1>2. CASE setup.silent /\ disk.found
    <2>0. CanResume(result') BY <1>2, <1>j DEF CanResume
    <2>a. /\ state' = "testsselected" /\ allowed' = NormalCalls \ {"use_job_result"}
          /\ outcome' = OutcomesOnResume(result')
          /\ disk' = [disk EXCEPT !.outcome = outcome'] /\ UNCHANGED error
      BY <1>2, <1>j, <2>0 DEF AgentCrash, resume_by_id
    <2>b. /\ OutcomesLoaded \in [Jobs -> Outcomes]
          /\ \A j \in Jobs :
               /\ OutcomesLoaded[j] = "undecided" => setup.kind[j] = "user-verify"
               /\ OutcomesLoaded[j] = "pass" => j \in earned'
          /\ disk.running \in Jobs /\ OutcomesLoaded[disk.running] = "none" =>
               ~Recorded(disk.running)
      <3>1. \A j \in Jobs : disk.outcome[j] = "pass" => j \in earned'
        BY <1>h DEF PassesEarned, PassIsEarned
      <3>2. disk.running \in setup.autorestart /\ ~Recorded(disk.running)
              /\ RestartOutcome(disk.running) = "pass" => disk.running \in earned'
        <4>1. disk.running \in setup.autorestart => disk.running \in Jobs BY LoadedType
        <4>2. RestartOutcome(disk.running) = "pass" => setup.kind[disk.running] = "noreturn"
          BY DEF RestartOutcome
        <4>. QED BY <1>2, <1>g, <4>1, <4>2
      <3>3. \A j \in Jobs : RestartOutcome(j) \in {"pass", "fail"} BY DEF RestartOutcome
      <3>4. disk.running \in setup.autorestart /\ Recorded(disk.running) =>
              OutcomesLoaded = disk.outcome
        BY <1>2, <1>b, CrashCoped
      <3>. QED BY <1>2, <1>f, <3>1, <3>2, <3>3, <3>4, LoadedType DEF Recorded
    <2>e. disk.running \in Jobs =>
            LET r == LastOutcome(disk.running, result') IN
              /\ r \in Outcomes /\ r # "none"
              /\ r = "undecided" => setup.kind[disk.running] = "user-verify"
              /\ r = "pass" => disk.running \in earned'
      <3>. SUFFICES ASSUME disk.running \in Jobs
           PROVE LET r == LastOutcome(disk.running, result') IN
              /\ r \in Outcomes /\ r # "none"
              /\ r = "undecided" => setup.kind[disk.running] = "user-verify"
              /\ r = "pass" => disk.running \in earned'
        OBVIOUS
      <3>1. CASE result' # NoFile BY <3>1, <1>2, <1>e DEF LastOutcome
      <3>2. CASE result' = NoFile /\ OutcomesLoaded[disk.running] # "none"
        BY <3>2, <2>b DEF LastOutcome
      <3>3. CASE result' = NoFile /\ OutcomesLoaded[disk.running] = "none"
        <4>1. setup.kind[disk.running] # "shell" => disk.running \in earned'
          BY <3>3, <2>b, <1>2, <1>b, <1>c, <1>d, <1>g, CrashCoped
        <4>. QED BY <3>3, <4>1 DEF LastOutcome, Outcomes
      <3>. QED BY <3>1, <3>2, <3>3
    <2>c. /\ disk'.found /\ disk'.running = disk.running /\ disk'.outcome = outcome'
          /\ disk.running \in Jobs =>
               outcome' = [OutcomesLoaded EXCEPT ![disk.running] =
                             LastOutcome(disk.running, result')]
          /\ disk.running \notin Jobs => outcome' = OutcomesLoaded
      BY <1>2, <2>a DEF OutcomesOnResume, ResumedOutcomes
    <2>d. outcome' \in [Jobs -> Outcomes] BY <2>b, <2>c, <2>e
    <2>1. TypeOK' /\ error' = "none"
      BY <1>a, <1>e, <1>h, <1>i, <2>a, <2>d, NoExecutorType
         DEF NoExecutor, Calls, JobIds, Disconnected, Dialogue
    <2>2. StatesAgree' /\ CallsAgree' /\ RunExpected'
      BY <1>a, <2>a DEF StatesAgree, CallsAgree, RunExpected
    <2>3. ExecutorAgrees' /\ JobAgrees' BY <1>a, <2>a DEF ExecutorAgrees, JobAgrees
    <2>4. ListAgrees'
      BY <1>2, <1>a, <1>f, <2>a, <2>b, <2>c, <2>e DEF ListAgrees, AllJobsReported
    <2>5. DiskAgrees' BY <1>2, <1>a, <1>j, <2>a, <2>c DEF DiskAgrees
    <2>6. PassesEarned'
      BY <1>2, <1>a, <1>h, <2>a, <2>b, <2>c, <2>e DEF PassesEarned, PassIsEarned
    <2>7. FileAgrees' BY <1>a, <1>e, <2>a, <2>b, <2>c, <2>e DEF FileAgrees, NoFile
    <2>. QED BY <2>1, <2>2, <2>3, <2>4, <2>5, <2>6, <2>7
  <1>. QED BY <1>1, <1>2

(* It holds at the start, in every stuttering step and thus in every step. *)
LEMMA StartsAgreed == Init => RemoteInv
  <1>. SUFFICES ASSUME Init PROVE RemoteInv OBVIOUS
  <1>. USE DEF Init
  <1>0. NoOutcomes \in [Jobs -> Outcomes] BY DEF NoOutcomes, Outcomes
  <1>1. TypeOK /\ error = "none"
    <2>1. disk \in [found : BOOLEAN, running : JobIds, outcome : [Jobs -> Outcomes]]
      BY <1>0 DEF NoSession, JobIds
    <2>2. result \in [by : Jobs \cup {NoJob}, outcome : Outcomes]
      BY DEF NoFile, Outcomes
    <2>3. faults \in 0..MaxFaults /\ asks \in 0..MaxAsks BY BoundAssumption
    <2>4. setup \in SetupType BY SetupAssumption
    <2>. QED
      BY <1>0, <2>1, <2>2, <2>3, <2>4, NoExecutorType DEF Calls, JobIds, Disconnected
  <1>2. StatesAgree /\ CallsAgree /\ RunExpected
    BY DEF StatesAgree, CallsAgree, RunExpected, NoExecutor
  <1>3. ExecutorAgrees /\ JobAgrees BY DEF ExecutorAgrees, JobAgrees, NoExecutor
  <1>4. ListAgrees /\ DiskAgrees
    BY DEF ListAgrees, DiskAgrees, NoSession, AllJobsReported
  <1>5. PassesEarned /\ FileAgrees
    BY DEF PassesEarned, PassIsEarned, FileAgrees, NoExecutor, NoOutcomes, NoSession,
           NoFile
  <1>. QED BY <1>1, <1>2, <1>3, <1>4, <1>5

LEMMA StandsStill ==
  ASSUME RemoteInv, UNCHANGED vars
  PROVE  RemoteInv'
  BY DEF vars, StatesAgree, CallsAgree, RunExpected, ExecutorAgrees, JobAgrees,
         ListAgrees, AllJobsReported, DiskAgrees, PassesEarned, PassIsEarned,
         FileAgrees, Job, Verified, Interactive,
         HasCommand, RunningShellJob, Recorded

LEMMA StaysAgreed ==
  ASSUME NoWindows, RemoteInv, [Next]_vars
  PROVE  RemoteInv'
  <1>1. CASE Connecting
    BY <1>1, ConnectKeeps, Whats_upKeeps, RestartKeeps, RollbackKeeps, RejoinKeeps,
       PeekListKeeps, PeekResumeKeeps, PeekSelectKeeps, PeekBootstrapKeeps,
       PeekAbandonKeeps, Automatically_resume_last_sessionKeeps
       DEF Connecting
  <1>2. CASE Starting
    BY <1>2, Start_sessionKeeps, ChooseTestPlanKeeps, ChooseResumeKeeps,
       MenuResumeKeeps, MenuSelectKeeps, MenuBootstrapKeeps, Resume_sessionKeeps,
       Prepare_bootstrappingKeeps, Get_bootstrapping_todo_listKeeps,
       Run_bootstrapping_jobKeeps, FinishBootstrapJobKeeps, Finish_bootstrapKeeps,
       Finish_job_selectionKeeps
       DEF Starting
  <1>3. CASE Running
    BY <1>3, Get_session_progressKeeps, Note_metadata_starting_jobKeeps, Run_jobKeeps,
       Remember_users_responseKeeps, RunJobGoesOnKeeps, Wait_for_jobKeeps,
       VerdictKeeps, ReRunJobKeeps, FinishVerifiedKeeps, FinishSkippedKeeps,
       SkipRefusedKeeps, Prepare_rerun_candidatesKeeps, NoRerunKeeps,
       Finish_sessionKeeps
       DEF Running
  <1>4. CASE Executor
    <2>1. ~ReplacedEnds BY DEF ReplacedEnds, ExecutorAgrees
    <2>. QED BY <1>4, <2>1, ExecutorEndsKeeps DEF Executor
  <1>5. CASE Faults
    BY <1>5, LoseKeeps, QuitKeeps, AbandonKeeps, KillCommandKeeps, AgentCrashKeeps
       DEF Faults
  <1>6. CASE Finished BY <1>6, StandsStill DEF Finished
  <1>7. CASE UNCHANGED vars BY <1>7, StandsStill
  <1>. QED BY <1>1, <1>2, <1>3, <1>4, <1>5, <1>6, <1>7 DEF Next, Controller

HIDE DEF RemoteInv, TypeOK, Quiet, SameJob, rsaVars, States, Rpc, Fails

(* However often the controller is lost, a command is killed or the agent  *)
(* restarts, outside the listed moments, the state RemoteSessionAssistant  *)
(* keeps, the calls UsageExpectation accepts, the BackgroundExecutor, the  *)
(* checkpoint and where RemoteController is in its dialogue agree.         *)
THEOREM RemoteAgrees == NoWindows => (Spec => []RemoteInv)
  <1>. SUFFICES ASSUME NoWindows PROVE Spec => []RemoteInv OBVIOUS
  <1>1. Init => RemoteInv BY StartsAgreed
  <1>2. RemoteInv /\ [Next]_vars => RemoteInv' BY StaysAgreed
  <1>. QED BY <1>1, <1>2, PTL DEF Spec

(* Every variable of RemoteSession keeps its type, in particular every     *)
(* outcome recorded or reported is one the code knows.                     *)
THEOREM RemoteTypeOK == NoWindows => (Spec => []TypeOK)
  <1>1. RemoteInv => TypeOK BY DEF RemoteInv
  <1>. QED BY <1>1, RemoteAgrees, PTL

(* No call of the controller is refused, neither by the state of the agent *)
(* nor by the session assistant raising UnexpectedMethodCall, and no       *)
(* executor thread dies of such a call.                                    *)
THEOREM CallsNeverRefused == NoWindows => (Spec => []NoCallRefused)
  <1>1. RemoteInv => NoCallRefused BY DEF RemoteInv, NoCallRefused
  <1>. QED BY <1>1, RemoteAgrees, PTL

(* run_job and the other calls that start a BackgroundExecutor find the    *)
(* lock free and no command running, also after a reconnection: the one    *)
(* that waits for a job it finds running (wait_and_continue), and the one  *)
(* that rolls a question to the user back.  NoWindows leaves out the       *)
(* rollback of a job whose command still runs, the moment "executing",     *)
(* after which the code does run two commands at once (OneCommandAtATime). *)
THEOREM SlotIsFree == NoWindows => (Spec => []ExecutorSlotFree)
  <1>1. RemoteInv => ExecutorSlotFree
    BY DEF RemoteInv, TypeOK, ExecutorSlotFree, StatesAgree, ExecutorAgrees
  <1>. QED BY <1>1, RemoteAgrees, PTL

(* A session that finish_session reports has an outcome for each of its    *)
(* jobs, however often it was interrupted and resumed, and only that of a  *)
(* user-verify job may be undecided.                                       *)
THEOREM AllReported == NoWindows => (Spec => []AllJobsReported)
  <1>1. RemoteInv => AllJobsReported BY DEF RemoteInv, ListAgrees
  <1>. QED BY <1>1, RemoteAgrees, PTL

(* What finish_job has recorded in the session that is loaded is in the    *)
(* checkpoint a crash of the agent would leave.                            *)
THEOREM LoadedIsKept == NoWindows => (Spec => []LoadedIsCheckpointed)
  <1>1. RemoteInv => LoadedIsCheckpointed
    BY DEF RemoteInv, LoadedIsCheckpointed, DiskAgrees
  <1>. QED BY <1>1, RemoteAgrees, PTL

(* A job that finish_job, a resume or an automatic resume passes ended     *)
(* well or was passed by the operator: no fault earns a pass.              *)
THEOREM PassesAreEarned == NoWindows => (Spec => []PassIsEarned)
  <1>1. RemoteInv => PassIsEarned BY DEF RemoteInv, PassesEarned
  <1>. QED BY <1>1, RemoteAgrees, PTL

(* Only a reported session, or a fault, ends the session that is kept.     *)
LEMMA SessionStays ==
  ASSUME RemoteInv, Next
  PROVE  disk.found /\ ~disk'.found => pc' = "done" \/ faults' # faults
  <1>. USE DEF RemoteInv, TypeOK, rsaVars, vars
  <1>1. CASE Connecting
    <2>1. CASE Restart
      BY <2>1
         DEF Restart, finalize_session, Resumable, StatesAgree, CallsAgree, Rpc, Fails
    <2>2. CASE ~Restart
      BY <1>1, <2>2
         DEF Connecting, Connect, whats_up, Rollback, Rejoin, PeekList, PeekResume,
             PeekSelect, PeekBootstrap, PeekAbandon,
             automatically_resume_last_session, resume_by_id, resume_session, finish_job,
             sa_use_job_result, Rpc, Fails
    <2>. QED BY <2>1, <2>2
  <1>2. CASE Starting
    <2>1. CASE \/ FinishBootstrapJob \/ finish_bootstrap
               \/ \E answer \in {"pass", "fail", "skip", "none"} : _resume_session(answer)
      BY <2>1
         DEF FinishBootstrapJob, finish_bootstrap, _resume_session, resume_by_id,
             finish_job, sa_use_job_result, Rpc, Fails
    <2>2. CASE \/ start_session \/ ChooseTestPlan \/ ChooseResume
               \/ MenuResume \/ MenuSelect \/ MenuBootstrap
               \/ prepare_bootstrapping \/ get_bootstrapping_todo_list
               \/ run_bootstrapping_job \/ finish_job_selection
      BY <2>2
         DEF start_session, ChooseTestPlan, ChooseResume, MenuResume, resume_session,
             MenuSelect, MenuBootstrap, prepare_bootstrapping, get_bootstrapping_todo_list,
             run_bootstrapping_job, finish_job_selection, Rpc, Fails
    <2>. QED BY <1>2, <2>1, <2>2 DEF Starting
  <1>3. CASE Running
    BY <1>3
       DEF Running, get_session_progress, note_metadata_starting_job, run_job,
           RunCommand, remember_users_response, RunJobGoesOn, wait_for_job, Verdict,
           ReRunJob, FinishVerified, FinishSkipped, SkipRefused, rerun_job,
           prepare_rerun_candidates, NoRerun, finish_session, finish_job,
           sa_use_job_result, Rpc, Fails
  <1>4. CASE Executor BY <1>4 DEF Executor, ReplacedEnds, ExecutorEnds
  <1>5. CASE Faults
    BY <1>5 DEF Faults, Lose, Quit, Abandon, KillCommand, AgentCrash, Fault
  <1>6. CASE Finished BY <1>6 DEF Finished
  <1>. QED BY <1>1, <1>2, <1>3, <1>4, <1>5, <1>6 DEF Next, Controller

(* A resumable session is lost only when it is reported, in finish_session, *)
(* or when a fault makes the controller abandon it: neither a reconnection  *)
(* nor the look at the menu (peeking) ends one.                             *)
THEOREM SessionsKept == NoWindows => (Spec => SessionKept)
  <1>. SUFFICES ASSUME NoWindows PROVE Spec => SessionKept OBVIOUS
  <1>1. RemoteInv /\ [Next]_vars =>
         [disk.found /\ ~disk'.found => pc' = "done" \/ faults' # faults]_vars
    BY SessionStays
  <1>. QED BY <1>1, RemoteAgrees, PTL DEF Spec, SessionKept

=============================================================================
