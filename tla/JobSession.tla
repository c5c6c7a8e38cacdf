----------------------------- MODULE JobSession -----------------------------
(***************************************************************************)
(* The job state of one testing session: what plainbox keeps per job       *)
(* (outcome, readiness inhibitors, attempts left), how a result changes    *)
(* it, and how a job is rearmed to be run again.                           *)
(*                                                                         *)
(*   session/state.py      SessionState                                    *)
(*   session/jobs.py       JobState                                        *)
(*   ctrl.py               CheckBoxSessionStateController                  *)
(*   session/assistant.py  SessionAssistant.run_job, use_job_result,       *)
(*                         get_rerun_candidates, prepare_rerun_candidates  *)
(*                                                                         *)
(* Job ids are natural numbers, because the code sorts them.  A plan is    *)
(* what the loaded units say: the dependency fields of each job and the    *)
(* flags this part of the code looks at.                                   *)
(***************************************************************************)
EXTENDS Integers, FiniteSets, Sequences, SequencesExt

CONSTANTS
  Jobs,            \* ids of the jobs known to the session
  Plans,           \* the test plans a session may be started with
  Configs,         \* the launcher configurations: [remote, interactive, autoRetry]
  MaxAttempts,     \* ui.max_attempts
  Overdraft        \* bound: "attempts" is not counted below -Overdraft

Relations == [Jobs -> SUBSET Jobs]

(* depends, after, salvages, requires: the job's fields of these names;    *)
(* resource: jobs of that plugin kind; manual: jobs that wait for the user *)
(* (manual, user-interact, user-interact-verify); verify: jobs whose       *)
(* command decides nothing, since the runner leaves their outcome open     *)
(* (manual, user-interact-verify, user-verify); failOnResource: jobs with  *)
(* that flag; noRetry: jobs whose auto-retry is "no" in the plan;          *)
(* bootstrap, include: what the two qualifiers of the test plan select.    *)
PlanType ==
  [depends : Relations, after : Relations, salvages : Relations,
   requires : Relations,
   resource : SUBSET Jobs, manual : SUBSET Jobs, verify : SUBSET Jobs,
   failOnResource : SUBSET Jobs, noRetry : SUBSET Jobs, bootstrap : SUBSET Jobs,
   include : SUBSET Jobs]

(* "requires" names resource jobs.                                         *)
WellFormed(p) ==
  p \in PlanType /\ \A j \in Jobs : p.requires[j] \subseteq p.resource

ConfigType == [remote : BOOLEAN, interactive : BOOLEAN, autoRetry : BOOLEAN]

ASSUME JobsAssumption == Jobs \subseteq Nat \ {0} /\ IsFiniteSet(Jobs)
ASSUME PlansAssumption ==
  /\ \A p \in Plans : WellFormed(p)
  /\ Configs \subseteq ConfigType
ASSUME AttemptsAssumption ==
  MaxAttempts \in Nat \ {0} /\ Overdraft \in Nat \ {0}

NoJob == 0

(* IJobResult.OUTCOME_*: "none" is the outcome of a hollow result.         *)
Outcomes ==
  {"none", "pass", "fail", "crash", "skip", "not-supported", "undecided"}

(* InhibitionCause; UNDESIRED names no job.                                *)
Causes == {"PENDING_DEP", "FAILED_DEP", "PENDING_RESOURCE",
           "FAILED_RESOURCE", "NOT_FAILED_DEP"}
Undesired == <<"UNDESIRED", NoJob>>
Inhibitors == (Causes \X Jobs) \cup {Undesired}

(* JobState.attempts before anyone sets it.                                *)
DefaultAttempts == 3

VARIABLES
  plan,         \* the units of the session; never changes
  config,       \* the launcher configuration; never changes
  run_list,     \* SessionState.run_list
  outcome,      \* job_state_map[j].result.outcome
  inhibitors,   \* job_state_map[j].readiness_inhibitor_list, as a set
  attempts,     \* job_state_map[j].attempts
  resource_map, \* does the stored resource of a resource job match?
  pending,      \* between run_job and use_job_result: the job and its builder
  runs,         \* history: how often the job's command was executed
  verdict       \* history: what the last execution of the command ended in

sessionVars == <<plan, config, run_list, outcome, inhibitors, attempts,
                 resource_map, pending, runs, verdict>>

(* A result whose outcome is still open is "undecided": the command runs.  *)
NoRun == [job |-> NoJob, outcome |-> "none"]
Pending == [job : Jobs, outcome : Outcomes] \cup {NoRun}

SessionTypeOK ==
  /\ WellFormed(plan)
  /\ config \in ConfigType
  /\ run_list \in Seq(Jobs)
  /\ outcome \in [Jobs -> Outcomes]
  /\ inhibitors \in [Jobs -> SUBSET Inhibitors]
  /\ attempts \in [Jobs -> Int]
  /\ resource_map \in [Jobs -> {"absent", "match", "nomatch"}]
  /\ pending \in Pending
  /\ runs \in [Jobs -> Nat]
  /\ verdict \in [Jobs -> Outcomes]

-----------------------------------------------------------------------------
(* Lists of jobs.                                                          *)

(* The lists that hold each job of S once, in an order Precedes allows.    *)
Orderings(S, Precedes(_, _)) ==
  {s \in SetToSeqs(S) :
     ToSet(s) = S /\ \A i, k \in DOMAIN s : i < k => ~Precedes(s[k], s[i])}

IndexOf(s, x) == CHOOSE i \in DOMAIN s : s[i] = x

-----------------------------------------------------------------------------
(* Selection: the run list is a dependency-ordered list of the desired     *)
(* jobs and everything they need.  "salvages" takes no part in it.         *)

get_dependency_set(j) == plan.depends[j] \cup plan.requires[j] \cup plan.after[j]

Closure(S) ==
  {j \in Jobs : \A T \in SUBSET Jobs :
      (S \subseteq T /\ \A t \in T : get_dependency_set(t) \subseteq T) => j \in T}

RunLists(S) ==
  Orderings(Closure(S), LAMBDA a, b : a \in get_dependency_set(b))

-----------------------------------------------------------------------------
(* Readiness.                                                              *)

(* Mutant: a false expression is reported without its resource job.        *)
ResourceInhibitorsUnnamed(j, out, res) ==
  IF \E r \in plan.requires[j] : res[r] = "nomatch"
    THEN {<<"FAILED_RESOURCE", NoJob>>}
    ELSE {<<"PENDING_RESOURCE", r>> : r \in {s \in plan.requires[j] : res[s] = "absent"}}

(* A resource program: first every resource it names must be there, then   *)
(* the first expression that is false is reported.                         *)
ResourceInhibitors(j, out, res) ==
  LET missing == {r \in plan.requires[j] : res[r] = "absent"}
      failed  == {r \in plan.requires[j] : res[r] = "nomatch"}
  IN IF missing # {}
       THEN {<<"PENDING_RESOURCE", r>> : r \in {s \in {Min(missing)} : out[s] # "pass"}}
       ELSE {<<"FAILED_RESOURCE", r>> : r \in {s \in failed : s = Min(failed)}}

(* Mutant: a dependency counts as failed only when its outcome is "fail".  *)
get_inhibitor_list_of_failures(j, out, res) ==
  ResourceInhibitors(j, out, res)
  \cup {<<"PENDING_DEP", d>> : d \in {e \in plan.depends[j] \cup plan.after[j] : out[e] = "none"}}
  \cup {<<"FAILED_DEP", d>> : d \in {e \in plan.depends[j] : out[e] = "fail"}}
  \cup {<<"NOT_FAILED_DEP", d>> : d \in {e \in plan.salvages[j] : out[e] # "fail"}}

get_inhibitor_list(j, out, res) ==
  ResourceInhibitors(j, out, res)
  \cup {<<"PENDING_DEP", d>> : d \in {e \in plan.depends[j] \cup plan.after[j] : out[e] = "none"}}
  \cup {<<"FAILED_DEP", d>> : d \in {e \in plan.depends[j] : out[e] \notin {"none", "pass"}}}
  \cup {<<"NOT_FAILED_DEP", d>> : d \in {e \in plan.salvages[j] : out[e] # "fail"}}

recompute_job_readiness(list, out, res) ==
  [j \in Jobs |-> IF j \in ToSet(list) THEN get_inhibitor_list(j, out, res) ELSE {Undesired}]

(* Mutant: off by one.                                                     *)
can_start_once_more(j) == inhibitors[j] = {} /\ attempts[j] >= 0

can_start(j) == inhibitors[j] = {} /\ attempts[j] > 0

-----------------------------------------------------------------------------
(* Running a job and feeding its result back.                              *)

(* The outcome run_job gives a job that cannot start.                      *)
CannotStartOutcome(j) ==
  IF j \in plan.failOnResource /\ \E r \in Jobs : <<"FAILED_RESOURCE", r>> \in inhibitors[j]
    THEN "fail"
    ELSE IF \E d \in Jobs : <<"FAILED_DEP", d>> \in inhibitors[j] /\ outcome[d] = "skip"
      THEN "skip"
      ELSE "not-supported"

run_job(j) ==
  /\ pending = NoRun
  /\ IF can_start(j)
       THEN /\ pending' = [job |-> j, outcome |-> "undecided"]
            /\ runs' = [runs EXCEPT ![j] = @ + 1]
       ELSE /\ pending' = [job |-> j, outcome |-> CannotStartOutcome(j)]
            /\ UNCHANGED runs
  /\ UNCHANGED <<plan, config, run_list, outcome, inhibitors, attempts,
                 resource_map, verdict>>

(* update_job_result: store the result, replace the resources of a         *)
(* resource job, recompute every job's readiness.                          *)
update_job_result(j, o, records) ==
  /\ outcome' = [outcome EXCEPT ![j] = o]
  /\ resource_map' = IF j \in plan.resource
                       THEN [resource_map EXCEPT ![j] = records]
                       ELSE resource_map
  /\ inhibitors' = recompute_job_readiness(run_list, outcome', resource_map')

SpendAttempt(j) ==
  attempts' = IF config.autoRetry /\ attempts[j] > -Overdraft
                THEN [attempts EXCEPT ![j] = @ - 1]
                ELSE attempts

use_job_result(j, o, records) ==
  /\ update_job_result(j, o, records)
  /\ SpendAttempt(j)
  /\ pending' = NoRun
  /\ verdict' = IF pending # NoRun /\ pending.outcome = "undecided"
                  THEN [verdict EXCEPT ![j] = o]
                  ELSE verdict
  /\ UNCHANGED <<plan, config, run_list, runs>>

-----------------------------------------------------------------------------
(* Rearming jobs.                                                          *)

ManualCandidate(j) ==
  outcome[j] \in {"fail", "crash", "skip", "not-supported"}

(* Mutants: attempts are not looked at; only a crash is retried.           *)
AutoCandidateAlways(j) ==
  \/ outcome[j] = "none"
  \/ /\ j \notin plan.noRetry
     /\ \/ /\ outcome[j] = "not-supported"
           /\ \E d \in Jobs : <<"FAILED_DEP", d>> \in inhibitors[j]
        \/ outcome[j] \in {"fail", "crash"}

AutoCandidateCrashed(j) ==
  \/ outcome[j] = "none"
  \/ /\ attempts[j] # 0
     /\ j \notin plan.noRetry
     /\ \/ /\ outcome[j] = "not-supported"
           /\ \E d \in Jobs : <<"FAILED_DEP", d>> \in inhibitors[j]
        \/ outcome[j] = "crash"

(* Mutant: auto-retry=no is not looked at.                                 *)
AutoCandidateAny(j) ==
  \/ outcome[j] = "none"
  \/ /\ attempts[j] # 0
     /\ \/ /\ outcome[j] = "not-supported"
           /\ \E d \in Jobs : <<"FAILED_DEP", d>> \in inhibitors[j]
        \/ outcome[j] \in {"fail", "crash"}

AutoCandidate(j) ==
  \/ outcome[j] = "none"
  \/ /\ attempts[j] # 0
     /\ j \notin plan.noRetry
     /\ \/ /\ outcome[j] = "not-supported"
           /\ \E d \in Jobs : <<"FAILED_DEP", d>> \in inhibitors[j]
        \/ outcome[j] \in {"fail", "crash"}

RerunCandidates(Candidate(_)) == {j \in ToSet(run_list) : Candidate(j)}

InRunListOrder(a, b) == IndexOf(run_list, a) < IndexOf(run_list, b)

(* Mutant: every dependency is rearmed, the passed ones too.               *)
DepsOf(S) == UNION {plan.depends[j] : j \in S}

(* The dependencies the code adds to a list of candidates: those that      *)
(* inhibit one of them (of the readiness computed last).                   *)
FailedDepsOf(S) ==
  {d \in Jobs : \E j \in S : <<"FAILED_DEP", d>> \in inhibitors[j]}

(* Each dependency stands where it is first found, ahead of all other      *)
(* candidates: candidate by candidate, and by id among those of one.       *)
FirstNamedBy(candidates, d) ==
  CHOOSE i \in DOMAIN candidates :
    /\ d \in FailedDepsOf({candidates[i]})
    /\ \A k \in DOMAIN candidates : d \in FailedDepsOf({candidates[k]}) => i <= k

RearmedBefore(candidates, a, b) ==
  LET deps == FailedDepsOf(ToSet(candidates))
      at(d) == FirstNamedBy(candidates, d)
  IN \/ a \in deps /\ b \notin deps
     \/ /\ a \in deps /\ b \in deps
        /\ at(a) < at(b) \/ (at(a) = at(b) /\ a < b)
     \/ /\ a \notin deps /\ b \notin deps
        /\ IndexOf(candidates, a) < IndexOf(candidates, b)

RearmedLists(candidates) ==
  Orderings(ToSet(candidates) \cup FailedDepsOf(ToSet(candidates)),
            LAMBDA a, b : RearmedBefore(candidates, a, b))

(* The results are reset; nothing else is, not even the readiness.         *)
prepare_rerun_candidates(candidates, rearmed) ==
  /\ rearmed \in RearmedLists(candidates)
  /\ outcome' = [j \in Jobs |-> IF j \in ToSet(rearmed) THEN "none" ELSE outcome[j]]
  /\ UNCHANGED <<plan, config, run_list, inhibitors, attempts, resource_map,
                 pending, runs, verdict>>
=============================================================================
