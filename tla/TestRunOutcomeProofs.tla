------------------------- MODULE TestRunOutcomeProofs -------------------------
(***************************************************************************)
(* What a finished TestRun has decided, for every set of plans, launcher   *)
(* configuration, number of attempts and bound: every job of the run list  *)
(* has an outcome, open only where nobody is asked for it; where jobs only depend on one another no failure is     *)
(* hidden by a later refusal; and what the automatic loop leaves alone.    *)
(***************************************************************************)
EXTENDS TestRunProofs

(* An open result is that of a job still to come (the user asked to run it *)
(* again, it was rearmed, or its turn has not come yet), or of one about   *)
(* which nobody is asked.                                                  *)
OpenIsTodo ==
  /\ \A j \in Jobs : outcome[j] = "undecided" => j \in ToSet(todo) \/ Unasked(j)
  /\ phase \notin {"bootstrap", "selecting"} =>
       \A j \in ToSet(run_list) : outcome[j] = "none" => j \in ToSet(todo)

DoneIsIdle == phase = "done" => Idle

PendingIsOpen == pending # NoRun => pending.outcome # "none"

(* A job that waits for the user was started where there is one.           *)
WaitedForUser ==
  pending # NoRun => phase = "bootstrap" \/ Prompts \/ pending.job \notin plan.manual

BootstrapListed == phase = "bootstrap" => ToSet(todo) \subseteq Bootstrapped

Accounted ==
  /\ OpenIsTodo /\ DoneIsIdle /\ PendingIsOpen
  /\ WaitedForUser /\ BootstrapListed

AccountedInv == Inv /\ Accounted

(* Taking a job off the list takes off no other one.                       *)
LEMMA TailKeepsOthers ==
  ASSUME NEW l \in Seq(Jobs), l # <<>>, \A i, k \in DOMAIN l : i # k => l[i] # l[k]
  PROVE  ToSet(l) \ {Head(l)} \subseteq ToSet(Tail(l)) /\ Head(l) \in Jobs /\ Head(l) \in ToSet(l)
  <1>1. ToSet(Tail(l)) = ToSet(l) \ {Head(l)} BY RestOfList DEF IsListing
  <1>2. Head(l) \in Jobs /\ Head(l) \in ToSet(l) BY DEF ToSet
  <1>. QED BY <1>1, <1>2

(* About whom nobody is asked is settled when the session starts.          *)
LEMMA UnaskedConstant ==
  ASSUME plan' = plan, config' = config
  PROVE  /\ Bootstrapped' = Bootstrapped /\ Prompts' = Prompts
         /\ \A j : Unasked(j)' <=> Unasked(j)
  <1>1. Bootstrapped' = Bootstrapped BY PlanConstant
  <1>. QED BY <1>1 DEF Unasked, Prompts

(* A result is fed back: a definite one takes the job off the list, an     *)
(* open one leaves it there, unless nobody is asked about it.              *)
LEMMA UseResultAccounted ==
  ASSUME AccountedInv, todo # <<>>, phase # "selecting", phase' = phase, NEW o, NEW records,
         use_job_result(Head(todo), o, records),
         \/ todo' = Tail(todo) /\ o # "none" /\ (o = "undecided" => Unasked(Head(todo)))
         \/ todo' = todo
  PROVE  Accounted'
  <1>. DEFINE h == Head(todo)
  <1>1. /\ todo \in Seq(Jobs) /\ \A i, k \in DOMAIN todo : i # k => todo[i] # todo[k]
        /\ outcome \in [Jobs -> Outcomes] /\ run_list \in Seq(Jobs)
    BY DEF AccountedInv, Inv, TypeOK, SessionTypeOK, TodoNotPassed
  <1>2. ToSet(todo) \ {h} \subseteq ToSet(Tail(todo)) /\ h \in Jobs /\ h \in ToSet(todo)
    BY <1>1, TailKeepsOthers
  <1>3. outcome' = [outcome EXCEPT ![h] = o] /\ run_list' = run_list /\ pending' = NoRun
        /\ plan' = plan /\ config' = config
    BY DEF use_job_result, update_job_result
  <1>u. Bootstrapped' = Bootstrapped /\ \A j : Unasked(j)' <=> Unasked(j)
    BY <1>3, UnaskedConstant
  <1>4. \A j \in Jobs : outcome'[j] \in {"none", "undecided"} =>
          /\ outcome[j] = outcome'[j] /\ j \in ToSet(todo) =>
               j \in ToSet(todo') \/ (outcome'[j] = "undecided" /\ Unasked(j))
          /\ j = h => j \in ToSet(todo') \/ (outcome'[j] = "undecided" /\ Unasked(j))
    BY <1>1, <1>2, <1>3
  <1>5. \A j \in Jobs : outcome'[j] # outcome[j] => j = h BY <1>1, <1>3
  <1>6. ToSet(run_list) \subseteq Jobs BY <1>1 DEF ToSet
  <1>7. \A j \in Jobs : outcome'[j] = "undecided" => j \in ToSet(todo') \/ Unasked(j)
    BY <1>4, <1>5 DEF AccountedInv, Accounted, OpenIsTodo
  <1>8. phase \notin {"bootstrap", "selecting"} =>
          \A j \in ToSet(run_list) : outcome'[j] = "none" => j \in ToSet(todo')
    BY <1>4, <1>5, <1>6 DEF AccountedInv, Accounted, OpenIsTodo
  <1>9. OpenIsTodo'
    <2>1. ToSet(todo)' = ToSet(todo') /\ ToSet(run_list)' = ToSet(run_list) BY <1>3 DEF ToSet
    <2>. QED BY <1>7, <1>8, <1>u, <2>1 DEF OpenIsTodo
  <1>10. DoneIsIdle' BY DEF AccountedInv, Accounted, DoneIsIdle, Idle
  <1>11. PendingIsOpen' /\ WaitedForUser' BY <1>3 DEF PendingIsOpen, WaitedForUser
  <1>12. BootstrapListed'
    <2>1. ToSet(todo') \subseteq ToSet(todo) BY <1>1, RestOfList DEF IsListing
    <2>2. ToSet(todo)' = ToSet(todo') BY DEF ToSet
    <2>. QED BY <1>u, <2>1, <2>2 DEF AccountedInv, Accounted, BootstrapListed
  <1>. QED BY <1>9, <1>10, <1>11, <1>12 DEF Accounted

(* The outcome a started job leaves is a definite one, unless nobody is    *)
(* asked for it.                                                           *)
LEMMA CompletedDefinite ==
  ASSUME AccountedInv, CompleteJob
  PROVE  \E o \in Outcomes \ {"none"} :
           /\ o = "undecided" => Unasked(Head(todo))
           /\ \E records : use_job_result(Head(todo), o, records)
  <1>1. CASE pending.outcome = "undecided"
    <2>1. PICK o \in EndsIn(Head(todo)), r \in Records(Head(todo)) :
            use_job_result(Head(todo), o, r)
      BY <1>1 DEF CompleteJob
    <2>2. o \in Outcomes \ {"none"} BY DriverAssumption DEF EndsIn, Outcomes
    <2>3. ASSUME o = "undecided" PROVE Unasked(Head(todo))
      <3>1. Head(todo) \in plan.verify /\ ~AskedAbout(Head(todo))
        BY <2>3, DriverAssumption DEF EndsIn
      <3>2. CASE phase = "bootstrap"
        <4>1. Head(todo) \in ToSet(todo)
          BY DEF CompleteJob, AccountedInv, Inv, TypeOK, ToSet
        <4>. QED BY <3>1, <3>2, <4>1 DEF AccountedInv, Accounted, BootstrapListed, Unasked
      <3>3. CASE phase # "bootstrap"
        BY <3>1, <3>3 DEF CompleteJob, AccountedInv, Accounted, WaitedForUser, AskedAbout, Unasked
      <3>. QED BY <3>2, <3>3
    <2>. QED BY <2>1, <2>2, <2>3
  <1>2. CASE pending.outcome # "undecided"
    <2>1. use_job_result(Head(todo), pending.outcome, "nomatch")
      BY <1>2 DEF CompleteJob
    <2>2. pending.outcome \in Outcomes \ {"none", "undecided"}
      BY <1>2 DEF CompleteJob, AccountedInv, Accounted, PendingIsOpen, Inv, SessionInv,
                  SessionTypeOK, Pending
    <2>. QED BY <2>1, <2>2
  <1>. QED BY <1>1, <1>2

(* Nothing is open while the driver is idle in a pass: all that a rerun    *)
(* opens, it lists.                                                        *)
LEMMA RearmAccounted ==
  ASSUME AccountedInv, phase \in {"manual", "auto"}, Idle, phase' = phase, NEW candidates,
         ToSet(candidates) \in SUBSET Jobs, prepare_rerun_candidates(candidates, todo')
  PROVE  Accounted'
  <1>1. todo = <<>> /\ pending = NoRun /\ ToSet(todo) = {} BY DEF Idle, ToSet
  <1>2. outcome' = [j \in Jobs |-> IF j \in ToSet(todo') THEN "none" ELSE outcome[j]]
        /\ run_list' = run_list /\ pending' = pending
        /\ \A j : Unasked(j)' <=> Unasked(j)
    BY UnaskedConstant DEF prepare_rerun_candidates
  <1>3. ToSet(run_list) \subseteq Jobs BY DEF AccountedInv, Inv, TypeOK, SessionTypeOK, ToSet
  <1>4. OpenIsTodo'
    <2>1. ToSet(todo)' = ToSet(todo') /\ ToSet(run_list)' = ToSet(run_list) BY <1>2 DEF ToSet
    <2>2. \A j \in Jobs : outcome'[j] = "undecided" => Unasked(j)
      BY <1>1, <1>2 DEF AccountedInv, Accounted, OpenIsTodo
    <2>3. \A j \in ToSet(run_list) : outcome'[j] = "none" => j \in ToSet(todo')
      BY <1>1, <1>2, <1>3 DEF AccountedInv, Accounted, OpenIsTodo
    <2>. QED BY <1>2, <2>1, <2>2, <2>3 DEF OpenIsTodo
  <1>5. DoneIsIdle' /\ PendingIsOpen' /\ WaitedForUser' /\ BootstrapListed'
    BY <1>1, <1>2 DEF DoneIsIdle, PendingIsOpen, WaitedForUser, BootstrapListed
  <1>. QED BY <1>4, <1>5 DEF Accounted

LEMMA InitAccounted == Init => Accounted
  <1>. SUFFICES ASSUME Init PROVE Accounted OBVIOUS
  <1>1. OpenIsTodo BY DEF Init, OpenIsTodo
  <1>2. DoneIsIdle /\ PendingIsOpen /\ WaitedForUser
    BY DEF Init, DoneIsIdle, PendingIsOpen, WaitedForUser
  <1>3. BootstrapListed BY RunListsType DEF Init, BootstrapListed, Bootstrapped, IsListing
  <1>. QED BY <1>1, <1>2, <1>3 DEF Accounted

LEMMA NextAccounted == AccountedInv /\ [Next]_vars => AccountedInv'
  <1>. SUFFICES ASSUME AccountedInv, [Next]_vars PROVE AccountedInv' OBVIOUS
  <1>0. Inv /\ Inv' BY NextKeeps DEF AccountedInv
  <1>1. ASSUME finish_bootstrap PROVE Accounted'
    <2>1. /\ todo = <<>> /\ ToSet(todo) = {} /\ phase' = "selecting"
          /\ UNCHANGED <<todo, outcome, pending>> /\ pending = NoRun
          /\ \A j : Unasked(j)' <=> Unasked(j)
      BY <1>1, UnaskedConstant DEF finish_bootstrap, Idle, ToSet
    <2>2. OpenIsTodo' BY <2>1 DEF AccountedInv, Accounted, OpenIsTodo, ToSet
    <2>. QED BY <2>1, <2>2 DEF AccountedInv, Accounted, DoneIsIdle, PendingIsOpen, WaitedForUser,
                               BootstrapListed
  <1>2. ASSUME NEW selection \in SUBSET ToSet(run_list), use_alternate_selection(selection)
        PROVE  Accounted'
    <2>1. /\ ToSet(todo) = {} /\ UNCHANGED <<outcome, pending>> /\ phase' = "main"
          /\ pending = NoRun /\ \A j : Unasked(j)' <=> Unasked(j)
      BY <1>0, <1>2, UnaskedConstant
         DEF use_alternate_selection, Inv, SelectingIsIdle, Idle, ToSet
    <2>2. ToSet(run_list') \in SUBSET Jobs
      BY <1>0 DEF Inv, TypeOK, SessionTypeOK, ToSet
    <2>3. ToSet(todo') = {j \in ToSet(run_list') : outcome[j] = "none"}
      BY <1>2, <2>2, TodoListsType DEF use_alternate_selection, IsListing
    <2>4. OpenIsTodo'
      <3>1. ToSet(todo)' = ToSet(todo') /\ ToSet(run_list)' = ToSet(run_list') BY DEF ToSet
      <3>. QED BY <2>1, <2>3, <3>1 DEF AccountedInv, Accounted, OpenIsTodo
    <2>. QED BY <2>1, <2>4 DEF AccountedInv, Accounted, DoneIsIdle, PendingIsOpen, WaitedForUser,
                               BootstrapListed
  <1>3. ASSUME StartJob PROVE Accounted'
    <2>1. UNCHANGED <<phase, todo, outcome, run_list, plan, config>> /\ todo # <<>>
      BY <1>3 DEF StartJob, run_job, driverVars
    <2>u. /\ Bootstrapped' = Bootstrapped /\ Prompts' = Prompts
          /\ \A j : Unasked(j)' <=> Unasked(j)
      BY <2>1, UnaskedConstant
    <2>2. PendingIsOpen'
      <3>1. pending' = [job |-> Head(todo),
                        outcome |-> IF can_start(Head(todo)) THEN "undecided"
                                      ELSE CannotStartOutcome(Head(todo))]
        BY <1>3 DEF StartJob, run_job
      <3>2. CannotStartOutcome(Head(todo)) # "none" BY DEF CannotStartOutcome
      <3>. QED BY <3>1, <3>2 DEF PendingIsOpen
    <2>3. OpenIsTodo' BY <2>1, <2>u DEF AccountedInv, Accounted, OpenIsTodo, ToSet
    <2>4. DoneIsIdle' BY <2>1 DEF AccountedInv, Accounted, DoneIsIdle, Idle
    <2>5. WaitedForUser'
      <3>1. pending'.job = Head(todo) BY <1>3 DEF StartJob, run_job
      <3>. QED BY <1>3, <2>1, <2>u, <3>1 DEF StartJob, WaitedForUser
    <2>6. BootstrapListed' BY <2>1, <2>u DEF AccountedInv, Accounted, BootstrapListed, ToSet
    <2>. QED BY <2>2, <2>3, <2>4, <2>5, <2>6 DEF Accounted
  <1>4. todo # <<>> => phase # "selecting" BY <1>0 DEF Inv, SelectingIsIdle, Idle
  <1>5. ASSUME SkipJob PROVE Accounted' BY <1>4, <1>5, UseResultAccounted DEF SkipJob
  <1>6. ASSUME CompleteJob PROVE Accounted'
    <2>1. PICK o \in Outcomes \ {"none"} :
            /\ o = "undecided" => Unasked(Head(todo))
            /\ \E records : use_job_result(Head(todo), o, records)
      BY <1>6, CompletedDefinite
    <2>. QED BY <1>4, <1>6, <2>1, UseResultAccounted DEF CompleteJob
  <1>7. ASSUME RerunJob PROVE Accounted' BY <1>4, <1>7, UseResultAccounted DEF RerunJob
  <1>8. ASSUME FinishMain \/ FinishManual \/ FinishAuto PROVE Accounted'
    <2>1. /\ Idle /\ phase \notin {"bootstrap", "selecting"}
          /\ UNCHANGED <<todo, outcome, run_list, pending>>
          /\ phase' # "bootstrap" /\ \A j : Unasked(j)' <=> Unasked(j)
      BY <1>8, UnaskedConstant
         DEF FinishMain, FinishManual, FinishAuto, AfterMain, AfterManual
    <2>2. OpenIsTodo' BY <2>1 DEF AccountedInv, Accounted, OpenIsTodo, ToSet
    <2>. QED BY <2>1, <2>2 DEF AccountedInv, Accounted, DoneIsIdle, PendingIsOpen, Idle,
                               WaitedForUser, BootstrapListed
  <1>9. ASSUME maybe_manual_rerun_jobs PROVE Accounted'
    <2>1. PICK wanted \in SUBSET RerunCandidates(ManualCandidate) :
            \E candidates \in ManualCandidateLists(wanted) :
              prepare_rerun_candidates(candidates, todo')
      BY <1>9 DEF maybe_manual_rerun_jobs
    <2>2. PICK candidates \in ManualCandidateLists(wanted) :
            prepare_rerun_candidates(candidates, todo')
      BY <2>1
    <2>3. ToSet(candidates) \in SUBSET Jobs BY <1>0, ManualCandidatesType
    <2>. QED BY <1>9, <2>2, <2>3, RearmAccounted DEF maybe_manual_rerun_jobs
  <1>10. ASSUME maybe_auto_rerun_jobs PROVE Accounted'
    <2>1. PICK candidates \in Orderings(RerunCandidates(AutoCandidate), InRunListOrder) :
            prepare_rerun_candidates(candidates, todo')
      BY <1>10 DEF maybe_auto_rerun_jobs
    <2>2. ToSet(candidates) \in SUBSET Jobs BY <1>0, AutoCandidatesType
    <2>. QED BY <1>10, <2>1, <2>2, RearmAccounted DEF maybe_auto_rerun_jobs
  <1>11. ASSUME Done \/ UNCHANGED vars PROVE Accounted'
    <2>1. UNCHANGED vars BY <1>11 DEF Done
    <2>2. /\ Bootstrapped' = Bootstrapped /\ Prompts' = Prompts
          /\ \A j : Unasked(j)' <=> Unasked(j)
      BY <2>1, UnaskedConstant DEF vars
    <2>3. OpenIsTodo' BY <2>1, <2>2 DEF vars, AccountedInv, Accounted, OpenIsTodo, ToSet
    <2>4. DoneIsIdle' /\ PendingIsOpen'
      BY <2>1 DEF vars, AccountedInv, Accounted, DoneIsIdle, PendingIsOpen, Idle
    <2>5. WaitedForUser' /\ BootstrapListed'
      BY <2>1, <2>2 DEF vars, AccountedInv, Accounted, WaitedForUser, BootstrapListed, ToSet
    <2>. QED BY <2>3, <2>4, <2>5 DEF Accounted
  <1>12. Accounted'
    BY <1>1, <1>2, <1>3, <1>5, <1>6, <1>7, <1>8, <1>9, <1>10, <1>11 DEF Next
  <1>. QED BY <1>0, <1>12 DEF AccountedInv

-----------------------------------------------------------------------------
(* What is open is listed, in every reachable state.                       *)
THEOREM AccountedInvariance == Spec => []AccountedInv
  <1>1. Init => AccountedInv BY InitKeeps, InitAccounted DEF AccountedInv
  <1>. QED BY <1>1, NextAccounted, PTL DEF Spec

(* When the loops are done no selected job was left rearmed, or open after *)
(* the user asked to run it again; an outcome still open is that of a job  *)
(* about which the code asks nobody (subcommands.py, stages.py,            *)
(* controller.py).                                                         *)
THEOREM JobsAccountedFor == Spec => []EveryJobAccountedFor
  <1>1. AccountedInv => EveryJobAccountedFor
    <2>. SUFFICES ASSUME AccountedInv, phase = "done", NEW j \in ToSet(run_list)
                  PROVE  outcome[j] # "none" /\ (outcome[j] = "undecided" => Unasked(j))
      BY DEF EveryJobAccountedFor
    <2>1. ToSet(todo) = {} BY DEF AccountedInv, Accounted, DoneIsIdle, Idle, ToSet
    <2>2. j \in Jobs BY DEF AccountedInv, Inv, TypeOK, SessionTypeOK, ToSet
    <2>. QED BY <2>1, <2>2 DEF AccountedInv, Accounted, OpenIsTodo
  <1>. QED BY <1>1, AccountedInvariance, PTL

-----------------------------------------------------------------------------
(***************************************************************************)
(* A failure is not masked where jobs are related by "depends" alone.      *)
(* With auto-retry no job may have spent attempts in the bootstrap or on   *)
(* an answer of the user's, or what depends on it asks for it once more    *)
(* than it may run.                                                        *)
(***************************************************************************)
DependsOnly ==
  \A j \in Jobs : plan.requires[j] = {} /\ plan.after[j] = {} /\ plan.salvages[j] = {}

PlainRun ==
  /\ DependsOnly
  /\ config.autoRetry => ~ config.interactive /\ plan.manual = {} /\ plan.bootstrap = {}

Early == phase \in {"bootstrap", "selecting"}

BeforeMain ==
  config.autoRetry /\ Early => Idle /\ \A j \in Jobs : outcome[j] = "none" /\ verdict[j] = "none"

ListClosed ==
  /\ \A j \in ToSet(run_list) : plan.depends[j] \subseteq ToSet(run_list)
  /\ ToSet(todo) \subseteq ToSet(run_list)

(* Only a dependency inhibits a job that is selected, and between two      *)
(* passes, when no list is left, each one that failed does.                *)
DepsInhibit ==
  /\ \A j \in Jobs :
       inhibitors[j] \subseteq {Undesired} \cup ({"PENDING_DEP", "FAILED_DEP"} \X plan.depends[j])
  /\ todo = <<>> =>
       \A j \in ToSet(run_list) : \A d \in plan.depends[j] :
         outcome[d] \notin {"none", "pass"} => <<"FAILED_DEP", d>> \in inhibitors[j]

(* A job that has run could run: all it depends on has passed, and while   *)
(* it is selected it is ready to run again.                                *)
RanIsReady ==
  \A j \in Jobs : verdict[j] # "none" =>
    /\ outcome[j] # "not-supported"
    /\ j \in ToSet(run_list) => inhibitors[j] = {}
    /\ \A d \in plan.depends[j] : outcome[d] = "pass"

(* What a command leaves when nobody is asked about it.                    *)
Ran == {"pass", "fail", "crash", "undecided"}

(* What is refused has never run; with auto-retry it is refused because of *)
(* a failed dependency, since nobody skips a job.                          *)
RanOrRefused ==
  /\ pending # NoRun /\ pending.outcome # "undecided" =>
       /\ verdict[pending.job] = "none"
       /\ config.autoRetry => pending.outcome = "not-supported"
  /\ config.autoRetry => \A j \in Jobs :
       /\ outcome[j] \in Ran \cup {"none", "not-supported"}
       /\ outcome[j] \in Ran => verdict[j] = outcome[j]

(* The attempts a job will have left when the pass is over.                *)
Left(j) == attempts[j] - (IF j \in ToSet(todo) THEN 1 ELSE 0)

(* No job of a pass is out of attempts, because a job that did not pass    *)
(* keeps as many as those that depend on it and may ask for it again.      *)
AttemptsLeft ==
  /\ phase = "manual" => ~ config.autoRetry
  /\ ~ config.autoRetry => \A j \in Jobs : attempts[j] > 0
  /\ config.autoRetry => \A j \in Jobs : Left(j) >= 0
  /\ config.autoRetry /\ ~ Early =>
       \A c \in ToSet(run_list) \ plan.noRetry : \A j \in plan.depends[c] :
         outcome[j] # "pass" /\ Left(c) > 0 => Left(j) >= Left(c)

MaskInv ==
  /\ AccountedInv /\ PlainRun /\ BeforeMain /\ ListClosed /\ DepsInhibit
  /\ RanIsReady /\ RanOrRefused /\ AttemptsLeft

-----------------------------------------------------------------------------
LEMMA ClosureClosed ==
  ASSUME NEW S, NEW j \in Closure(S), NEW d \in get_dependency_set(j), d \in Jobs
  PROVE  d \in Closure(S)
  BY DEF Closure

LEMMA ClosureOfNone == Closure({}) = {}
  <1>1. ASSUME NEW j \in Closure({}) PROVE FALSE
    <2>1. {} \in SUBSET Jobs /\ \A t \in {} : get_dependency_set(t) \subseteq {} OBVIOUS
    <2>. QED BY <1>1, <2>1 DEF Closure
  <1>. QED BY <1>1

(* Readiness, in a plan of this kind.                                      *)
LEMMA PlainReadiness ==
  ASSUME DependsOnly, WellFormed(plan), NEW list, ToSet(list) \subseteq Jobs, NEW out, NEW res
  PROVE  LET inh == recompute_job_readiness(list, out, res) IN
         /\ \A j \in Jobs :
              inh[j] \subseteq {Undesired} \cup ({"PENDING_DEP", "FAILED_DEP"} \X plan.depends[j])
         /\ \A j \in ToSet(list) : \A d \in plan.depends[j] :
              out[d] \notin {"none", "pass"} => <<"FAILED_DEP", d>> \in inh[j]
         /\ \A j \in ToSet(list) : (\A d \in plan.depends[j] : out[d] = "pass") => inh[j] = {}
  <1>. DEFINE inh == recompute_job_readiness(list, out, res)
              waiting(j) == {<<"PENDING_DEP", d>> : d \in {e \in plan.depends[j] : out[e] = "none"}}
              failing(j) == {<<"FAILED_DEP", d>> :
                               d \in {e \in plan.depends[j] : out[e] \notin {"none", "pass"}}}
  <1>1. \A j \in Jobs : get_inhibitor_list(j, out, res) = waiting(j) \cup failing(j)
    <2>. SUFFICES ASSUME NEW j \in Jobs
                  PROVE  get_inhibitor_list(j, out, res) = waiting(j) \cup failing(j)
      OBVIOUS
    <2>1. plan.requires[j] = {} /\ plan.after[j] = {} /\ plan.salvages[j] = {}
      BY DEF DependsOnly
    <2>2. ResourceInhibitors(j, out, res) = {} BY <2>1 DEF ResourceInhibitors
    <2>3. plan.depends[j] \cup plan.after[j] = plan.depends[j] BY <2>1
    <2>4. {<<"NOT_FAILED_DEP", d>> : d \in {e \in plan.salvages[j] : out[e] # "fail"}} = {}
      BY <2>1
    <2>. QED BY <2>2, <2>3, <2>4 DEF get_inhibitor_list
  <1>2. \A j \in Jobs : inh[j] = IF j \in ToSet(list) THEN waiting(j) \cup failing(j)
                                                      ELSE {Undesired}
    BY <1>1 DEF recompute_job_readiness
  <1>. HIDE DEF inh
  <1>3. \A j \in Jobs :
          inh[j] \subseteq {Undesired} \cup ({"PENDING_DEP", "FAILED_DEP"} \X plan.depends[j])
    <2>. SUFFICES ASSUME NEW j \in Jobs, NEW i \in inh[j], i # Undesired
                  PROVE  i \in {"PENDING_DEP", "FAILED_DEP"} \X plan.depends[j]
      OBVIOUS
    <2>1. i \in waiting(j) \/ i \in failing(j) BY <1>2
    <2>2. CASE i \in waiting(j)
      <3>1. PICK d \in plan.depends[j] : i = <<"PENDING_DEP", d>> BY <2>2
      <3>. QED BY <3>1
    <2>3. CASE i \in failing(j)
      <3>1. PICK d \in plan.depends[j] : i = <<"FAILED_DEP", d>> BY <2>3
      <3>. QED BY <3>1
    <2>. QED BY <2>1, <2>2, <2>3
  <1>4. \A j \in ToSet(list) : \A d \in plan.depends[j] :
          out[d] \notin {"none", "pass"} => <<"FAILED_DEP", d>> \in inh[j]
    BY <1>2
  <1>5. \A j \in ToSet(list) : (\A d \in plan.depends[j] : out[d] = "pass") => inh[j] = {}
    BY <1>2
  <1>. QED BY <1>3, <1>4, <1>5 DEF inh

LEMMA InitMasks == Init /\ PlainRun => MaskInv
  <1>. SUFFICES ASSUME Init, PlainRun PROVE MaskInv OBVIOUS
  <1>1. AccountedInv BY InitKeeps, InitAccounted DEF AccountedInv
  <1>2. WellFormed(plan) BY <1>1 DEF AccountedInv, Inv, TypeOK, SessionTypeOK
  <1>3. IsListing(Closure(plan.bootstrap), run_list) BY RunListsType DEF Init
  <1>4. ToSet(run_list) = Closure(plan.bootstrap) /\ ToSet(run_list) \subseteq Jobs
    BY <1>3, ClosureType DEF IsListing
  <1>5. config.autoRetry => todo = <<>> /\ ToSet(todo) = {}
    <2>. SUFFICES ASSUME config.autoRetry PROVE run_list = <<>> BY DEF Init, ToSet
    <2>1. ToSet(run_list) = {} BY <1>4, ClosureOfNone DEF PlainRun
    <2>2. run_list \in Seq(Jobs) /\ (run_list # <<>> => run_list[1] \in ToSet(run_list))
      BY <1>3 DEF IsListing, ToSet
    <2>. QED BY <2>1, <2>2
  <1>6. BeforeMain BY <1>5 DEF BeforeMain, Init, Idle
  <1>7. ListClosed
    <2>1. ASSUME NEW j \in ToSet(run_list), NEW d \in plan.depends[j]
          PROVE  d \in ToSet(run_list)
      BY <1>2, <1>4, PlanRelations, ClosureClosed DEF get_dependency_set
    <2>. QED BY <2>1 DEF ListClosed, Init
  <1>8. DepsInhibit BY <1>2, <1>4, PlainReadiness DEF Init, DepsInhibit, PlainRun
  <1>9. RanIsReady /\ RanOrRefused BY DEF Init, RanIsReady, RanOrRefused
  <1>10. AttemptsLeft
    <2>1. \A j \in Jobs : attempts[j] = 3 BY DEF Init, DefaultAttempts
    <2>2. config.autoRetry => \A j \in Jobs : Left(j) = 3 BY <1>5, <2>1 DEF Left
    <2>. QED BY <2>1, <2>2 DEF Init, AttemptsLeft, Early
  <1>. QED BY <1>1, <1>6, <1>9, <1>10, <1>7, <1>8 DEF MaskInv

(* A selection is closed; what has run before it is made can run again.    *)
LEMMA SelectMasks ==
  ASSUME MaskInv, AccountedInv', Early, pending = NoRun, NEW desired,
         update_desired_job_list(desired), ToSet(todo') \subseteq ToSet(run_list'),
         UNCHANGED <<plan, config, outcome, resource_map, pending, verdict>>
  PROVE  PlainRun' /\ ListClosed' /\ DepsInhibit' /\ RanIsReady' /\ RanOrRefused'
         /\ IsListing(Closure(desired), run_list')
  <1>0. PlainRun /\ WellFormed(plan) BY DEF MaskInv, AccountedInv, Inv, TypeOK, SessionTypeOK
  <1>1. PlainRun' BY <1>0 DEF PlainRun, DependsOnly
  <1>2. IsListing(Closure(desired), run_list')
    BY RunListsType DEF update_desired_job_list
  <1>3. ToSet(run_list') = Closure(desired) /\ ToSet(run_list') \subseteq Jobs
    BY <1>2, ClosureType DEF IsListing
  <1>4. ListClosed'
    <2>1. ASSUME NEW j \in ToSet(run_list'), NEW d \in plan.depends[j]
          PROVE  d \in ToSet(run_list')
      <3>1. d \in get_dependency_set(j) /\ d \in Jobs
        BY <1>0, <1>3, PlanRelations DEF get_dependency_set
      <3>. QED BY <1>3, <3>1, ClosureClosed
    <2>. QED BY <2>1 DEF ListClosed, ToSet
  <1>5. /\ \A j \in Jobs : inhibitors'[j]
                \subseteq {Undesired} \cup ({"PENDING_DEP", "FAILED_DEP"} \X plan.depends[j])
        /\ \A j \in ToSet(run_list') : \A d \in plan.depends[j] :
             outcome[d] \notin {"none", "pass"} => <<"FAILED_DEP", d>> \in inhibitors'[j]
        /\ \A j \in ToSet(run_list') :
             (\A d \in plan.depends[j] : outcome[d] = "pass") => inhibitors'[j] = {}
    BY <1>0, <1>3, PlainReadiness DEF update_desired_job_list, PlainRun
  <1>6. DepsInhibit' BY <1>5 DEF DepsInhibit, ToSet
  <1>7. RanIsReady' BY <1>5 DEF RanIsReady, MaskInv, ToSet
  <1>8. RanOrRefused' BY DEF RanOrRefused, MaskInv
  <1>. QED BY <1>1, <1>2, <1>4, <1>6, <1>7, <1>8

LEMMA FinishBootstrapMasks ==
  ASSUME MaskInv, AccountedInv', finish_bootstrap
  PROVE  MaskInv'
  <1>1. Early /\ phase' = "selecting" BY DEF finish_bootstrap, Early
  <1>2. PlainRun' /\ ListClosed' /\ DepsInhibit' /\ RanIsReady' /\ RanOrRefused'
    <2>1. ToSet(todo') \subseteq ToSet(run_list') /\ pending = NoRun
      BY DEF finish_bootstrap, Idle, ToSet
    <2>. QED BY <1>1, <2>1, SelectMasks DEF finish_bootstrap
  <1>3. BeforeMain' BY <1>1 DEF MaskInv, BeforeMain, finish_bootstrap, Idle
  <1>4. AttemptsLeft'
    <2>1. todo = <<>> /\ todo' = todo /\ ToSet(todo) = {} BY DEF finish_bootstrap, Idle, ToSet
    <2>2. /\ config.autoRetry \/ \A j \in Jobs : attempts[j] > 0
          /\ config.autoRetry => \A j \in Jobs : attempts[j] >= 0
          /\ attempts \in [Jobs -> Int]
      BY <2>1 DEF MaskInv, AttemptsLeft, Left, AccountedInv, Inv, TypeOK, SessionTypeOK
    <2>3. /\ config.autoRetry \/ \A j \in Jobs : attempts'[j] > 0
          /\ config.autoRetry => \A j \in Jobs : attempts'[j] >= 0 /\ attempts'[j] \in Int
      BY <2>2, AttemptsAssumption DEF finish_bootstrap
    <2>4. \A j \in Jobs : Left(j)' = attempts'[j] - 0 BY <2>1 DEF Left
    <2>5. config.autoRetry => \A j \in Jobs : Left(j)' >= 0 BY <2>3, <2>4
    <2>. QED BY <1>1, <2>3, <2>5 DEF AttemptsLeft, Early, finish_bootstrap
  <1>. QED BY <1>2, <1>3, <1>4 DEF MaskInv

(* Every job of the main pass starts with all its attempts.                *)
LEMMA SelectionMasks ==
  ASSUME MaskInv, AccountedInv', NEW selection \in SUBSET ToSet(run_list),
         use_alternate_selection(selection)
  PROVE  MaskInv'
  <1>1. Early /\ phase' = "main" /\ UNCHANGED <<plan, config, outcome>>
    BY DEF use_alternate_selection, Early
  <1>2. /\ PlainRun' /\ ListClosed' /\ DepsInhibit' /\ RanIsReady' /\ RanOrRefused'
        /\ IsListing(Closure(selection), run_list')
    <2>1. pending = NoRun
      BY DEF use_alternate_selection, MaskInv, AccountedInv, Inv, SelectingIsIdle, Idle
    <2>2. ToSet(run_list') \in SUBSET Jobs
      BY DEF AccountedInv, Inv, TypeOK, SessionTypeOK, ToSet
    <2>3. ToSet(todo') \subseteq ToSet(run_list')
      BY <2>2, TodoListsType DEF use_alternate_selection, IsListing
    <2>. QED BY <1>1, <2>1, <2>3, SelectMasks DEF use_alternate_selection
  <1>3. BeforeMain' BY <1>1 DEF BeforeMain, Early
  <1>4. AttemptsLeft'
    <2>1. CASE ~ config.autoRetry
      <3>1. \A j \in Jobs : attempts'[j] > 0
        BY <2>1, AttemptsAssumption DEF MaskInv, AttemptsLeft, use_alternate_selection
      <3>. QED BY <1>1, <2>1, <3>1 DEF AttemptsLeft
    <2>2. CASE config.autoRetry
      <3>1. /\ ToSet(run_list) = Closure(plan.include)
            /\ config.remote => \A j \in ToSet(run_list) : attempts[j] = MaxAttempts
        BY <2>2 DEF MaskInv, AccountedInv, Inv, SpentWithinBudget, use_alternate_selection
      <3>2. ToSet(run_list') \subseteq ToSet(run_list) /\ ToSet(run_list') \subseteq Jobs
        BY <1>2, <3>1, ClosureIdempotent, ClosureType DEF IsListing
      <3>3. ToSet(todo') = ToSet(run_list')
        <4>1. IsListing({j \in ToSet(run_list') : outcome[j] = "none"}, todo')
          BY <3>2, TodoListsType DEF use_alternate_selection
        <4>. QED BY <1>1, <2>2, <3>2, <4>1 DEF MaskInv, BeforeMain, IsListing
      <3>4. \A j \in ToSet(run_list') : attempts'[j] = MaxAttempts
        BY <3>1, <3>2, <3>3 DEF use_alternate_selection
      <3>5. \A j \in Jobs : attempts'[j] >= 0 /\ attempts'[j] \in Int
        <4>1. todo = <<>> /\ ToSet(todo) = {}
          BY DEF use_alternate_selection, MaskInv, AccountedInv, Inv, SelectingIsIdle, Idle, ToSet
        <4>2. \A j \in Jobs : attempts[j] >= 0 /\ attempts[j] \in Int
          BY <2>2, <4>1 DEF MaskInv, AttemptsLeft, Left, AccountedInv, Inv, TypeOK, SessionTypeOK
        <4>. QED BY <4>2, AttemptsAssumption DEF use_alternate_selection
      <3>6. \A j \in Jobs : Left(j)' = attempts'[j] - (IF j \in ToSet(run_list') THEN 1 ELSE 0)
        BY <3>3 DEF Left, ToSet
      <3>7. \A j \in Jobs : Left(j)' >= 0
        BY <3>4, <3>5, <3>6, AttemptsAssumption
      <3>8. ASSUME NEW c \in ToSet(run_list'), NEW j \in plan.depends[c]
            PROVE  Left(j)' = Left(c)'
        <4>1. j \in ToSet(run_list') BY <1>1, <1>2 DEF ListClosed, ToSet
        <4>. QED BY <3>2, <3>4, <3>6, <4>1
      <3>9. \A j \in Jobs : Left(j)' \in Int BY <3>5, <3>6
      <3>10. \A c \in ToSet(run_list') : \A j \in plan.depends[c] : Left(j)' >= Left(c)'
        BY <1>2, <3>2, <3>8, <3>9
      <3>. QED BY <1>1, <2>2, <3>7, <3>10 DEF AttemptsLeft, ToSet
    <2>. QED BY <2>1, <2>2
  <1>. QED BY <1>2, <1>3, <1>4 DEF MaskInv

(* A job of the list has an attempt to spend.                              *)
LEMMA ListedMayRun ==
  ASSUME MaskInv, NEW j \in ToSet(todo), j \in Jobs
  PROVE  attempts[j] \in Int /\ attempts[j] > 0
  <1>1. attempts[j] \in Int BY DEF MaskInv, AccountedInv, Inv, TypeOK, SessionTypeOK
  <1>2. CASE ~ config.autoRetry BY <1>1, <1>2 DEF MaskInv, AttemptsLeft
  <1>3. CASE config.autoRetry
    <2>1. Left(j) >= 0 /\ Left(j) = attempts[j] - 1 BY <1>3 DEF MaskInv, AttemptsLeft, Left
    <2>. QED BY <1>1, <2>1
  <1>. QED BY <1>2, <1>3

(* What cannot start has a dependency that failed, and has never run.      *)
LEMMA StartJobMasks ==
  ASSUME MaskInv, AccountedInv', StartJob
  PROVE  MaskInv'
  <1>. DEFINE h == Head(todo)
  <1>1. /\ ~ (config.autoRetry /\ Early) /\ h \in Jobs /\ h \in ToSet(todo)
        /\ UNCHANGED <<phase, todo, plan, config, run_list, outcome, inhibitors, attempts, verdict>>
    BY DEF StartJob, driverVars, run_job, MaskInv, BeforeMain, Idle, AccountedInv, Inv, TypeOK,
           ToSet
  <1>2. pending' = [job |-> h, outcome |-> IF can_start(h) THEN "undecided"
                                                          ELSE CannotStartOutcome(h)]
    BY DEF StartJob, run_job
  <1>. HIDE DEF h
  <1>3. config.autoRetry => CannotStartOutcome(h) = "not-supported"
    <2>1. \A r \in Jobs : <<"FAILED_RESOURCE", r>> \notin inhibitors[h]
      BY <1>1 DEF MaskInv, DepsInhibit, Undesired
    <2>2. config.autoRetry => \A d \in Jobs : outcome[d] # "skip"
      BY DEF MaskInv, RanOrRefused, Ran
    <2>. QED BY <2>1, <2>2 DEF CannotStartOutcome
  <1>4. ~ can_start(h) => verdict[h] = "none"
    <2>1. h \in ToSet(run_list) BY <1>1 DEF MaskInv, ListClosed
    <2>. QED BY <1>1, <2>1, ListedMayRun DEF can_start, MaskInv, RanIsReady
  <1>5. RanOrRefused'
    <2>1. pending'.outcome # "undecided" =>
            /\ verdict[pending'.job] = "none"
            /\ config.autoRetry => pending'.outcome = "not-supported"
      BY <1>2, <1>3, <1>4
    <2>2. config.autoRetry => \A j \in Jobs :
            /\ outcome[j] \in Ran \cup {"none", "not-supported"}
            /\ outcome[j] \in Ran => verdict[j] = outcome[j]
      BY DEF MaskInv, RanOrRefused
    <2>. QED BY <1>1, <2>1, <2>2 DEF RanOrRefused
  <1>6. PlainRun' /\ BeforeMain' BY <1>1 DEF MaskInv, PlainRun, DependsOnly, BeforeMain, Early
  <1>7. ListClosed' /\ DepsInhibit' BY <1>1 DEF MaskInv, ListClosed, DepsInhibit, ToSet
  <1>8. RanIsReady' BY <1>1 DEF MaskInv, RanIsReady, ToSet
  <1>9. AttemptsLeft' BY <1>1 DEF MaskInv, AttemptsLeft, Early, Left, ToSet
  <1>. QED BY <1>5, <1>6, <1>7, <1>8, <1>9 DEF MaskInv

(* The list gets shorter by a job that spends an attempt: nobody's         *)
(* attempts for the passes to come change.                                 *)
LEMMA SpendingMasks ==
  ASSUME MaskInv, todo # <<>>, SpendAttempt(Head(todo)),
         config.autoRetry => todo' = Tail(todo),
         NEW o, outcome' = [outcome EXCEPT ![Head(todo)] = o],
         UNCHANGED <<plan, config, run_list, phase>>
  PROVE  AttemptsLeft'
  <1>. DEFINE h == Head(todo)
  <1>1. /\ attempts \in [Jobs -> Int] /\ outcome \in [Jobs -> Outcomes]
        /\ h \in Jobs /\ h \in ToSet(todo) /\ ToSet(Tail(todo)) = ToSet(todo) \ {h}
        /\ outcome[h] # "pass" /\ ToSet(run_list) \subseteq Jobs /\ WellFormed(plan)
    <2>1. /\ todo \in Seq(Jobs) /\ \A i, k \in DOMAIN todo : i # k => todo[i] # todo[k]
          /\ \A i \in DOMAIN todo : outcome[todo[i]] # "pass"
          /\ run_list \in Seq(Jobs)
      BY DEF MaskInv, AccountedInv, Inv, TypeOK, SessionTypeOK, TodoNotPassed
    <2>2. h = todo[1] /\ 1 \in DOMAIN todo BY <2>1
    <2>3. ToSet(Tail(todo)) = ToSet(todo) \ {h} /\ h \in Jobs
      BY <2>1, RestOfList DEF IsListing
    <2>4. h \in ToSet(todo) /\ ToSet(run_list) \subseteq Jobs BY <2>1, <2>2 DEF ToSet
    <2>. QED BY <2>1, <2>2, <2>3, <2>4
             DEF MaskInv, AccountedInv, Inv, TypeOK, SessionTypeOK
  <1>2. attempts[h] > 0 BY <1>1, ListedMayRun
  <1>3. attempts' = IF config.autoRetry THEN [attempts EXCEPT ![h] = @ - 1] ELSE attempts
    BY <1>1, <1>2, AttemptsAssumption DEF SpendAttempt
  <1>. HIDE DEF h
  <1>4. CASE ~ config.autoRetry
    BY <1>3, <1>4 DEF MaskInv, AttemptsLeft, Early
  <1>5. CASE config.autoRetry
    <2>1. \A j \in Jobs : Left(j)' = attempts'[j] - (IF j \in ToSet(todo') THEN 1 ELSE 0)
      BY DEF Left, ToSet
    <2>2. ToSet(todo') = ToSet(todo) \ {h}
      <3>1. todo' = Tail(todo) BY <1>5
      <3>. QED BY <1>1, <3>1
    <2>3. \A j \in Jobs : Left(j)' = Left(j)
      BY <1>1, <1>3, <1>5, <2>1, <2>2 DEF Left
    <2>4. \A j \in Jobs : outcome'[j] # "pass" => outcome[j] # "pass"
      BY <1>1 DEF h
    <2>5. \A c \in ToSet(run_list) : c \in Jobs /\ plan.depends[c] \subseteq Jobs
      BY <1>1, PlanRelations
    <2>. QED BY <1>5, <2>3, <2>4, <2>5 DEF MaskInv, AttemptsLeft, Early, ToSet
  <1>. QED BY <1>4, <1>5

(* A result is fed back: of a command that was executed, of a job that was *)
(* refused and has never run, or of one the user skips.                    *)
LEMMA UseResultMasks ==
  ASSUME MaskInv, AccountedInv', todo # <<>>, phase' = phase, NEW o \in Outcomes, NEW records,
         use_job_result(Head(todo), o, records),
         todo' \in {todo, Tail(todo)},
         IF pending # NoRun /\ pending.outcome = "undecided"
           THEN pending.job = Head(todo) /\ o # "not-supported"
           ELSE verdict[Head(todo)] = "none" \/ o # "not-supported",
         config.autoRetry =>
           /\ todo' = Tail(todo)
           /\ IF pending # NoRun /\ pending.outcome = "undecided" THEN o \in Ran
                                                                  ELSE o = "not-supported"
  PROVE  MaskInv'
  <1>. DEFINE h == Head(todo)
              executed == pending # NoRun /\ pending.outcome = "undecided"
  <1>1. /\ h \in Jobs /\ outcome[h] # "pass" /\ ~ (config.autoRetry /\ Early)
        /\ ToSet(Tail(todo)) \subseteq ToSet(todo)
    <2>1. /\ todo \in Seq(Jobs) /\ \A i, k \in DOMAIN todo : i # k => todo[i] # todo[k]
          /\ \A i \in DOMAIN todo : outcome[todo[i]] # "pass"
      BY DEF MaskInv, AccountedInv, Inv, TypeOK, TodoNotPassed
    <2>2. ToSet(Tail(todo)) = ToSet(todo) \ {h} /\ h \in Jobs
      BY <2>1, RestOfList DEF IsListing
    <2>3. h = todo[1] /\ 1 \in DOMAIN todo BY <2>1
    <2>. QED BY <2>1, <2>2, <2>3 DEF MaskInv, BeforeMain, Idle
  <1>2. /\ outcome' = [outcome EXCEPT ![h] = o]
        /\ inhibitors' = recompute_job_readiness(run_list, outcome', resource_map')
        /\ verdict' = IF executed THEN [verdict EXCEPT ![h] = o] ELSE verdict
        /\ pending' = NoRun /\ SpendAttempt(h)
        /\ UNCHANGED <<plan, config, run_list>>
    BY DEF use_job_result, update_job_result
  <1>3. AttemptsLeft' BY <1>2, SpendingMasks
  <1>4. /\ executed => pending.job = h /\ o # "not-supported"
        /\ ~ executed => verdict[h] = "none" \/ o # "not-supported"
        /\ config.autoRetry => IF executed THEN o \in Ran ELSE o = "not-supported"
    OBVIOUS
  <1>5. executed => \A d \in plan.depends[h] : outcome[d] = "pass"
    BY <1>1 DEF MaskInv, AccountedInv, Inv, SessionInv, StartedIsReady, ReadyMeansMet
  <1>. HIDE DEF h, executed
  <1>6. /\ outcome \in [Jobs -> Outcomes] /\ verdict \in [Jobs -> Outcomes]
        /\ ToSet(run_list) \subseteq Jobs /\ WellFormed(plan) /\ PlainRun
    <2>1. AccountedInv /\ PlainRun BY DEF MaskInv
    <2>2. SessionTypeOK BY <2>1 DEF AccountedInv, Inv, TypeOK
    <2>3. ToSet(run_list) \subseteq Jobs BY <2>2 DEF SessionTypeOK, ToSet
    <2>. QED BY <2>1, <2>2, <2>3 DEF SessionTypeOK
  <1>7. /\ \A j \in Jobs \ {h} : outcome'[j] = outcome[j] /\ verdict'[j] = verdict[j]
        /\ outcome'[h] = o /\ verdict'[h] = IF executed THEN o ELSE verdict[h]
    BY <1>1, <1>2, <1>6
  <1>8. \A j \in Jobs : verdict'[j] # "none" =>
          /\ outcome'[j] # "not-supported"
          /\ \A d \in plan.depends[j] : d \in Jobs /\ outcome'[d] = "pass"
    <2>. SUFFICES ASSUME NEW j \in Jobs, verdict'[j] # "none"
                  PROVE  /\ outcome'[j] # "not-supported"
                         /\ \A d \in plan.depends[j] : d \in Jobs /\ outcome'[d] = "pass"
      OBVIOUS
    <2>1. plan.depends[j] \subseteq Jobs BY <1>6, PlanRelations
    <2>2. /\ outcome'[j] # "not-supported" /\ \A d \in plan.depends[j] : outcome[d] = "pass"
      BY <1>4, <1>5, <1>7 DEF MaskInv, RanIsReady
    <2>3. \A d \in plan.depends[j] : d # h BY <1>1, <2>2
    <2>. QED BY <1>7, <2>1, <2>2, <2>3
  <1>9. /\ \A j \in Jobs : inhibitors'[j]
               \subseteq {Undesired} \cup ({"PENDING_DEP", "FAILED_DEP"} \X plan.depends[j])
        /\ \A j \in ToSet(run_list) : \A d \in plan.depends[j] :
             outcome'[d] \notin {"none", "pass"} => <<"FAILED_DEP", d>> \in inhibitors'[j]
        /\ \A j \in ToSet(run_list) :
             (\A d \in plan.depends[j] : outcome'[d] = "pass") => inhibitors'[j] = {}
    <2>1. LET inh == recompute_job_readiness(run_list, outcome', resource_map') IN
          /\ \A j \in Jobs :
               inh[j] \subseteq {Undesired} \cup ({"PENDING_DEP", "FAILED_DEP"} \X plan.depends[j])
          /\ \A j \in ToSet(run_list) : \A d \in plan.depends[j] :
               outcome'[d] \notin {"none", "pass"} => <<"FAILED_DEP", d>> \in inh[j]
          /\ \A j \in ToSet(run_list) :
               (\A d \in plan.depends[j] : outcome'[d] = "pass") => inh[j] = {}
      BY <1>6, PlainReadiness DEF PlainRun
    <2>. QED BY <1>2, <2>1
  <1>. /\ ToSet(run_list)' = ToSet(run_list) /\ plan' = plan
    BY <1>2 DEF ToSet
  <1>10. DepsInhibit'
    <2>1. \A j \in ToSet(run_list) : \A d \in plan.depends[j] :
            outcome'[d] \notin {"none", "pass"} => <<"FAILED_DEP", d>> \in inhibitors'[j]
      BY <1>9
    <2>. QED BY <1>9, <2>1 DEF DepsInhibit
  <1>11. RanIsReady' BY <1>8, <1>9 DEF RanIsReady
  <1>12. RanOrRefused'
    <2>1. config.autoRetry => \A j \in Jobs :
            /\ outcome'[j] \in Ran \cup {"none", "not-supported"}
            /\ outcome'[j] \in Ran => verdict'[j] = outcome'[j]
      BY <1>4, <1>7 DEF MaskInv, RanOrRefused, Ran
    <2>. QED BY <1>2, <2>1 DEF RanOrRefused
  <1>13. PlainRun' BY <1>2, <1>6 DEF PlainRun, DependsOnly
  <1>14. BeforeMain' BY <1>1, <1>2 DEF BeforeMain, Early
  <1>15. ListClosed'
    <2>1. ToSet(todo') \subseteq ToSet(todo) BY <1>1
    <2>2. ToSet(todo)' = ToSet(todo') BY DEF ToSet
    <2>. QED BY <2>1, <2>2 DEF MaskInv, ListClosed
  <1>. QED BY <1>3, <1>10, <1>11, <1>12, <1>13, <1>14, <1>15 DEF MaskInv

LEMMA CompleteMasks ==
  ASSUME MaskInv, AccountedInv', CompleteJob
  PROVE  MaskInv'
  <1>1. /\ pending # NoRun /\ pending.job = Head(todo) /\ todo # <<>>
        /\ todo' = Tail(todo) /\ phase' = phase
    BY DEF CompleteJob
  <1>2. CASE pending.outcome = "undecided"
    <2>1. PICK o \in EndsIn(Head(todo)), r \in Records(Head(todo)) :
            use_job_result(Head(todo), o, r)
      BY <1>2 DEF CompleteJob
    <2>2. o \in Outcomes /\ o # "not-supported" /\ (config.autoRetry => o \in Ran)
      BY DriverAssumption DEF EndsIn, AskedAbout, MaskInv, PlainRun, Ran, Outcomes
    <2>. QED BY <1>1, <1>2, <2>1, <2>2, UseResultMasks
  <1>3. CASE pending.outcome # "undecided"
    <2>1. use_job_result(Head(todo), pending.outcome, "nomatch") BY <1>3 DEF CompleteJob
    <2>2. /\ verdict[Head(todo)] = "none"
          /\ config.autoRetry => pending.outcome = "not-supported"
          /\ pending.outcome \in Outcomes
      BY <1>1, <1>3
         DEF MaskInv, RanOrRefused, AccountedInv, Inv, TypeOK, SessionTypeOK, Pending
    <2>. QED BY <1>1, <1>3, <2>1, <2>2, UseResultMasks
  <1>. QED BY <1>2, <1>3

(* With auto-retry nobody is asked, so nothing is skipped or run again by  *)
(* hand; without it an attempt is no object.                               *)
LEMMA AnswerMasks ==
  ASSUME MaskInv, AccountedInv', SkipJob \/ RerunJob
  PROVE  MaskInv'
  <1>1. ~ config.autoRetry
    BY DEF SkipJob, RerunJob, MaySkip, AskedAbout, MaskInv, PlainRun
  <1>2. CASE SkipJob
    <2>1. /\ todo # <<>> /\ pending = NoRun /\ phase' = phase /\ todo' = Tail(todo)
          /\ use_job_result(Head(todo), "skip", "nomatch")
      BY <1>2 DEF SkipJob
    <2>. QED BY <1>1, <2>1, UseResultMasks DEF Outcomes
  <1>3. CASE RerunJob
    <2>1. /\ todo # <<>> /\ pending # NoRun /\ pending.job = Head(todo) /\ phase' = phase
          /\ todo' = todo /\ pending.outcome = "undecided"
          /\ use_job_result(Head(todo), "undecided", "nomatch")
      BY <1>3 DEF RerunJob
    <2>. QED BY <1>1, <2>1, UseResultMasks DEF Outcomes
  <1>. QED BY <1>2, <1>3

(* Whoever asks for a failed dependency again keeps it company: a job that *)
(* depends on what is rearmed is rearmed too, if it has an attempt left.   *)
LEMMA RearmedTogether ==
  ASSUME MaskInv, phase = "auto", Idle, config.autoRetry,
         NEW c \in ToSet(run_list), c \notin plan.noRetry, attempts[c] # 0,
         NEW d \in plan.depends[c], outcome[d] # "pass"
  PROVE  c \in RerunCandidates(AutoCandidate)
  <1>1. /\ c \in Jobs /\ d \in Jobs /\ d \in ToSet(run_list) /\ todo = <<>> /\ ToSet(todo) = {}
    <2>1. ToSet(run_list) \subseteq Jobs /\ WellFormed(plan) /\ todo = <<>> /\ ToSet(todo) = {}
      BY DEF Idle, ToSet, MaskInv, AccountedInv, Inv, TypeOK, SessionTypeOK
    <2>2. d \in ToSet(run_list) BY DEF MaskInv, ListClosed
    <2>. QED BY <2>1, <2>2
  <1>2. outcome[c] # "none" /\ outcome[d] # "none"
    BY <1>1 DEF MaskInv, AccountedInv, Accounted, OpenIsTodo
  <1>3. outcome[c] \notin Ran BY <1>1 DEF MaskInv, RanIsReady, RanOrRefused, Ran
  <1>4. outcome[c] = "not-supported" BY <1>1, <1>2, <1>3 DEF MaskInv, RanOrRefused
  <1>5. <<"FAILED_DEP", d>> \in inhibitors[c] BY <1>1, <1>2 DEF MaskInv, DepsInhibit
  <1>. QED BY <1>1, <1>4, <1>5 DEF RerunCandidates, AutoCandidate

(* What a job drags along has an attempt left, like the job itself.        *)
LEMMA RearmedHaveAttempts ==
  ASSUME MaskInv, phase = "auto", Idle, config.autoRetry,
         NEW j \in RerunCandidates(AutoCandidate) \cup FailedDepsOf(RerunCandidates(AutoCandidate))
  PROVE  j \in Jobs /\ attempts[j] > 0
  <1>1. ToSet(todo) = {} /\ ToSet(run_list) \subseteq Jobs /\ attempts \in [Jobs -> Int]
    BY DEF Idle, ToSet, MaskInv, AccountedInv, Inv, TypeOK, SessionTypeOK
  <1>2. \A i \in Jobs : Left(i) = attempts[i] /\ attempts[i] >= 0
    BY <1>1 DEF MaskInv, AttemptsLeft, Left
  <1>3. \A c \in RerunCandidates(AutoCandidate) :
          c \in ToSet(run_list) \ plan.noRetry /\ c \in Jobs /\ attempts[c] > 0
    BY <1>1, <1>2 DEF RerunCandidates, AutoCandidate, MaskInv, AccountedInv, Accounted, OpenIsTodo
  <1>4. CASE j \in RerunCandidates(AutoCandidate) BY <1>3, <1>4
  <1>5. CASE j \in FailedDepsOf(RerunCandidates(AutoCandidate))
    <2>1. PICK c \in RerunCandidates(AutoCandidate) : <<"FAILED_DEP", j>> \in inhibitors[c]
      BY <1>5 DEF FailedDepsOf
    <2>2. j \in Jobs /\ outcome[j] # "pass" /\ j \in plan.depends[c]
      BY <1>3, <1>5, <2>1
         DEF FailedDepsOf, MaskInv, DepsInhibit, Undesired, AccountedInv, Inv, SessionInv,
             FailedDepHasNotPassed
    <2>3. Left(j) >= Left(c) BY <1>2, <1>3, <2>2 DEF MaskInv, AttemptsLeft, Early
    <2>. QED BY <1>1, <1>2, <1>3, <2>2, <2>3
  <1>. QED BY <1>4, <1>5

LEMMA AutoRearmLeaves ==
  ASSUME MaskInv, phase = "auto", Idle, phase' = phase, NEW candidates,
         ToSet(candidates) = RerunCandidates(AutoCandidate),
         prepare_rerun_candidates(candidates, todo')
  PROVE  AttemptsLeft'
  <1>. DEFINE C == RerunCandidates(AutoCandidate)
  <1>1. /\ ToSet(todo) = {} /\ ToSet(run_list) \subseteq Jobs /\ WellFormed(plan)
        /\ attempts \in [Jobs -> Int] /\ C \subseteq Jobs
    BY DEF Idle, ToSet, MaskInv, AccountedInv, Inv, TypeOK, SessionTypeOK, RerunCandidates
  <1>2. ToSet(todo') = C \cup FailedDepsOf(C)
    BY <1>1, RearmedListsType DEF prepare_rerun_candidates, IsListing
  <1>3. /\ outcome' = [j \in Jobs |-> IF j \in ToSet(todo') THEN "none" ELSE outcome[j]]
        /\ UNCHANGED <<plan, config, run_list, attempts>>
    BY DEF prepare_rerun_candidates
  <1>4. CASE ~ config.autoRetry
    BY <1>3, <1>4 DEF MaskInv, AttemptsLeft
  <1>5. CASE config.autoRetry
    <2>1. \A j \in ToSet(todo') : j \in Jobs /\ attempts[j] > 0
      BY <1>2, <1>5, RearmedHaveAttempts
    <2>2. \A j \in Jobs : Left(j) = attempts[j] /\ attempts[j] >= 0
      BY <1>1, <1>5 DEF MaskInv, AttemptsLeft, Left
    <2>3. \A j \in Jobs : Left(j)' = attempts[j] - (IF j \in ToSet(todo') THEN 1 ELSE 0)
      BY <1>3 DEF Left, ToSet
    <2>4. \A j \in Jobs : Left(j)' >= 0 BY <1>1, <2>1, <2>2, <2>3
    <2>5. ASSUME NEW c \in ToSet(run_list), c \notin plan.noRetry, NEW d \in plan.depends[c],
                 outcome'[d] # "pass", Left(c)' > 0
          PROVE  Left(d)' >= Left(c)'
      <3>1. c \in Jobs /\ d \in Jobs BY <1>1, PlanRelations
      <3>2. attempts[c] > 0 BY <1>1, <2>2, <2>3, <2>5, <3>1
      <3>3. outcome[d] # "pass"
        <4>1. \A j \in C : outcome[j] # "pass" BY DEF RerunCandidates, AutoCandidate
        <4>2. \A j \in FailedDepsOf(C) : outcome[j] # "pass"
          BY <1>1 DEF FailedDepsOf, MaskInv, AccountedInv, Inv, SessionInv, FailedDepHasNotPassed
        <4>. QED BY <1>2, <1>3, <2>5, <3>1, <4>1, <4>2
      <3>4. c \in ToSet(todo') BY <1>1, <1>2, <1>5, <2>5, <3>2, <3>3, RearmedTogether
      <3>5. attempts[d] >= attempts[c]
        BY <1>5, <2>2, <2>5, <3>1, <3>2, <3>3 DEF MaskInv, AttemptsLeft, Early
      <3>. QED BY <1>1, <2>3, <3>1, <3>4, <3>5
    <2>6. \A c \in ToSet(run_list) \ plan.noRetry : \A d \in plan.depends[c] :
            outcome'[d] # "pass" /\ Left(c)' > 0 => Left(d)' >= Left(c)'
      BY <2>5
    <2>. QED BY <1>3, <1>5, <2>4, <2>6 DEF MaskInv, AttemptsLeft, ToSet
  <1>. QED BY <1>4, <1>5

LEMMA RearmMasks ==
  ASSUME MaskInv, AccountedInv', AttemptsLeft', phase \in {"manual", "auto"}, Idle,
         phase' = phase, NEW candidates, ToSet(candidates) \in (SUBSET Jobs) \ {{}},
         \A c \in ToSet(candidates) : outcome[c] # "pass" /\ c \in ToSet(run_list),
         prepare_rerun_candidates(candidates, todo')
  PROVE  MaskInv'
  <1>1. /\ outcome' = [j \in Jobs |-> IF j \in ToSet(todo') THEN "none" ELSE outcome[j]]
        /\ UNCHANGED <<plan, config, run_list, inhibitors, pending, verdict>>
        /\ ToSet(run_list)' = ToSet(run_list)
    BY DEF prepare_rerun_candidates, ToSet
  <1>2. pending = NoRun /\ SessionInv BY DEF MaskInv, AccountedInv, Inv, Idle
  <1>3. \A j \in Jobs : outcome[j] = "pass" => outcome'[j] = "pass"
    BY <1>2, RearmKeeps
  <1>4. ToSet(todo') = ToSet(candidates) \cup FailedDepsOf(ToSet(candidates))
    BY RearmedListsType DEF prepare_rerun_candidates, IsListing
  <1>5. todo' # <<>>
    <2>1. ToSet(candidates) \subseteq ToSet(todo') BY <1>4
    <2>. QED BY <2>1 DEF ToSet
  <1>6. WellFormed(plan) /\ outcome \in [Jobs -> Outcomes]
    BY <1>2 DEF SessionInv, SessionTypeOK
  <1>7. PlainRun' BY <1>1 DEF MaskInv, PlainRun, DependsOnly
  <1>8. BeforeMain' BY DEF BeforeMain, Early
  <1>9. ListClosed'
    <2>1. ASSUME NEW c \in ToSet(candidates), NEW d \in Jobs, <<"FAILED_DEP", d>> \in inhibitors[c]
          PROVE  d \in ToSet(run_list)
      BY <2>1 DEF MaskInv, DepsInhibit, ListClosed, Undesired
    <2>2. ToSet(todo') \subseteq ToSet(run_list) BY <1>4, <2>1 DEF FailedDepsOf
    <2>3. ToSet(todo)' = ToSet(todo') BY DEF ToSet
    <2>. QED BY <1>1, <2>2, <2>3 DEF MaskInv, ListClosed
  <1>10. DepsInhibit' BY <1>1, <1>5 DEF MaskInv, DepsInhibit
  <1>11. RanIsReady'
    <2>. SUFFICES ASSUME NEW j \in Jobs, verdict[j] # "none"
                  PROVE  /\ outcome'[j] # "not-supported"
                         /\ j \in ToSet(run_list) => inhibitors[j] = {}
                         /\ \A d \in plan.depends[j] : outcome'[d] = "pass"
      BY <1>1 DEF RanIsReady
    <2>1. plan.depends[j] \subseteq Jobs BY <1>6, PlanRelations
    <2>. QED BY <1>1, <1>3, <2>1 DEF MaskInv, RanIsReady
  <1>12. RanOrRefused' BY <1>1, <1>2 DEF MaskInv, RanOrRefused, Ran
  <1>. QED BY <1>7, <1>8, <1>9, <1>10, <1>11, <1>12 DEF MaskInv

LEMMA FinishMasks ==
  ASSUME MaskInv, AccountedInv', FinishMain \/ FinishManual \/ FinishAuto
  PROVE  MaskInv'
  <1>1. /\ ~ Early /\ phase' \in {"manual", "auto", "done"}
        /\ phase' = "manual" => ~ config.autoRetry
        /\ UNCHANGED <<plan, config, run_list, outcome, inhibitors, attempts, pending, verdict, todo>>
    BY DEF FinishMain, FinishManual, FinishAuto, AfterMain, AfterManual, Early, MaskInv, PlainRun
  <1>2. PlainRun' /\ BeforeMain' BY <1>1 DEF MaskInv, PlainRun, DependsOnly, BeforeMain, Early
  <1>3. ListClosed' /\ DepsInhibit' BY <1>1 DEF MaskInv, ListClosed, DepsInhibit, ToSet
  <1>4. RanIsReady' /\ RanOrRefused' BY <1>1 DEF MaskInv, RanIsReady, RanOrRefused, ToSet
  <1>5. AttemptsLeft' BY <1>1 DEF MaskInv, AttemptsLeft, Early, Left, ToSet
  <1>. QED BY <1>2, <1>3, <1>4, <1>5 DEF MaskInv

LEMMA StutterMasks ==
  ASSUME MaskInv, UNCHANGED vars, AccountedInv'
  PROVE  MaskInv'
  <1>1. PlainRun' /\ BeforeMain'
    BY DEF vars, MaskInv, PlainRun, DependsOnly, BeforeMain, Early, Idle
  <1>2. ListClosed' /\ DepsInhibit' BY DEF vars, MaskInv, ListClosed, DepsInhibit, ToSet
  <1>3. RanIsReady' /\ RanOrRefused' BY DEF vars, MaskInv, RanIsReady, RanOrRefused, ToSet
  <1>4. AttemptsLeft' BY DEF vars, MaskInv, AttemptsLeft, Early, Left, ToSet
  <1>. QED BY <1>1, <1>2, <1>3, <1>4 DEF MaskInv

LEMMA NextMasks == MaskInv /\ [Next]_vars => MaskInv'
  <1>. SUFFICES ASSUME MaskInv, [Next]_vars PROVE MaskInv' OBVIOUS
  <1>0. AccountedInv' /\ Inv BY NextAccounted DEF MaskInv, AccountedInv
  <1>1. CASE finish_bootstrap BY <1>0, <1>1, FinishBootstrapMasks
  <1>2. ASSUME NEW selection \in (SUBSET ToSet(run_list)) \ {{}},
               use_alternate_selection(selection)
        PROVE  MaskInv'
    BY <1>0, <1>2, SelectionMasks
  <1>3. CASE StartJob BY <1>0, <1>3, StartJobMasks
  <1>4. CASE SkipJob \/ RerunJob BY <1>0, <1>4, AnswerMasks
  <1>5. CASE CompleteJob BY <1>0, <1>5, CompleteMasks
  <1>6. CASE FinishMain \/ FinishManual \/ FinishAuto BY <1>0, <1>6, FinishMasks
  <1>7. CASE maybe_manual_rerun_jobs
    <2>1. PICK wanted \in (SUBSET RerunCandidates(ManualCandidate)) \ {{}} :
            \E candidates \in ManualCandidateLists(wanted) :
              prepare_rerun_candidates(candidates, todo')
      BY <1>7 DEF maybe_manual_rerun_jobs
    <2>2. PICK candidates \in ManualCandidateLists(wanted) :
            prepare_rerun_candidates(candidates, todo')
      BY <2>1
    <2>3. /\ ToSet(candidates) \in (SUBSET Jobs) \ {{}}
          /\ \A c \in ToSet(candidates) : outcome[c] # "pass" /\ c \in ToSet(run_list)
      <3>1. ToSet(candidates) = wanted BY DEF ManualCandidateLists, Orderings
      <3>2. wanted \subseteq ToSet(run_list) BY DEF RerunCandidates
      <3>. QED BY <1>0, <3>1, <3>2, ManualCandidatesType
    <2>4. phase = "manual" /\ phase' = phase /\ Idle BY <1>7 DEF maybe_manual_rerun_jobs
    <2>5. UNCHANGED <<config, attempts>> BY <2>2 DEF prepare_rerun_candidates
    <2>6. AttemptsLeft' BY <2>4, <2>5 DEF MaskInv, AttemptsLeft
    <2>. QED BY <1>0, <2>2, <2>3, <2>4, <2>6, RearmMasks
  <1>8. CASE maybe_auto_rerun_jobs
    <2>1. PICK candidates \in Orderings(RerunCandidates(AutoCandidate), InRunListOrder) :
            prepare_rerun_candidates(candidates, todo')
      BY <1>8 DEF maybe_auto_rerun_jobs
    <2>2. phase = "auto" /\ phase' = phase /\ Idle /\ RerunCandidates(AutoCandidate) # {}
      BY <1>8 DEF maybe_auto_rerun_jobs
    <2>3. ToSet(candidates) = RerunCandidates(AutoCandidate) BY DEF Orderings
    <2>4. /\ ToSet(candidates) \in SUBSET Jobs
          /\ \A c \in ToSet(candidates) : outcome[c] # "pass" /\ c \in ToSet(run_list)
      BY <1>0, <2>3, AutoCandidatesType DEF RerunCandidates
    <2>5. AttemptsLeft' BY <2>1, <2>2, <2>3, AutoRearmLeaves
    <2>. QED BY <1>0, <2>1, <2>2, <2>3, <2>4, <2>5, RearmMasks
  <1>9. CASE Done \/ UNCHANGED vars BY <1>0, <1>9, StutterMasks DEF Done
  <1>. QED BY <1>1, <1>2, <1>3, <1>4, <1>5, <1>6, <1>7, <1>8, <1>9 DEF Next

(* The invariant behind it, in every reachable state of such a run.        *)
THEOREM MaskInvariance == Spec /\ PlainRun => []MaskInv
  <1>1. Init /\ PlainRun => MaskInv BY InitMasks
  <1>. QED BY <1>1, NextMasks, PTL DEF Spec

(* In such a run no failure is reported as "not supported": a job that has *)
(* run keeps its inhibitors empty and an attempt for whoever rearms it, so *)
(* it is never refused afterwards (subcommands.py, controller.py).         *)
THEOREM FailuresNotMasked == Spec /\ PlainRun => []FailureNotMasked
  <1>1. MaskInv => FailureNotMasked
    BY DEF MaskInv, RanIsReady, FailureNotMasked, Failed
  <1>. QED BY <1>1, MaskInvariance, PTL

(* No attempt is overdrawn there, so the automatic loop, which stops at    *)
(* exactly zero, does not miss the end (get_rerun_candidates).             *)
THEOREM NoOverdraft == Spec /\ PlainRun => [](\A j \in Jobs : attempts[j] >= 0)
  <1>1. MaskInv => \A j \in Jobs : attempts[j] >= 0
    <2>. SUFFICES ASSUME MaskInv, NEW j \in Jobs PROVE attempts[j] >= 0 OBVIOUS
    <2>1. attempts[j] \in Int BY DEF MaskInv, AccountedInv, Inv, TypeOK, SessionTypeOK
    <2>2. CASE config.autoRetry BY <2>1, <2>2 DEF MaskInv, AttemptsLeft, Left
    <2>3. CASE ~ config.autoRetry BY <2>1, <2>3 DEF MaskInv, AttemptsLeft
    <2>. QED BY <2>2, <2>3
  <1>. QED BY <1>1, MaskInvariance, PTL

-----------------------------------------------------------------------------
(***************************************************************************)
(* The automatic loop leaves a job excluded from retries alone where no    *)
(* other job depends on it: it is no candidate, and nobody drags it along. *)
(***************************************************************************)
Excluded == {j \in plan.noRetry : ~Needed(j)}

FailedDepIsDependency ==
  \A c \in Jobs : \A d \in Jobs : <<"FAILED_DEP", d>> \in inhibitors[c] => d \in plan.depends[c]

NotRearmed == phase = "auto" => \A j \in ToSet(todo) : j \notin Excluded

NoRetryInv == AccountedInv /\ FailedDepIsDependency /\ NotRearmed

LEMMA FailedDepNamed ==
  ASSUME NEW list, NEW out, NEW res, NEW c \in Jobs, NEW d \in Jobs,
         <<"FAILED_DEP", d>> \in recompute_job_readiness(list, out, res)[c]
  PROVE  d \in plan.depends[c]
  <1>1. <<"FAILED_DEP", d>> \in get_inhibitor_list(c, out, res)
    BY DEF recompute_job_readiness, Undesired
  <1>2. <<"FAILED_DEP", d>> \notin ResourceInhibitors(c, out, res)
    BY DEF ResourceInhibitors
  <1>. QED BY <1>1, <1>2 DEF get_inhibitor_list

(* Readiness is either computed anew or left alone.                        *)
LEMMA DependencyNamed ==
  ASSUME FailedDepIsDependency, plan' = plan,
         inhibitors' = inhibitors
           \/ \E list, out, res : inhibitors' = recompute_job_readiness(list, out, res)
  PROVE  FailedDepIsDependency'
  <1>1. CASE inhibitors' = inhibitors BY <1>1 DEF FailedDepIsDependency
  <1>2. ASSUME NEW list, NEW out, NEW res,
               inhibitors' = recompute_job_readiness(list, out, res)
        PROVE  FailedDepIsDependency'
    BY <1>2, FailedDepNamed DEF FailedDepIsDependency
  <1>. QED BY <1>1, <1>2

LEMMA UseResultNotRearmed ==
  ASSUME NoRetryInv, todo # <<>>, phase' = phase, todo' \in {todo, Tail(todo)}, NEW o, NEW records,
         use_job_result(Head(todo), o, records)
  PROVE  FailedDepIsDependency' /\ NotRearmed' /\ plan' = plan
  <1>1. /\ plan' = plan /\ inhibitors' = recompute_job_readiness(run_list, outcome', resource_map')
    BY DEF use_job_result, update_job_result
  <1>2. FailedDepIsDependency' BY <1>1, DependencyNamed DEF NoRetryInv
  <1>3. ToSet(todo') \subseteq ToSet(todo)
    <2>1. todo \in Seq(Jobs) /\ \A i, k \in DOMAIN todo : i # k => todo[i] # todo[k]
      BY DEF NoRetryInv, AccountedInv, Inv, TypeOK, TodoNotPassed
    <2>2. ToSet(Tail(todo)) \subseteq ToSet(todo) BY <2>1, RestOfList DEF IsListing
    <2>. QED BY <2>2
  <1>4. ToSet(todo)' = ToSet(todo') BY DEF ToSet
  <1>5. Excluded' = Excluded BY <1>1 DEF Excluded, Needed
  <1>. QED BY <1>1, <1>2, <1>3, <1>4, <1>5 DEF NoRetryInv, NotRearmed

LEMMA AutoNotRearmed ==
  ASSUME NoRetryInv, maybe_auto_rerun_jobs
  PROVE  NotRearmed'
  <1>1. PICK candidates \in Orderings(RerunCandidates(AutoCandidate), InRunListOrder) :
          prepare_rerun_candidates(candidates, todo')
    BY DEF maybe_auto_rerun_jobs
  <1>2. ToSet(candidates) = RerunCandidates(AutoCandidate) /\ ToSet(candidates) \in SUBSET Jobs
    BY AutoCandidatesType DEF Orderings, NoRetryInv, AccountedInv
  <1>3. ToSet(todo') = ToSet(candidates) \cup FailedDepsOf(ToSet(candidates)) /\ plan' = plan
    BY <1>1, <1>2, RearmedListsType DEF prepare_rerun_candidates, IsListing
  <1>4. \A c \in ToSet(candidates) : outcome[c] # "none"
    <2>1. ToSet(todo) = {} /\ phase = "auto" BY DEF maybe_auto_rerun_jobs, Idle, ToSet
    <2>. QED BY <1>2, <2>1 DEF RerunCandidates, NoRetryInv, AccountedInv, Accounted, OpenIsTodo
  <1>5. \A c \in ToSet(candidates) : c \notin Excluded
    BY <1>2, <1>4 DEF RerunCandidates, AutoCandidate, Excluded
  <1>6. \A d \in FailedDepsOf(ToSet(candidates)) : d \notin Excluded
    BY <1>2 DEF FailedDepsOf, NoRetryInv, FailedDepIsDependency, Excluded, Needed
  <1>7. ToSet(todo)' = ToSet(todo') BY DEF ToSet
  <1>8. Excluded' = Excluded BY <1>3 DEF Excluded, Needed
  <1>. QED BY <1>3, <1>5, <1>6, <1>7, <1>8 DEF NotRearmed

LEMMA InitNotRearmed == Init => NoRetryInv
  <1>. SUFFICES ASSUME Init PROVE NoRetryInv OBVIOUS
  <1>1. AccountedInv BY InitKeeps, InitAccounted DEF AccountedInv
  <1>2. FailedDepIsDependency BY FailedDepNamed DEF Init, FailedDepIsDependency
  <1>. QED BY <1>1, <1>2 DEF NoRetryInv, NotRearmed, Init

LEMMA NextNotRearmed == NoRetryInv /\ [Next]_vars => NoRetryInv'
  <1>. SUFFICES ASSUME NoRetryInv, [Next]_vars PROVE NoRetryInv' OBVIOUS
  <1>. DEFINE Goal == FailedDepIsDependency' /\ NotRearmed' /\ plan' = plan
  <1>1. AccountedInv' BY NextAccounted DEF NoRetryInv
  <1>2. ASSUME finish_bootstrap PROVE Goal
    BY <1>2, DependencyNamed DEF finish_bootstrap, update_desired_job_list, NotRearmed, NoRetryInv
  <1>3. ASSUME NEW selection \in (SUBSET ToSet(run_list)) \ {{}}, use_alternate_selection(selection)
        PROVE  Goal
    BY <1>3, DependencyNamed
       DEF use_alternate_selection, update_desired_job_list, NotRearmed, NoRetryInv
  <1>4. ASSUME SkipJob PROVE Goal BY <1>4, UseResultNotRearmed DEF SkipJob
  <1>5. ASSUME CompleteJob PROVE Goal
    <2>1. PICK o \in Outcomes \ {"none"} :
            \E records : use_job_result(Head(todo), o, records)
      BY <1>5, CompletedDefinite DEF NoRetryInv
    <2>. QED BY <1>5, <2>1, UseResultNotRearmed DEF CompleteJob
  <1>6. ASSUME RerunJob PROVE Goal BY <1>6, UseResultNotRearmed DEF RerunJob
  <1>7. ASSUME StartJob PROVE Goal
    <2>1. UNCHANGED <<plan, inhibitors, phase, todo>> BY <1>7 DEF StartJob, run_job, driverVars
    <2>. QED BY <2>1 DEF NoRetryInv, FailedDepIsDependency, NotRearmed, ToSet, Excluded, Needed
  <1>8. ASSUME FinishMain \/ FinishManual \/ FinishAuto PROVE Goal
    <2>1. UNCHANGED <<plan, inhibitors>> /\ todo' = <<>>
      BY <1>8 DEF FinishMain, FinishManual, FinishAuto, Idle
    <2>. QED BY <2>1 DEF NoRetryInv, FailedDepIsDependency, NotRearmed, ToSet
  <1>9. ASSUME maybe_manual_rerun_jobs PROVE Goal
    <2>1. UNCHANGED <<plan, inhibitors>> /\ phase' = "manual"
      BY <1>9 DEF maybe_manual_rerun_jobs, prepare_rerun_candidates
    <2>. QED BY <2>1 DEF NoRetryInv, FailedDepIsDependency, NotRearmed
  <1>10. ASSUME maybe_auto_rerun_jobs PROVE Goal
    <2>1. UNCHANGED <<plan, inhibitors>>
      BY <1>10 DEF maybe_auto_rerun_jobs, prepare_rerun_candidates
    <2>. QED BY <1>10, <2>1, AutoNotRearmed DEF NoRetryInv, FailedDepIsDependency
  <1>11. ASSUME Done \/ UNCHANGED vars PROVE Goal
    BY <1>11 DEF Done, vars, NoRetryInv, FailedDepIsDependency, NotRearmed, ToSet, Excluded, Needed
  <1>12. Goal
    BY <1>2, <1>3, <1>4, <1>5, <1>6, <1>7, <1>8, <1>9, <1>10, <1>11 DEF Next
  <1>. QED BY <1>1, <1>12 DEF NoRetryInv

(* "even if the job bar fails and auto-retry is activated, it will not be  *)
(* retried" (auto-retry.rst), where no job depends on it.                  *)
THEOREM NoRetryKept == Spec => NoRetryRespected
  <1>. DEFINE Alone == \A j \in plan.noRetry :
                phase = "auto" /\ Failed(j) /\ ~Needed(j) => runs'[j] = runs[j]
  <1>1. NoRetryInv /\ [Next]_vars => [Alone]_vars
    <2>. SUFFICES ASSUME NoRetryInv, Next, NEW j \in plan.noRetry, phase = "auto", ~Needed(j)
                  PROVE  runs'[j] = runs[j]
      OBVIOUS
    <2>1. ASSUME StartJob PROVE runs'[j] = runs[j]
      <3>1. Head(todo) \in ToSet(todo) /\ runs \in [Jobs -> Nat] /\ j \in Jobs
        BY <2>1 DEF StartJob, NoRetryInv, AccountedInv, Inv, TypeOK, SessionTypeOK, WellFormed,
                    PlanType, ToSet
      <3>2. Head(todo) # j BY <3>1 DEF NoRetryInv, NotRearmed, Excluded
      <3>. QED BY <2>1, <3>1, <3>2 DEF StartJob, run_job
    <2>2. ASSUME ~ StartJob PROVE runs' = runs
      BY <2>2 DEF Next, finish_bootstrap, use_alternate_selection, SkipJob, CompleteJob, RerunJob,
                  use_job_result, FinishMain, FinishManual, FinishAuto, maybe_manual_rerun_jobs,
                  maybe_auto_rerun_jobs, prepare_rerun_candidates, Done, vars
    <2>. QED BY <2>1, <2>2
  <1>2. Init => NoRetryInv BY InitNotRearmed
  <1>3. Spec => [][Alone]_vars
    BY <1>1, <1>2, NextNotRearmed, PTL DEF Spec
  <1>. QED BY <1>3 DEF NoRetryRespected

=============================================================================
