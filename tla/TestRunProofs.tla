---------------------------- MODULE TestRunProofs ----------------------------
(***************************************************************************)
(* Proofs about TestRun, for every set of plans, launcher configuration,   *)
(* number of attempts and bound: the invariant Inv is inductive, and the   *)
(* promises below follow from it.                                          *)
(***************************************************************************)
EXTENDS TestRun, FiniteSetTheorems, WellFoundedInduction, TLAPS

-----------------------------------------------------------------------------
(* Lists.                                                                  *)

(* What the lists of TestRun have in common: the jobs of S, each once.     *)
IsListing(S, l) ==
  /\ l \in Seq(Jobs)
  /\ ToSet(l) = S
  /\ \A i, k \in DOMAIN l : i # k => l[i] # l[k]

LEMMA ListType ==
  ASSUME NEW S \in SUBSET Jobs, NEW l \in SetToSeqs(S), ToSet(l) = S
  PROVE  IsListing(S, l)
  <1>1. Cardinality(S) \in Nat BY JobsAssumption, FS_Subset, FS_CardinalityType
  <1>2. l \in [1..Cardinality(S) -> S] BY DEF SetToSeqs
  <1>3. l \in Seq(Jobs) /\ DOMAIN l = 1..Cardinality(S)
    <2>1. l \in Seq(S) BY <1>1, <1>2
    <2>. QED BY <1>2, <2>1
  <1>4. \A i, k \in DOMAIN l : i # k => l[i] # l[k] BY <1>3 DEF SetToSeqs
  <1>. QED BY <1>3, <1>4 DEF IsListing

LEMMA ClosureType == \A S : Closure(S) \in SUBSET Jobs
  BY DEF Closure

(* What a selection needs, its closure already has.                        *)
LEMMA ClosureIdempotent ==
  ASSUME NEW S, NEW T, S \subseteq Closure(T)
  PROVE  Closure(S) \subseteq Closure(T)
  <1>. SUFFICES ASSUME NEW j \in Closure(S), NEW U \in SUBSET Jobs, T \subseteq U,
                       \A t \in U : get_dependency_set(t) \subseteq U
                PROVE  j \in U
    BY DEF Closure
  <1>1. Closure(T) \subseteq U BY DEF Closure
  <1>. QED BY <1>1 DEF Closure

LEMMA RunListsType ==
  ASSUME NEW S, NEW l \in RunLists(S)
  PROVE  IsListing(Closure(S), l)
  <1>1. l \in SetToSeqs(Closure(S)) /\ ToSet(l) = Closure(S) BY DEF RunLists, Orderings
  <1>. QED BY <1>1, ClosureType, ListType

LEMMA TodoListsType ==
  ASSUME NEW list, ToSet(list) \in SUBSET Jobs, NEW l \in TodoLists(list)
  PROVE  IsListing({j \in ToSet(list) : outcome[j] = "none"}, l)
  <1>. DEFINE S == {j \in ToSet(list) : outcome[j] = "none"}
  <1>1. l \in SetToSeqs(S) /\ ToSet(l) = S BY DEF TodoLists, Orderings
  <1>2. S \in SUBSET Jobs OBVIOUS
  <1>. QED BY <1>1, <1>2, ListType

LEMMA RearmedListsType ==
  ASSUME NEW candidates, ToSet(candidates) \in SUBSET Jobs,
         NEW l \in RearmedLists(candidates)
  PROVE  IsListing(ToSet(candidates) \cup FailedDepsOf(ToSet(candidates)), l)
  <1>. DEFINE S == ToSet(candidates) \cup FailedDepsOf(ToSet(candidates))
  <1>1. l \in SetToSeqs(S) /\ ToSet(l) = S BY DEF RearmedLists, Orderings
  <1>2. S \in SUBSET Jobs BY DEF FailedDepsOf
  <1>. QED BY <1>1, <1>2, ListType

(* Going on to the rest of a list.                                         *)
LEMMA RestOfList ==
  ASSUME NEW l \in Seq(Jobs), l # <<>>,
         \A i, k \in DOMAIN l : i # k => l[i] # l[k]
  PROVE  /\ Head(l) \in Jobs
         /\ IsListing(ToSet(l) \ {Head(l)}, Tail(l))
         /\ \A i \in DOMAIN Tail(l) : i + 1 \in DOMAIN l /\ Tail(l)[i] = l[i + 1]
  <1>1. /\ Head(l) = l[1] /\ 1 \in DOMAIN l /\ l[1] \in Jobs
        /\ DOMAIN l = 1..Len(l) /\ Len(l) \in Nat \ {0}
    OBVIOUS
  <1>2. /\ Tail(l) \in Seq(Jobs) /\ DOMAIN Tail(l) = 1..(Len(l) - 1)
        /\ \A i \in 1..(Len(l) - 1) : Tail(l)[i] = l[i + 1]
    BY <1>1
  <1>3. ToSet(Tail(l)) = ToSet(l) \ {Head(l)}
    <2>1. ASSUME NEW x \in ToSet(Tail(l)) PROVE x \in ToSet(l) \ {Head(l)}
      <3>1. PICK i \in 1..(Len(l) - 1) : x = l[i + 1] BY <1>2 DEF ToSet
      <3>2. i + 1 \in DOMAIN l /\ i + 1 # 1 BY <1>1, <3>1
      <3>. QED BY <1>1, <3>1, <3>2 DEF ToSet
    <2>2. ASSUME NEW x \in ToSet(l) \ {Head(l)} PROVE x \in ToSet(Tail(l))
      <3>1. PICK i \in DOMAIN l : x = l[i] BY DEF ToSet
      <3>2. i # 1 BY <1>1, <3>1
      <3>3. i - 1 \in 1..(Len(l) - 1) /\ (i - 1) + 1 = i BY <1>1, <3>2
      <3>4. Tail(l)[i - 1] = x BY <1>2, <3>1, <3>3
      <3>. QED BY <1>2, <3>3, <3>4 DEF ToSet
    <2>. QED BY <2>1, <2>2
  <1>4. \A i, k \in DOMAIN Tail(l) : i # k => Tail(l)[i] # Tail(l)[k]
    BY <1>1, <1>2
  <1>. QED BY <1>1, <1>2, <1>3, <1>4 DEF IsListing

-----------------------------------------------------------------------------
(* Readiness.                                                              *)

LEMMA MinOfJobs ==
  ASSUME NEW T \in SUBSET Jobs, T # {}
  PROVE  Min(T) \in T
  <1>1. T \subseteq Nat BY JobsAssumption
  <1>2. PICK m \in T : \A y \in T : ~ (<<y, m>> \in OpToRel(<, Nat))
    BY <1>1, NatLessThanWellFounded, WFMin
  <1>3. ASSUME NEW y \in T PROVE m <= y
    <2>1. m \in Nat /\ y \in Nat BY <1>1
    <2>2. y < m => <<y, m>> \in OpToRel(<, Nat) BY <2>1 DEF OpToRel
    <2>3. ~ (y < m) BY <1>2, <2>2, Zenon
    <2>. QED BY <2>1, <2>3
  <1>. QED BY <1>3 DEF Min

(* The relations of a plan are between its jobs.                           *)
LEMMA PlanRelations ==
  ASSUME WellFormed(plan), NEW j \in Jobs
  PROVE  /\ plan.depends[j] \in SUBSET Jobs /\ plan.after[j] \in SUBSET Jobs
         /\ plan.salvages[j] \in SUBSET Jobs /\ plan.requires[j] \in SUBSET Jobs
         /\ plan.requires[j] \subseteq plan.resource
  BY DEF WellFormed, PlanType, Relations

LEMMA ReadinessType ==
  ASSUME WellFormed(plan), NEW j \in Jobs, NEW out, NEW res
  PROVE  get_inhibitor_list(j, out, res) \in SUBSET Inhibitors
  <1>. DEFINE missing == {r \in plan.requires[j] : res[r] = "absent"}
  <1>1. ResourceInhibitors(j, out, res) \in SUBSET Inhibitors
    <2>1. CASE missing # {}
      <3>1. Min(missing) \in Jobs BY PlanRelations, MinOfJobs, <2>1
      <3>. QED BY <2>1, <3>1 DEF ResourceInhibitors, Inhibitors, Causes
    <2>2. CASE missing = {}
      <3>1. ASSUME NEW x \in ResourceInhibitors(j, out, res) PROVE x \in Inhibitors
        <4>1. PICK r \in plan.requires[j] : x = <<"FAILED_RESOURCE", r>>
          BY <2>2, <3>1 DEF ResourceInhibitors
        <4>. QED BY <4>1, PlanRelations DEF Inhibitors, Causes
      <3>. QED BY <3>1
    <2>. QED BY <2>1, <2>2
  <1>. QED BY PlanRelations, <1>1 DEF get_inhibitor_list, Inhibitors, Causes

(* A job without inhibitors has all it needs ...                           *)
LEMMA ReadinessSound ==
  ASSUME WellFormed(plan), NEW j \in Jobs, NEW out,
         NEW res \in [Jobs -> {"absent", "match", "nomatch"}],
         \A r \in plan.resource : out[r] = "pass" => res[r] # "absent",
         get_inhibitor_list(j, out, res) = {}
  PROVE  /\ \A d \in plan.depends[j] : out[d] = "pass"
         /\ \A r \in plan.requires[j] : res[r] = "match"
  <1>1. ASSUME NEW d \in plan.depends[j] PROVE out[d] = "pass"
    <2>1. CASE out[d] = "none"
      <3>1. <<"PENDING_DEP", d>> \in get_inhibitor_list(j, out, res)
        BY <2>1 DEF get_inhibitor_list
      <3>. QED BY <3>1
    <2>2. CASE out[d] \notin {"none", "pass"}
      <3>1. <<"FAILED_DEP", d>> \in get_inhibitor_list(j, out, res)
        BY <2>2 DEF get_inhibitor_list
      <3>. QED BY <3>1
    <2>. QED BY <2>1, <2>2
  <1>2. ASSUME NEW r \in plan.requires[j] PROVE res[r] = "match"
    <2>. DEFINE missing == {q \in plan.requires[j] : res[q] = "absent"}
                failed == {q \in plan.requires[j] : res[q] = "nomatch"}
    <2>1. ResourceInhibitors(j, out, res) = {} BY DEF get_inhibitor_list
    <2>2. missing = {}
      <3>1. SUFFICES ASSUME missing # {} PROVE FALSE OBVIOUS
      <3>2. Min(missing) \in missing BY PlanRelations, MinOfJobs, <3>1
      <3>3. out[Min(missing)] # "pass" BY <3>2, PlanRelations
      <3>4. <<"PENDING_RESOURCE", Min(missing)>> \in ResourceInhibitors(j, out, res)
        BY <3>1, <3>3 DEF ResourceInhibitors
      <3>. QED BY <3>4, <2>1
    <2>3. failed = {}
      <3>1. SUFFICES ASSUME failed # {} PROVE FALSE OBVIOUS
      <3>2. Min(failed) \in failed BY PlanRelations, MinOfJobs, <3>1
      <3>3. <<"FAILED_RESOURCE", Min(failed)>> \in ResourceInhibitors(j, out, res)
        BY <3>2, <2>2 DEF ResourceInhibitors
      <3>. QED BY <3>3, <2>1
    <2>. QED BY PlanRelations, <2>2, <2>3
  <1>. QED BY <1>1, <1>2

(* ... and a dependency it is inhibited by as failed has not passed.       *)
LEMMA FailedDepSound ==
  ASSUME NEW j \in Jobs, NEW d \in Jobs, NEW out, NEW res,
         <<"FAILED_DEP", d>> \in get_inhibitor_list(j, out, res)
  PROVE  out[d] # "pass"
  <1>1. <<"FAILED_DEP", d>> \notin ResourceInhibitors(j, out, res)
    BY DEF ResourceInhibitors
  <1>. QED BY <1>1 DEF get_inhibitor_list

(* What the three parts of Inv about readiness say of the values given.    *)
ReadinessRight(list, out, res, inh) ==
  /\ inh \in [Jobs -> SUBSET Inhibitors]
  /\ \A j \in Jobs : inh[j] = {} =>
       /\ \A d \in plan.depends[j] : out[d] = "pass"
       /\ \A r \in plan.requires[j] : res[r] = "match"
  /\ \A j, d \in Jobs : <<"FAILED_DEP", d>> \in inh[j] => out[d] # "pass"
  /\ \A j \in Jobs : j \notin ToSet(list) => inh[j] = {Undesired}

LEMMA Recomputed ==
  ASSUME WellFormed(plan), NEW list, NEW out,
         NEW res \in [Jobs -> {"absent", "match", "nomatch"}],
         \A r \in plan.resource : out[r] = "pass" => res[r] # "absent"
  PROVE  ReadinessRight(list, out, res, recompute_job_readiness(list, out, res))
  <1>. DEFINE inh == recompute_job_readiness(list, out, res)
  <1>1. \A j \in Jobs : inh[j] = IF j \in ToSet(list) THEN get_inhibitor_list(j, out, res)
                                                      ELSE {Undesired}
    BY DEF recompute_job_readiness
  <1>2. \A j \in Jobs : inh[j] \in SUBSET Inhibitors
    BY <1>1, ReadinessType DEF Inhibitors
  <1>3. inh \in [Jobs -> SUBSET Inhibitors] BY <1>2 DEF recompute_job_readiness
  <1>4. ASSUME NEW j \in Jobs, inh[j] = {}
        PROVE  /\ \A d \in plan.depends[j] : out[d] = "pass"
               /\ \A r \in plan.requires[j] : res[r] = "match"
    <2>1. get_inhibitor_list(j, out, res) = {} BY <1>1, <1>4
    <2>. QED BY <2>1, ReadinessSound
  <1>5. ASSUME NEW j \in Jobs, NEW d \in Jobs, <<"FAILED_DEP", d>> \in inh[j]
        PROVE  out[d] # "pass"
    <2>1. <<"FAILED_DEP", d>> \in get_inhibitor_list(j, out, res)
      BY <1>1, <1>5 DEF Undesired
    <2>. QED BY <2>1, FailedDepSound
  <1>. QED BY <1>1, <1>3, <1>4, <1>5 DEF ReadinessRight

-----------------------------------------------------------------------------
(* What the operations of the session do to its part of the invariant.    *)

LEMMA SelectKeeps ==
  ASSUME SessionInv, pending = NoRun, pending' = NoRun, NEW desired,
         update_desired_job_list(desired), attempts' \in [Jobs -> Int],
         UNCHANGED <<plan, config, outcome, resource_map, runs, verdict>>
  PROVE  SessionInv' /\ IsListing(Closure(desired), run_list')
  <1>1. IsListing(Closure(desired), run_list')
    BY RunListsType DEF update_desired_job_list
  <1>2. ReadinessRight(run_list', outcome, resource_map, inhibitors')
    BY Recomputed DEF SessionInv, SessionTypeOK, PassedResourceStored, update_desired_job_list
  <1>3. SessionTypeOK'
    BY <1>1, <1>2 DEF SessionInv, SessionTypeOK, IsListing, ReadinessRight, WellFormed, Pending
  <1>4. ReadyMeansMet' /\ FailedDepHasNotPassed' /\ OthersUndesired'
    BY <1>2 DEF ReadinessRight, ReadyMeansMet, FailedDepHasNotPassed, OthersUndesired
  <1>5. PassedResourceStored' /\ StartedIsReady'
    BY DEF SessionInv, PassedResourceStored, StartedIsReady, NoRun
  <1>. QED BY <1>1, <1>3, <1>4, <1>5 DEF SessionInv

LEMMA RunKeeps ==
  ASSUME SessionInv, NEW j \in Jobs, run_job(j)
  PROVE  SessionInv'
  <1>1. pending' = [job |-> j, outcome |-> IF can_start(j) THEN "undecided"
                                                         ELSE CannotStartOutcome(j)]
    BY DEF run_job
  <1>2. CannotStartOutcome(j) \in Outcomes \ {"undecided"}
    BY DEF CannotStartOutcome, Outcomes
  <1>3. pending' \in Pending BY <1>1, <1>2 DEF Pending, Outcomes
  <1>4. runs' \in [Jobs -> Nat]
    <2>1. runs' = [runs EXCEPT ![j] = @ + 1] \/ runs' = runs BY DEF run_job
    <2>2. runs \in [Jobs -> Nat] BY DEF SessionInv, SessionTypeOK
    <2>. QED BY <2>1, <2>2
  <1>5. SessionTypeOK'
    BY <1>3, <1>4 DEF SessionInv, SessionTypeOK, WellFormed, run_job
  <1>6. StartedIsReady'
    BY <1>1, <1>2 DEF StartedIsReady, can_start, run_job
  <1>7. /\ ReadyMeansMet' /\ FailedDepHasNotPassed' /\ OthersUndesired'
        /\ PassedResourceStored'
    BY DEF SessionInv, run_job, ReadyMeansMet, FailedDepHasNotPassed,
           OthersUndesired, PassedResourceStored
  <1>. QED BY <1>5, <1>6, <1>7 DEF SessionInv

LEMMA UseKeeps ==
  ASSUME SessionInv, NEW j \in Jobs, NEW o \in Outcomes,
         NEW records \in {"absent", "match", "nomatch"},
         (j \in plan.resource /\ o = "pass") => records # "absent",
         use_job_result(j, o, records)
  PROVE  SessionInv'
  <1>1. outcome' = [outcome EXCEPT ![j] = o] /\ outcome' \in [Jobs -> Outcomes]
    BY DEF SessionInv, SessionTypeOK, use_job_result, update_job_result
  <1>2. /\ resource_map' \in [Jobs -> {"absent", "match", "nomatch"}]
        /\ \A r \in plan.resource : r \in Jobs
        /\ \A r \in plan.resource : outcome'[r] = "pass" => resource_map'[r] # "absent"
    <2>1. plan.resource \subseteq Jobs
      BY DEF SessionInv, SessionTypeOK, WellFormed, PlanType
    <2>2. resource_map' = IF j \in plan.resource THEN [resource_map EXCEPT ![j] = records]
                                                 ELSE resource_map
      BY DEF use_job_result, update_job_result
    <2>3. resource_map \in [Jobs -> {"absent", "match", "nomatch"}]
          /\ outcome \in [Jobs -> Outcomes]
      BY DEF SessionInv, SessionTypeOK
    <2>4. \A r \in plan.resource : outcome[r] = "pass" => resource_map[r] # "absent"
      BY DEF SessionInv, PassedResourceStored
    <2>. QED BY <1>1, <2>1, <2>2, <2>3, <2>4
  <1>3. ReadinessRight(run_list, outcome', resource_map', inhibitors')
    <2>1. WellFormed(plan) BY DEF SessionInv, SessionTypeOK
    <2>2. inhibitors' = recompute_job_readiness(run_list, outcome', resource_map')
      BY DEF use_job_result, update_job_result
    <2>. QED BY <1>2, <2>1, <2>2, Recomputed
  <1>4. attempts' \in [Jobs -> Int]
    BY DEF SessionInv, SessionTypeOK, use_job_result, SpendAttempt
  <1>5. verdict' \in [Jobs -> Outcomes] /\ pending' \in Pending
    BY DEF SessionInv, SessionTypeOK, use_job_result, Pending
  <1>6. UNCHANGED <<plan, config, run_list, runs>> BY DEF use_job_result
  <1>7. SessionTypeOK'
    BY <1>1, <1>2, <1>3, <1>4, <1>5, <1>6
       DEF SessionInv, SessionTypeOK, ReadinessRight, WellFormed
  <1>8. ReadyMeansMet' /\ FailedDepHasNotPassed' /\ OthersUndesired'
    BY <1>3, <1>6 DEF ReadinessRight, ReadyMeansMet, FailedDepHasNotPassed, OthersUndesired
  <1>9. PassedResourceStored' BY <1>2, <1>6 DEF PassedResourceStored
  <1>10. StartedIsReady' BY DEF StartedIsReady, use_job_result, NoRun
  <1>. QED BY <1>7, <1>8, <1>9, <1>10 DEF SessionInv

(* A rearmed job had not passed: it was a candidate, or it inhibited one   *)
(* as a failed dependency.                                                 *)
LEMMA RearmKeeps ==
  ASSUME SessionInv, pending = NoRun, NEW candidates,
         ToSet(candidates) \in SUBSET Jobs,
         \A c \in ToSet(candidates) : outcome[c] # "pass",
         NEW rearmed, prepare_rerun_candidates(candidates, rearmed)
  PROVE  /\ SessionInv'
         /\ \A j \in Jobs : outcome[j] = "pass" => outcome'[j] = "pass"
         /\ rearmed \in Seq(Jobs)
         /\ \A i, k \in DOMAIN rearmed : i # k => rearmed[i] # rearmed[k]
         /\ \A i \in DOMAIN rearmed : outcome'[rearmed[i]] = "none"
  <1>1. IsListing(ToSet(candidates) \cup FailedDepsOf(ToSet(candidates)), rearmed)
    BY RearmedListsType DEF prepare_rerun_candidates
  <1>2. outcome' = [j \in Jobs |-> IF j \in ToSet(rearmed) THEN "none" ELSE outcome[j]]
    BY DEF prepare_rerun_candidates
  <1>3. \A j \in ToSet(rearmed) : j \in Jobs /\ outcome[j] # "pass"
    <2>1. \A j \in FailedDepsOf(ToSet(candidates)) : j \in Jobs /\ outcome[j] # "pass"
      BY DEF SessionInv, FailedDepHasNotPassed, FailedDepsOf
    <2>. QED BY <1>1, <2>1 DEF IsListing
  <1>4. \A j \in Jobs : outcome[j] = "pass" => outcome'[j] = "pass" BY <1>2, <1>3
  <1>5. \A j \in Jobs : outcome'[j] = "pass" => outcome[j] = "pass" BY <1>2
  <1>6. UNCHANGED <<plan, config, run_list, inhibitors, attempts, resource_map,
                    pending, runs, verdict>>
    BY DEF prepare_rerun_candidates
  <1>7. SessionTypeOK'
    <2>1. outcome' \in [Jobs -> Outcomes]
      BY <1>2 DEF SessionInv, SessionTypeOK, Outcomes
    <2>. QED BY <1>6, <2>1 DEF SessionInv, SessionTypeOK, WellFormed
  <1>8. ReadyMeansMet'
    <2>1. \A j \in Jobs : plan.depends[j] \in SUBSET Jobs
      BY PlanRelations DEF SessionInv, SessionTypeOK
    <2>. QED BY <1>4, <1>6, <2>1 DEF SessionInv, ReadyMeansMet
  <1>9. FailedDepHasNotPassed' BY <1>5, <1>6 DEF SessionInv, FailedDepHasNotPassed
  <1>10. OthersUndesired' BY <1>6 DEF SessionInv, OthersUndesired
  <1>11. PassedResourceStored'
    <2>1. plan.resource \subseteq Jobs
      BY DEF SessionInv, SessionTypeOK, WellFormed, PlanType
    <2>. QED BY <1>5, <1>6, <2>1 DEF SessionInv, PassedResourceStored
  <1>12. StartedIsReady' BY <1>6 DEF StartedIsReady, NoRun
  <1>13. SessionInv' BY <1>7, <1>8, <1>9, <1>10, <1>11, <1>12 DEF SessionInv
  <1>14. \A i \in DOMAIN rearmed : outcome'[rearmed[i]] = "none"
    BY <1>2, <1>3 DEF ToSet
  <1>. QED BY <1>1, <1>4, <1>13, <1>14 DEF IsListing

-----------------------------------------------------------------------------
(* The initial states, and each action of the driver.                      *)

LEMMA InitKeeps == Init => Inv
  <1>. SUFFICES ASSUME Init PROVE Inv OBVIOUS
  <1>0. WellFormed(plan) /\ config \in ConfigType
    BY PlansAssumption DEF Init
  <1>1. IsListing(Closure(plan.bootstrap), run_list) BY RunListsType DEF Init
  <1>2. resource_map \in [Jobs -> {"absent", "match", "nomatch"}] /\ plan.resource \subseteq Jobs
    BY <1>0 DEF Init, WellFormed, PlanType
  <1>3. \A j \in Jobs : outcome[j] = "none" BY DEF Init
  <1>4. ReadinessRight(run_list, outcome, resource_map, inhibitors)
    <2>1. \A r \in plan.resource : outcome[r] = "pass" => resource_map[r] # "absent"
      BY <1>2, <1>3
    <2>. QED BY <1>0, <1>2, <2>1, Recomputed DEF Init
  <1>5. SessionTypeOK
    <2>1. /\ outcome \in [Jobs -> Outcomes] /\ verdict \in [Jobs -> Outcomes]
          /\ attempts \in [Jobs -> Int] /\ runs \in [Jobs -> Nat] /\ pending \in Pending
      BY DEF Init, Outcomes, DefaultAttempts, Pending
    <2>. QED BY <1>0, <1>1, <1>2, <1>4, <2>1 DEF SessionTypeOK, IsListing, ReadinessRight
  <1>6. SessionInv
    <2>1. PassedResourceStored BY <1>2, <1>3 DEF PassedResourceStored
    <2>2. StartedIsReady BY DEF Init, StartedIsReady, NoRun
    <2>. QED BY <1>4, <1>5, <2>1, <2>2
         DEF SessionInv, ReadinessRight, ReadyMeansMet, FailedDepHasNotPassed, OthersUndesired
  <1>7. TypeOK
    BY <1>5, DriverAssumption, <1>1 DEF TypeOK, Init, Phases, IsListing
  <1>8. SelectingIsIdle BY DEF SelectingIsIdle, Init
  <1>9. TodoNotPassed
    <2>1. \A i \in DOMAIN todo : todo[i] \in Jobs BY <1>1 DEF IsListing, Init
    <2>. QED BY <1>1, <1>3, <2>1 DEF TodoNotPassed, IsListing, Init
  <1>10. SpentWithinBudget
    BY <1>1 DEF SpentWithinBudget, Init, IsListing, Bootstrapped
  <1>. QED BY <1>6, <1>7, <1>8, <1>9, <1>10 DEF Inv

LEMMA PlanConstant ==
  ASSUME plan' = plan
  PROVE  /\ Bootstrapped' = Bootstrapped
         /\ Closure(plan.include)' = Closure(plan.include)
  BY DEF Bootstrapped, Closure, get_dependency_set

LEMMA FinishBootstrapKeeps == Inv /\ finish_bootstrap => Inv'
  <1>. SUFFICES ASSUME Inv, finish_bootstrap PROVE Inv' OBVIOUS
  <1>1. attempts' \in [Jobs -> Int]
    BY AttemptsAssumption DEF Inv, SessionInv, SessionTypeOK, finish_bootstrap
  <1>2. SessionInv' /\ IsListing(Closure(plan.include), run_list')
    BY <1>1, SelectKeeps DEF Inv, finish_bootstrap, Idle
  <1>3. TypeOK' BY <1>2 DEF Inv, TypeOK, SessionInv, finish_bootstrap, Phases
  <1>4. SelectingIsIdle' BY DEF SelectingIsIdle, finish_bootstrap, Idle
  <1>5. TodoNotPassed' BY DEF Inv, TodoNotPassed, finish_bootstrap
  <1>6. SpentWithinBudget'
    <2>. SUFFICES ASSUME config.autoRetry PROVE SpentWithinBudget'
      BY DEF SpentWithinBudget, finish_bootstrap
    <2>1. \A j \in Jobs \ Bootstrapped : runs[j] = 0 /\ outcome[j] = "none"
      BY DEF Inv, SpentWithinBudget, finish_bootstrap
    <2>2. ToSet(run_list') = Closure(plan.include) /\ ToSet(run_list') \subseteq Jobs
      BY <1>2, ClosureType DEF IsListing
    <2>3. config.remote => \A j \in ToSet(run_list') : attempts'[j] = MaxAttempts
      BY <2>2 DEF finish_bootstrap
    <2>4. ToSet(run_list)' = Closure(plan.include)' BY <2>2, PlanConstant DEF finish_bootstrap, ToSet
    <2>. QED BY <2>1, <2>2, <2>3, <2>4, PlanConstant DEF SpentWithinBudget, finish_bootstrap
  <1>. QED BY <1>2, <1>3, <1>4, <1>5, <1>6 DEF Inv

LEMMA SelectionKeeps ==
  ASSUME Inv, NEW selection \in SUBSET ToSet(run_list), use_alternate_selection(selection)
  PROVE  Inv'
  <1>1. attempts' \in [Jobs -> Int]
    BY AttemptsAssumption DEF Inv, SessionInv, SessionTypeOK, use_alternate_selection
  <1>2. pending = NoRun /\ pending' = NoRun
    BY DEF Inv, SelectingIsIdle, Idle, use_alternate_selection
  <1>3. SessionInv' /\ IsListing(Closure(selection), run_list')
    BY <1>1, <1>2, SelectKeeps DEF Inv, use_alternate_selection
  <1>4. ToSet(run_list') = Closure(selection) /\ ToSet(run_list') \in SUBSET Jobs
    BY <1>3, ClosureType DEF IsListing
  <1>5. IsListing({j \in ToSet(run_list') : outcome[j] = "none"}, todo')
    BY <1>4, TodoListsType DEF use_alternate_selection
  <1>6. TypeOK'
    BY <1>3, <1>5 DEF Inv, TypeOK, SessionInv, use_alternate_selection, Phases, IsListing
  <1>7. SelectingIsIdle' BY DEF SelectingIsIdle, use_alternate_selection
  <1>8. TodoNotPassed'
    BY <1>5 DEF TodoNotPassed, use_alternate_selection, IsListing, ToSet
  <1>9. SpentWithinBudget'
    <2>. SUFFICES ASSUME config.autoRetry PROVE SpentWithinBudget'
      BY DEF SpentWithinBudget, use_alternate_selection
    <2>1. /\ \A j \in Jobs \ Bootstrapped : runs[j] = 0 /\ outcome[j] = "none"
          /\ ToSet(run_list) = Closure(plan.include)
          /\ config.remote => \A j \in ToSet(run_list) : attempts[j] = MaxAttempts
      BY DEF Inv, SpentWithinBudget, use_alternate_selection
    <2>2. ToSet(run_list') \subseteq ToSet(run_list) BY <1>4, <2>1, ClosureIdempotent
    <2>3. ASSUME NEW j \in Jobs \ Bootstrapped, j \in ToSet(run_list')
          PROVE  attempts'[j] = MaxAttempts
      <3>1. j \in ToSet(todo') BY <1>5, <2>1, <2>3 DEF IsListing
      <3>. QED BY <2>1, <2>2, <2>3, <3>1 DEF use_alternate_selection
    <2>4. ASSUME NEW j \in Jobs \ Bootstrapped
          PROVE  (/\ runs[j] <= MaxAttempts
                  /\ j \in ToSet(run_list) =>
                       runs[j] + attempts[j] <= MaxAttempts + (IF Started(j) THEN 1 ELSE 0)
                  /\ Started(j) => attempts[j] > 0)'
      <3>1. runs'[j] = 0 BY <2>1 DEF use_alternate_selection
      <3>2. ~ Started(j)' BY <1>2 DEF Started, NoRun
      <3>. QED BY <2>3, <3>1, <3>2, AttemptsAssumption DEF ToSet
    <2>5. phase' = "main" BY DEF use_alternate_selection
    <2>. QED BY <2>4, <2>5, PlanConstant DEF SpentWithinBudget, use_alternate_selection
  <1>. QED BY <1>3, <1>6, <1>7, <1>8, <1>9 DEF Inv

(* What SpentWithinBudget says of a job during the passes.                 *)
Budgeted(j) ==
  /\ runs[j] <= MaxAttempts
  /\ j \in ToSet(run_list) =>
       runs[j] + attempts[j] <= MaxAttempts + (IF Started(j) THEN 1 ELSE 0)
  /\ Started(j) => attempts[j] > 0

LEMMA StartJobKeeps == Inv /\ StartJob => Inv'
  <1>. SUFFICES ASSUME Inv, StartJob PROVE Inv' OBVIOUS
  <1>. DEFINE h == Head(todo)
  <1>1. h \in Jobs /\ h \in ToSet(todo)
    BY DEF Inv, TypeOK, StartJob, ToSet
  <1>2. SessionInv' BY <1>1, RunKeeps DEF Inv, StartJob
  <1>3. UNCHANGED <<phase, todo, rounds, reruns>> BY DEF StartJob, driverVars
  <1>4. UNCHANGED <<plan, config, run_list, outcome, inhibitors, attempts>>
    BY DEF StartJob, run_job
  <1>5. TypeOK' BY <1>2, <1>3 DEF Inv, TypeOK, SessionInv
  <1>6. SelectingIsIdle' BY <1>3 DEF SelectingIsIdle, StartJob
  <1>7. TodoNotPassed' BY <1>3, <1>4 DEF Inv, TodoNotPassed
  <1>8. SpentWithinBudget'
    <2>. SUFFICES ASSUME config.autoRetry PROVE SpentWithinBudget'
      BY <1>4 DEF SpentWithinBudget
    <2>1. CASE phase = "bootstrap"
      <3>1. h \in Bootstrapped BY <1>1, <2>1 DEF Inv, SpentWithinBudget
      <3>2. \A j \in Jobs \ Bootstrapped : runs'[j] = runs[j]
        BY <3>1 DEF StartJob, run_job, Inv, TypeOK, SessionTypeOK
      <3>. QED BY <1>3, <1>4, <2>1, <3>2, PlanConstant
           DEF Inv, SpentWithinBudget, ToSet
    <2>2. CASE phase # "bootstrap"
      <3>1. phase \notin {"bootstrap", "selecting"} BY <2>2 DEF StartJob
      <3>2. ASSUME NEW j \in Jobs \ Bootstrapped PROVE Budgeted(j)'
        <4>1. Budgeted(j) BY <2>2, <3>1 DEF Inv, SpentWithinBudget, Budgeted
        <4>2. ~ Started(j) BY DEF StartJob, run_job, Started, NoRun
        <4>3. runs \in [Jobs -> Nat] /\ attempts \in [Jobs -> Int]
          BY DEF Inv, SessionInv, SessionTypeOK
        <4>4. CASE j = h /\ can_start(h)
          <5>1. j \in ToSet(run_list) /\ attempts[j] > 0
            BY <4>4 DEF can_start, Inv, SessionInv, OthersUndesired
          <5>2. runs'[j] = runs[j] + 1 /\ Started(j)'
            BY <4>3, <4>4 DEF StartJob, run_job, Started
          <5>. QED BY <1>4, <4>1, <4>2, <4>3, <5>1, <5>2, AttemptsAssumption
               DEF Budgeted, ToSet
        <4>5. CASE ~ (j = h /\ can_start(h))
          <5>1. runs'[j] = runs[j]
            BY <4>3, <4>5 DEF StartJob, run_job
          <5>2. CannotStartOutcome(h) # "undecided" BY DEF CannotStartOutcome
          <5>3. ~ Started(j)'
            BY <4>5, <5>2 DEF StartJob, run_job, Started
          <5>. QED BY <1>4, <4>1, <4>2, <5>1, <5>3 DEF Budgeted, ToSet
        <4>. QED BY <4>4, <4>5
      <3>. QED BY <1>3, <1>4, <3>1, <3>2, PlanConstant DEF SpentWithinBudget, Budgeted
    <2>. QED BY <2>1, <2>2
  <1>. QED BY <1>2, <1>5, <1>6, <1>7, <1>8 DEF Inv

(* A result for the job at hand, whether it ran, was skipped or could not  *)
(* start: the driver goes on to the rest of the list, or stays.            *)
LEMMA UseResultKeeps ==
  ASSUME Inv, todo # <<>>, NEW o \in Outcomes,
         NEW records \in {"absent", "match", "nomatch"},
         (Head(todo) \in plan.resource /\ o = "pass") => records # "absent",
         use_job_result(Head(todo), o, records),
         pending # NoRun => pending.job = Head(todo),
         \/ todo' = Tail(todo)
         \/ todo' = todo /\ o # "pass",
         phase' = phase, rounds' = rounds, reruns' \in 0..UserReruns
  PROVE  Inv'
  <1>. DEFINE h == Head(todo)
  <1>1. todo \in Seq(Jobs) /\ \A i, k \in DOMAIN todo : i # k => todo[i] # todo[k]
    BY DEF Inv, TypeOK, TodoNotPassed
  <1>2. /\ h \in Jobs /\ h \in ToSet(todo)
        /\ IsListing(ToSet(todo) \ {h}, Tail(todo))
        /\ \A i \in DOMAIN Tail(todo) : i + 1 \in DOMAIN todo /\ Tail(todo)[i] = todo[i + 1]
    BY <1>1, RestOfList DEF ToSet
  <1>3. SessionInv' BY <1>2, UseKeeps DEF Inv
  <1>4. todo' \in Seq(Jobs) /\ ToSet(todo') \subseteq ToSet(todo)
        /\ \A i, k \in DOMAIN todo' : i # k => todo'[i] # todo'[k]
    BY <1>1, <1>2 DEF IsListing
  <1>5. TypeOK' BY <1>3, <1>4 DEF Inv, TypeOK, SessionInv
  <1>6. SelectingIsIdle' BY DEF Inv, SelectingIsIdle, Idle
  <1>7. outcome' = [outcome EXCEPT ![h] = o] /\ outcome \in [Jobs -> Outcomes]
    BY DEF Inv, SessionInv, SessionTypeOK, use_job_result, update_job_result
  <1>8. TodoNotPassed'
    <2>1. \A x \in ToSet(todo') : x \in Jobs /\ outcome'[x] # "pass"
      <3>1. \A x \in ToSet(todo) : x \in Jobs /\ outcome[x] # "pass"
        BY <1>1 DEF Inv, TodoNotPassed, ToSet
      <3>2. CASE todo' = Tail(todo) BY <1>2, <1>7, <3>1, <3>2 DEF IsListing
      <3>3. CASE todo' = todo /\ o # "pass" BY <1>7, <3>1, <3>3
      <3>. QED BY <3>2, <3>3
    <2>. QED BY <1>4, <2>1 DEF TodoNotPassed, ToSet
  <1>9. SpentWithinBudget'
    <2>. SUFFICES ASSUME config.autoRetry PROVE SpentWithinBudget'
      BY DEF SpentWithinBudget, use_job_result
    <2>0. UNCHANGED <<plan, config, run_list, runs>> BY DEF use_job_result
    <2>1. CASE phase = "bootstrap"
      <3>1. ToSet(todo) \subseteq Bootstrapped
            /\ \A j \in Jobs \ Bootstrapped : runs[j] = 0 /\ outcome[j] = "none"
        BY <2>1 DEF Inv, SpentWithinBudget
      <3>2. \A j \in Jobs \ Bootstrapped : outcome'[j] = outcome[j]
        BY <1>2, <1>7, <3>1
      <3>3. ToSet(todo') \subseteq Bootstrapped BY <1>4, <3>1
      <3>4. ToSet(todo)' \subseteq Bootstrapped BY <3>3 DEF ToSet
      <3>. QED BY <2>0, <2>1, <3>1, <3>2, <3>4, PlanConstant DEF SpentWithinBudget
    <2>2. CASE phase # "bootstrap"
      <3>1. phase \notin {"bootstrap", "selecting"}
        BY <2>2 DEF Inv, SelectingIsIdle, Idle
      <3>2. ASSUME NEW j \in Jobs \ Bootstrapped PROVE Budgeted(j)'
        <4>1. Budgeted(j) BY <2>2, <3>1 DEF Inv, SpentWithinBudget, Budgeted
        <4>2. ~ Started(j)' BY DEF use_job_result, Started, NoRun
        <4>3. runs \in [Jobs -> Nat] /\ attempts \in [Jobs -> Int]
          BY DEF Inv, SessionInv, SessionTypeOK
        <4>4. /\ attempts' \in [Jobs -> Int]
              /\ attempts'[j] <= attempts[j]
              /\ (j = h /\ attempts[j] > 0) => attempts'[j] = attempts[j] - 1
          BY <1>2, <4>3, AttemptsAssumption DEF use_job_result, SpendAttempt
        <4>5. Started(j) => j = h BY DEF Started, NoRun
        <4>. QED BY <2>0, <4>1, <4>2, <4>3, <4>4, <4>5, AttemptsAssumption
             DEF Budgeted, ToSet
      <3>. QED BY <2>0, <3>1, <3>2, PlanConstant DEF SpentWithinBudget, Budgeted
    <2>. QED BY <2>1, <2>2
  <1>. QED BY <1>3, <1>5, <1>6, <1>8, <1>9 DEF Inv

LEMMA SkipJobKeeps == Inv /\ SkipJob => Inv'
  <1>. SUFFICES ASSUME Inv, SkipJob PROVE Inv' OBVIOUS
  <1>1. reruns' \in 0..UserReruns BY DEF Inv, TypeOK, SkipJob
  <1>. QED BY <1>1, UseResultKeeps DEF SkipJob, Outcomes

LEMMA RerunJobKeeps == Inv /\ RerunJob => Inv'
  <1>. SUFFICES ASSUME Inv, RerunJob PROVE Inv' OBVIOUS
  <1>1. reruns' \in 0..UserReruns BY DriverAssumption DEF Inv, TypeOK, RerunJob
  <1>. QED BY <1>1, UseResultKeeps DEF RerunJob, Outcomes

(* The outcomes and records a job that was started can leave.              *)
LEMMA CompletedHow ==
  ASSUME Inv, CompleteJob
  PROVE  \E o \in Outcomes, records \in {"absent", "match", "nomatch"} :
           /\ (Head(todo) \in plan.resource /\ o = "pass") => records # "absent"
           /\ use_job_result(Head(todo), o, records)
  <1>1. CASE pending.outcome = "undecided"
    <2>1. PICK o \in EndsIn(Head(todo)), r \in Records(Head(todo)) :
            use_job_result(Head(todo), o, r)
      BY <1>1 DEF CompleteJob
    <2>2. o \in Outcomes BY DriverAssumption DEF EndsIn, Outcomes
    <2>3. r \in {"absent", "match", "nomatch"}
          /\ (Head(todo) \in plan.resource => r # "absent")
      BY DEF Records
    <2>. QED BY <2>1, <2>2, <2>3
  <1>2. CASE pending.outcome # "undecided"
    <2>1. use_job_result(Head(todo), pending.outcome, "nomatch")
      BY <1>2 DEF CompleteJob
    <2>2. pending.outcome \in Outcomes
      BY DEF CompleteJob, Inv, SessionInv, SessionTypeOK, Pending
    <2>. QED BY <2>1, <2>2
  <1>. QED BY <1>1, <1>2

LEMMA CompleteJobKeeps == Inv /\ CompleteJob => Inv'
  <1>. SUFFICES ASSUME Inv, CompleteJob PROVE Inv' OBVIOUS
  <1>1. reruns' \in 0..UserReruns BY DEF Inv, TypeOK, CompleteJob
  <1>2. PICK o \in Outcomes, records \in {"absent", "match", "nomatch"} :
          /\ (Head(todo) \in plan.resource /\ o = "pass") => records # "absent"
          /\ use_job_result(Head(todo), o, records)
    BY CompletedHow
  <1>. QED BY <1>1, <1>2, UseResultKeeps DEF CompleteJob

LEMMA FinishKeeps == Inv /\ (FinishMain \/ FinishManual \/ FinishAuto) => Inv'
  <1>. SUFFICES ASSUME Inv, FinishMain \/ FinishManual \/ FinishAuto PROVE Inv'
    OBVIOUS
  <1>1. /\ phase \notin {"bootstrap", "selecting"}
        /\ phase' \in {"manual", "auto", "done"}
        /\ UNCHANGED <<plan, config, run_list, outcome, inhibitors, attempts,
                       resource_map, pending, runs, verdict, todo, rounds, reruns>>
    BY DEF FinishMain, FinishManual, FinishAuto, AfterMain, AfterManual
  <1>2. SessionInv'
    BY <1>1 DEF Inv, SessionInv, SessionTypeOK, WellFormed, ReadyMeansMet,
       FailedDepHasNotPassed, OthersUndesired, PassedResourceStored, StartedIsReady
  <1>3. TypeOK' BY <1>1, <1>2 DEF Inv, TypeOK, SessionInv, Phases
  <1>4. SelectingIsIdle' /\ TodoNotPassed'
    BY <1>1 DEF Inv, SelectingIsIdle, TodoNotPassed
  <1>5. SpentWithinBudget'
    <2>1. config.autoRetry => \A j \in Jobs \ Bootstrapped : Budgeted(j)
      BY <1>1 DEF Inv, SpentWithinBudget, Budgeted
    <2>2. \A j \in Jobs : Budgeted(j)' <=> Budgeted(j)
      BY <1>1 DEF Budgeted, Started, ToSet
    <2>. QED BY <1>1, <2>1, <2>2, PlanConstant DEF SpentWithinBudget, Budgeted
  <1>. QED BY <1>2, <1>3, <1>4, <1>5 DEF Inv

(* Both rerun loops: rearming candidates that have not passed.             *)
LEMMA RearmingKeeps ==
  ASSUME Inv, phase \in {"manual", "auto"}, Idle, phase' = phase,
         rounds' \in 0..ManualRounds, reruns' = reruns,
         NEW candidates, ToSet(candidates) \in SUBSET Jobs,
         \A c \in ToSet(candidates) : outcome[c] # "pass",
         prepare_rerun_candidates(candidates, todo')
  PROVE  Inv' /\ \A j \in Jobs : outcome[j] = "pass" => outcome'[j] = "pass"
  <1>1. pending = NoRun /\ SessionInv BY DEF Inv, Idle
  <1>2. /\ SessionInv'
        /\ \A j \in Jobs : outcome[j] = "pass" => outcome'[j] = "pass"
        /\ todo' \in Seq(Jobs)
        /\ \A i, k \in DOMAIN todo' : i # k => todo'[i] # todo'[k]
        /\ \A i \in DOMAIN todo' : outcome'[todo'[i]] = "none"
    BY <1>1, RearmKeeps
  <1>3. UNCHANGED <<plan, config, run_list, attempts, pending, runs>>
    BY DEF prepare_rerun_candidates
  <1>4. TypeOK' BY <1>2 DEF Inv, TypeOK, SessionInv
  <1>5. SelectingIsIdle' BY DEF SelectingIsIdle
  <1>6. TodoNotPassed' BY <1>2 DEF TodoNotPassed
  <1>7. SpentWithinBudget'
    <2>1. config.autoRetry => \A j \in Jobs \ Bootstrapped : Budgeted(j)
      BY DEF Inv, SpentWithinBudget, Budgeted
    <2>2. \A j \in Jobs : Budgeted(j)' <=> Budgeted(j)
      BY <1>3 DEF Budgeted, Started, ToSet
    <2>. QED BY <1>3, <2>1, <2>2, PlanConstant DEF SpentWithinBudget, Budgeted
  <1>. QED BY <1>2, <1>4, <1>5, <1>6, <1>7 DEF Inv

(* An ordering lists what it orders.                                       *)
LEMMA ManualCandidatesType ==
  ASSUME Inv, NEW wanted \in SUBSET RerunCandidates(ManualCandidate),
         NEW candidates \in ManualCandidateLists(wanted)
  PROVE  /\ ToSet(candidates) \in SUBSET Jobs
         /\ \A c \in ToSet(candidates) : outcome[c] # "pass"
  <1>1. ToSet(candidates) = wanted BY DEF ManualCandidateLists, Orderings
  <1>2. \A c \in RerunCandidates(ManualCandidate) : c \in ToSet(run_list) /\ outcome[c] # "pass"
    BY DEF RerunCandidates, ManualCandidate
  <1>3. ToSet(run_list) \subseteq Jobs BY DEF Inv, TypeOK, SessionTypeOK, ToSet
  <1>. QED BY <1>1, <1>2, <1>3

LEMMA AutoCandidatesType ==
  ASSUME Inv, NEW candidates \in Orderings(RerunCandidates(AutoCandidate), InRunListOrder)
  PROVE  /\ ToSet(candidates) \in SUBSET Jobs
         /\ \A c \in ToSet(candidates) : outcome[c] # "pass"
  <1>1. ToSet(candidates) = RerunCandidates(AutoCandidate) BY DEF Orderings
  <1>2. \A c \in RerunCandidates(AutoCandidate) : c \in ToSet(run_list) /\ outcome[c] # "pass"
    BY DEF RerunCandidates, AutoCandidate
  <1>3. ToSet(run_list) \subseteq Jobs BY DEF Inv, TypeOK, SessionTypeOK, ToSet
  <1>. QED BY <1>1, <1>2, <1>3

LEMMA RerunLoopsKeep ==
  ASSUME Inv, maybe_manual_rerun_jobs \/ maybe_auto_rerun_jobs
  PROVE  Inv' /\ \A j \in Jobs : outcome[j] = "pass" => outcome'[j] = "pass"
  <1>1. CASE maybe_manual_rerun_jobs
    <2>1. PICK wanted \in SUBSET RerunCandidates(ManualCandidate) :
            \E candidates \in ManualCandidateLists(wanted) :
              prepare_rerun_candidates(candidates, todo')
      BY <1>1 DEF maybe_manual_rerun_jobs
    <2>2. PICK candidates \in ManualCandidateLists(wanted) :
            prepare_rerun_candidates(candidates, todo')
      BY <2>1
    <2>3. /\ ToSet(candidates) \in SUBSET Jobs
          /\ \A c \in ToSet(candidates) : outcome[c] # "pass"
      BY ManualCandidatesType
    <2>4. rounds' \in 0..ManualRounds
      BY <1>1, DriverAssumption DEF maybe_manual_rerun_jobs, Inv, TypeOK
    <2>. QED BY <1>1, <2>2, <2>3, <2>4, RearmingKeeps DEF maybe_manual_rerun_jobs
  <1>2. CASE maybe_auto_rerun_jobs
    <2>1. PICK candidates \in Orderings(RerunCandidates(AutoCandidate), InRunListOrder) :
            prepare_rerun_candidates(candidates, todo')
      BY <1>2 DEF maybe_auto_rerun_jobs
    <2>2. /\ ToSet(candidates) \in SUBSET Jobs
          /\ \A c \in ToSet(candidates) : outcome[c] # "pass"
      BY AutoCandidatesType
    <2>3. rounds' \in 0..ManualRounds
      BY <1>2 DEF maybe_auto_rerun_jobs, Inv, TypeOK
    <2>. QED BY <1>2, <2>1, <2>2, <2>3, RearmingKeeps DEF maybe_auto_rerun_jobs
  <1>. QED BY <1>1, <1>2

LEMMA StutterKeeps == Inv /\ UNCHANGED vars => Inv'
  <1>. SUFFICES ASSUME Inv, UNCHANGED vars PROVE Inv' OBVIOUS
  <1>1. SessionInv'
    BY DEF vars, Inv, SessionInv, SessionTypeOK, WellFormed, ReadyMeansMet,
       FailedDepHasNotPassed, OthersUndesired, PassedResourceStored, StartedIsReady
  <1>2. TypeOK' BY <1>1 DEF vars, Inv, TypeOK, SessionInv
  <1>3. SelectingIsIdle' /\ TodoNotPassed'
    BY DEF vars, Inv, SelectingIsIdle, Idle, TodoNotPassed
  <1>4. SpentWithinBudget'
    <2>1. \A j \in Jobs : Started(j)' <=> Started(j) BY DEF vars, Started
    <2>2. ToSet(todo)' = ToSet(todo) /\ ToSet(run_list)' = ToSet(run_list)
      BY DEF vars, ToSet
    <2>. QED BY <2>1, <2>2, PlanConstant DEF vars, Inv, SpentWithinBudget
  <1>. QED BY <1>1, <1>2, <1>3, <1>4 DEF Inv

LEMMA NextKeeps == Inv /\ [Next]_vars => Inv'
  <1>. SUFFICES ASSUME Inv, [Next]_vars PROVE Inv' OBVIOUS
  <1>1. CASE finish_bootstrap BY <1>1, FinishBootstrapKeeps
  <1>2. ASSUME NEW selection \in (SUBSET ToSet(run_list)) \ {{}},
               use_alternate_selection(selection)
        PROVE  Inv'
    BY <1>2, SelectionKeeps
  <1>3. CASE StartJob BY <1>3, StartJobKeeps
  <1>4. CASE SkipJob BY <1>4, SkipJobKeeps
  <1>5. CASE CompleteJob BY <1>5, CompleteJobKeeps
  <1>6. CASE RerunJob BY <1>6, RerunJobKeeps
  <1>7. CASE FinishMain \/ FinishManual \/ FinishAuto BY <1>7, FinishKeeps
  <1>8. CASE maybe_manual_rerun_jobs \/ maybe_auto_rerun_jobs BY <1>8, RerunLoopsKeep
  <1>9. CASE Done \/ UNCHANGED vars BY <1>9, StutterKeeps DEF Done
  <1>. QED BY <1>1, <1>2, <1>3, <1>4, <1>5, <1>6, <1>7, <1>8, <1>9 DEF Next

-----------------------------------------------------------------------------
(* The theorems.                                                           *)

(* Inv, and with it the types of TypeOK, holds in every state of a run     *)
(* of the launcher or the controller (subcommands.py, controller.py).      *)
THEOREM Invariance == Spec => []Inv
  <1>1. Init => Inv BY InitKeeps
  <1>2. Inv /\ [Next]_vars => Inv' BY NextKeeps
  <1>. QED BY <1>1, <1>2, PTL DEF Spec

(* The variables keep their types.                                         *)
THEOREM TypeCorrect == Spec => []TypeOK
  <1>1. Inv => TypeOK BY DEF Inv
  <1>. QED BY <1>1, Invariance, PTL

(* Although a rerun resets results and leaves the readiness as it was, no  *)
(* command is started without the passes and resources its job requires:   *)
(* nothing that is reset had passed, so no job that relies on it is ready. *)
THEOREM RequirementsMet == Spec => []StartRequirementsMet
  <1>1. Inv => StartRequirementsMet
    BY DEF Inv, SessionInv, StartRequirementsMet, Started, StartedIsReady, ReadyMeansMet
  <1>. QED BY <1>1, Invariance, PTL

(* With auto-retry no job outside the bootstrap is executed more than      *)
(* max_attempts times, however the user and the loops ask for reruns.      *)
THEOREM BudgetKept == Spec => []RunsWithinBudget
  <1>1. Inv => RunsWithinBudget
    <2>. SUFFICES ASSUME Inv, config.autoRetry, NEW j \in Jobs \ Bootstrapped
                  PROVE  runs[j] <= MaxAttempts
      BY DEF RunsWithinBudget
    <2>1. CASE phase \in {"bootstrap", "selecting"}
      <3>1. runs[j] = 0 BY <2>1 DEF Inv, SpentWithinBudget
      <3>. QED BY <3>1, AttemptsAssumption
    <2>2. CASE phase \notin {"bootstrap", "selecting"}
      BY <2>2 DEF Inv, SpentWithinBudget
    <2>. QED BY <2>1, <2>2
  <1>. QED BY <1>1, Invariance, PTL

(* No step of any loop takes a pass away: what is run, skipped or rearmed  *)
(* had not passed.                                                         *)
THEOREM PassesKept == Spec => PassedJobStaysPassed
  <1>. DEFINE PassKept == \A j \in Jobs : outcome[j] = "pass" => outcome'[j] = "pass"
  <1>1. Inv /\ [Next]_vars => [PassKept]_vars
    <2>. SUFFICES ASSUME Inv, [Next]_vars PROVE PassKept \/ UNCHANGED vars OBVIOUS
    <2>1. ASSUME todo # <<>>, NEW o, NEW records, use_job_result(Head(todo), o, records)
          PROVE  PassKept
      <3>1. outcome[Head(todo)] # "pass"
        BY <2>1 DEF Inv, TypeOK, TodoNotPassed
      <3>2. outcome' = [outcome EXCEPT ![Head(todo)] = o]
        BY <2>1 DEF use_job_result, update_job_result
      <3>. QED BY <3>1, <3>2 DEF Inv, TypeOK, SessionTypeOK
    <2>2. CASE CompleteJob
      <3>1. PICK o \in Outcomes, records \in {"absent", "match", "nomatch"} :
              use_job_result(Head(todo), o, records)
        BY <2>2, CompletedHow
      <3>. QED BY <2>1, <2>2, <3>1 DEF CompleteJob
    <2>3. CASE SkipJob \/ RerunJob BY <2>1, <2>3 DEF SkipJob, RerunJob
    <2>4. CASE maybe_manual_rerun_jobs \/ maybe_auto_rerun_jobs
      BY <2>4, RerunLoopsKeep
    <2>5. CASE \/ finish_bootstrap
               \/ \E selection \in (SUBSET ToSet(run_list)) \ {{}} :
                    use_alternate_selection(selection)
               \/ StartJob \/ FinishMain \/ FinishManual \/ FinishAuto
      BY <2>5 DEF finish_bootstrap, use_alternate_selection, StartJob, run_job,
         FinishMain, FinishManual, FinishAuto
    <2>6. CASE Done \/ UNCHANGED vars BY <2>6 DEF Done
    <2>. QED BY <2>2, <2>3, <2>4, <2>5, <2>6 DEF Next
  <1>. QED BY <1>1, Invariance, PTL DEF Spec, PassedJobStaysPassed
=============================================================================
