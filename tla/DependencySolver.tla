-------------------------- MODULE DependencySolver --------------------------
(***************************************************************************)
(* From the jobs that are desired to the list of jobs to run: the depth-   *)
(* first search of the dependency solver, and the loop of the session that *)
(* drops the jobs the solver complains of until it finds a list.           *)
(*                                                                         *)
(*   depmgr.py           DependencySolver, the DependencyErrors            *)
(*   session/state.py    SessionState.update_desired_job_list              *)
(*   ctrl.py             get_dependency_set, suspend dependencies          *)
(*   session/resume.py   _restore_SessionState_desired_job_list            *)
(*                                                                         *)
(* The dependencies of a job are a Python set of strings: they come in any *)
(* order.  Job ids are natural numbers; one that is not in Jobs is unknown.*)
(***************************************************************************)
EXTENDS Integers, Sequences, SequencesExt

CONSTANTS
  Jobs,         \* the jobs of the session (SessionState._job_list)
  Ids,          \* the ids that units mention
  Graphs,       \* the plans looked at, records of GraphType
  Selections,   \* what is selected, records of SelectionType
  MaxSelections \* bound: how often a list of jobs is desired

NoJob == 0

(* deps: all dependency fields of a job; suspend: the suspend job, if any; *)
(* flagged: jobs that have also-after-suspend, or a sibling that depends   *)
(* on the suspend job.                                                     *)
GraphType == [deps : [Jobs -> SUBSET Ids], suspend : Jobs \cup {NoJob}, flagged : SUBSET Jobs]

(* The mandatory jobs of the test plan are put in front of the chosen ones. *)
SelectionType == [mandatory : Seq(Jobs), chosen : Seq(Jobs)]

ASSUME JobsAssumption == Jobs \subseteq Ids /\ Ids \subseteq Nat \ {NoJob}
ASSUME GraphsAssumption == Graphs \subseteq GraphType
ASSUME SelectionsAssumption == Selections \subseteq SelectionType
ASSUME BoundAssumption == MaxSelections \in Nat \ {0}

VARIABLES
  graph,        \* the units of the session; never changes
  mandatory,    \* SessionState._mandatory_job_list
  asked,        \* history: what was desired
  desired,      \* SessionState._desired_job_list, the solver's visit_list
  job_list,     \* the jobs the solver is given, and knows by their ids
  color,        \* _job_color_map
  trail,        \* the jobs being visited; the last one is visited now
  left,         \* the dependencies of a job its visit has still to look at
  solution,     \* _solution
  position,     \* which job of the visit_list _solve looks at
  run_list,     \* SessionState._run_list
  problems,     \* the errors: [kind, affected, cycle]
  status,       \* "solving" or "done"
  before,       \* history: the run list of the session that was suspended
  selections    \* how often jobs were desired so far

searchVars == <<color, trail, left, solution, position>>
vars == <<graph, mandatory, asked, desired, job_list, color, trail, left, solution, position,
          run_list, problems, status, before, selections>>

Problems == [kind : {"unknown", "missing", "cycle"}, affected : Jobs, cycle : Seq(Jobs)]

TypeOK ==
  /\ graph \in Graphs
  /\ mandatory \in Seq(Jobs)
  /\ asked \in Seq(Jobs)
  /\ desired \in Seq(Jobs)
  /\ job_list \subseteq Jobs
  /\ color \in [Jobs -> {"white", "gray", "black"}]
  /\ trail \in Seq(Jobs)
  /\ left \in [Jobs -> SUBSET Ids]
  /\ solution \in Seq(Jobs)
  /\ position \in Nat \ {0}
  /\ run_list \in Seq(Jobs)
  /\ problems \subseteq Problems
  /\ status \in {"solving", "done"}
  /\ before \in Seq(Jobs)
  /\ selections \in 1..MaxSelections

-----------------------------------------------------------------------------
(* Mutant: no suspend dependencies are added.                              *)
WithoutSuspendDependencies(j, list) == graph.deps[j]

(* A suspend job depends on the flagged jobs of the list that is solved.   *)
get_dependency_set(j, list) ==
  graph.deps[j] \cup (IF j = graph.suspend THEN graph.flagged \cap ToSet(list) ELSE {})

-----------------------------------------------------------------------------
(* The solver.                                                             *)

(* Mutant: the solution of the solver that failed is kept.                 *)
UnvisitedAgain ==
  /\ color' = [j \in Jobs |-> "white"]
  /\ trail' = <<>>
  /\ left' = [j \in Jobs |-> {}]
  /\ position' = 1
  /\ UNCHANGED solution

(* A new DependencySolver is about to visit the first job.                 *)
Unvisited ==
  /\ color' = [j \in Jobs |-> "white"]
  /\ trail' = <<>>
  /\ left' = [j \in Jobs |-> {}]
  /\ solution' = <<>>
  /\ position' = 1

Init ==
  /\ graph \in Graphs
  /\ \E s \in Selections : mandatory = s.mandatory /\ asked = s.mandatory \o s.chosen
  /\ desired = asked
  /\ job_list = Jobs
  /\ color = [j \in Jobs |-> "white"]
  /\ trail = <<>>
  /\ left = [j \in Jobs |-> {}]
  /\ solution = <<>>
  /\ position = 1
  /\ run_list = <<>>
  /\ problems = {}
  /\ status = IF asked = <<>> THEN "done" ELSE "solving"
  /\ before = <<>>
  /\ selections = 1

(* Mutant: the jobs behind it are dropped with it.                         *)
RemoveFrom(s, j) ==
  IF j \in ToSet(s)
    THEN SubSeq(s, 1, (CHOOSE n \in DOMAIN s : s[n] = j /\ \A m \in 1..n-1 : s[m] # j) - 1)
    ELSE s

(* list.remove: the first one only; those behind it move up.               *)
RemoveOne(s, j) ==
  IF j \in ToSet(s)
    THEN [k \in 1..Len(s)-1 |-> IF \E m \in 1..k : s[m] = j THEN s[k + 1] ELSE s[k]]
    ELSE s

(* Mutant: the affected job is still known to the next solver.             *)
StillKnown(j) == job_list

KnownWithout(j) == job_list \ {j}

(* The solver raises a DependencyError: update_desired_job_list takes the  *)
(* affected job out of both lists and tries again.                         *)
Drop(kind, j, cycle) ==
  /\ desired' = RemoveOne(desired, j)
  /\ job_list' = KnownWithout(j)
  /\ problems' = problems \cup {[kind |-> kind, affected |-> j, cycle |-> cycle]}
  /\ status' = IF desired' = <<>> THEN "done" ELSE "solving"
  /\ Unvisited
  /\ UNCHANGED <<graph, mandatory, asked, run_list, before, selections>>

Enter(j) ==
  /\ color' = [color EXCEPT ![j] = "gray"]
  /\ trail' = Append(trail, j)
  /\ UNCHANGED <<solution, position>>

Solving == UNCHANGED <<graph, mandatory, asked, desired, job_list, run_list, problems, status, before,
                       selections>>

(* _solve visits the next job of the visit_list.                           *)
VisitDesired ==
  /\ status = "solving" /\ trail = <<>> /\ position <= Len(desired)
  /\ LET j == desired[position] IN
       \/ j \notin job_list /\ Drop("unknown", j, <<>>)
       \/ /\ j \in job_list /\ color[j] = "white"
          /\ Enter(j)
          /\ left' = [left EXCEPT ![j] = get_dependency_set(j, desired)]
          /\ Solving
       \/ /\ j \in job_list /\ color[j] = "black"
          /\ position' = position + 1
          /\ UNCHANGED <<color, trail, left, solution>>
          /\ Solving

(* Mutant: the trail is reported from its start.                           *)
WholeTrail(d) == Append(trail, d)

(* The part of the trail that is the loop: no job is on it twice.          *)
Loop(d) ==
  LET i == CHOOSE n \in DOMAIN trail : trail[n] = d
  IN Append(SubSeq(trail, i, Len(trail)), d)

(* Mutant: a job that is being visited counts as visited.                  *)
NeverInLoop(d) == FALSE

InLoop(d) == color[d] = "gray"

(* Mutant: the missing job is blamed, not the one that needs it.           *)
MissingItself(d) == d

AffectedByMissing(d) == Last(trail)

(* _visit looks at a dependency of the job it visits.                      *)
VisitDependency(d) ==
  LET j == Last(trail) IN
    \/ d \notin job_list /\ Drop("missing", AffectedByMissing(d), <<>>)
    \/ /\ d \in job_list /\ color[d] = "white"
       /\ Enter(d)
       /\ left' = [left EXCEPT ![j] = @ \ {d}, ![d] = get_dependency_set(d, desired)]
       /\ Solving
    \/ d \in job_list /\ color[d] # "white" /\ InLoop(d) /\ Drop("cycle", d, Loop(d))
    \/ /\ d \in job_list /\ color[d] # "white" /\ ~InLoop(d)
       /\ left' = [left EXCEPT ![j] = @ \ {d}]
       /\ UNCHANGED <<color, trail, solution, position>>
       /\ Solving

VisitDependencies ==
  /\ status = "solving" /\ trail # <<>>
  /\ \E d \in left[Last(trail)] : VisitDependency(d)

(* All dependencies of the job have been visited.                          *)
LeaveJob ==
  /\ status = "solving" /\ trail # <<>> /\ left[Last(trail)] = {}
  /\ color' = [color EXCEPT ![Last(trail)] = "black"]
  /\ solution' = Append(solution, Last(trail))
  /\ trail' = Front(trail)
  /\ UNCHANGED <<left, position>>
  /\ Solving

Solved ==
  /\ status = "solving" /\ trail = <<>> /\ position > Len(desired)
  /\ run_list' = solution
  /\ status' = "done"
  /\ UNCHANGED <<graph, mandatory, asked, desired, job_list, problems, before, selections>>
  /\ UNCHANGED searchVars

-----------------------------------------------------------------------------
(* The session is suspended and resumed by another process: the mandatory  *)
(* jobs and the list it kept, which has the mandatory jobs that were not   *)
(* dropped, are desired again.                                             *)

(* Mutant: the list that was kept is lost.                                 *)
MandatoryAgain == mandatory

DesiredAgain == mandatory \o desired

_restore_SessionState_desired_job_list ==
  /\ status = "done" /\ selections < MaxSelections
  /\ selections' = selections + 1
  /\ before' = run_list
  /\ desired' = DesiredAgain
  /\ asked' = desired'
  /\ job_list' = Jobs
  /\ run_list' = <<>>
  /\ problems' = {}
  /\ status' = IF desired' = <<>> THEN "done" ELSE "solving"
  /\ Unvisited
  /\ UNCHANGED <<graph, mandatory>>

Finished == status = "done" /\ selections = MaxSelections /\ UNCHANGED vars

Search == VisitDesired \/ VisitDependencies \/ LeaveJob \/ Solved

Next == Search \/ _restore_SessionState_desired_job_list \/ Finished

Spec == Init /\ [][Next]_vars
FairSpec == Spec /\ WF_vars(Search)

-----------------------------------------------------------------------------
(* Reference definitions.                                                  *)

(* What list needs, itself included: the least set closed under the        *)
(* dependencies.                                                           *)
ClosedUnder(T, list) == \A t \in T \cap Jobs : get_dependency_set(t, list) \subseteq T

Closure(S, list) ==
  {j \in Ids : \A T \in SUBSET Ids : S \subseteq T /\ ClosedUnder(T, list) => j \in T}

(* No order of the jobs lets j run: what it needs is unknown, or needs     *)
(* itself.                                                                 *)
Broken(j, list) ==
  \E k \in Closure({j}, list) :
    k \notin Jobs \/ k \in Closure(get_dependency_set(k, list), list)

-----------------------------------------------------------------------------
(* Every job of the run list stands behind all that it depends on, and     *)
(* stands there once, in whatever order the dependencies were visited and  *)
(* whatever was dropped before.                                            *)
RunListOrdered ==
  status = "done" =>
    /\ \A i, k \in DOMAIN run_list : run_list[i] = run_list[k] => i = k
    /\ \A k \in DOMAIN run_list : \A d \in get_dependency_set(run_list[k], desired) :
         \E i \in 1..k-1 : run_list[i] = d

(* The run list has the desired jobs that are left and what they need, and *)
(* nothing else.                                                           *)
RunListIsClosure ==
  status = "done" => ToSet(run_list) = Closure(ToSet(desired), desired)

(* Only a job that no order lets run is dropped: one broken job does not   *)
(* take a sound one with it.                                               *)
DroppedIsBroken ==
  status = "done" => \A j \in ToSet(asked) \ ToSet(desired) : Broken(j, asked)

(* The loop of a cycle error is one (the assertions of the error's         *)
(* constructor, and its docstring).                                        *)
CycleIsReal ==
  \A p \in problems : p.kind = "cycle" =>
    /\ Len(p.cycle) > 1 /\ p.cycle[1] = Last(p.cycle) /\ p.affected = p.cycle[1]
    /\ \A i \in 1..Len(p.cycle) - 1 :
         p.cycle[i + 1] \in get_dependency_set(p.cycle[i], asked)

(* A mandatory job that was dropped is desired again by a resumed session, *)
(* and the suspend job then depends on it if it is flagged.                *)
FlaggedKept ==
  graph.suspend \in ToSet(before) => graph.flagged \cap ToSet(mandatory) \subseteq ToSet(before)

(* A resumed session has all jobs to run of the one that was suspended,    *)
(* unless the suspend job depends on one that had been dropped and may be  *)
(* dropped for it now; and no other one, unless a mandatory job had been   *)
(* dropped that is sound without the jobs dropped with it.                 *)
ResumedListKept ==
  status = "done" /\ selections > 1 =>
    /\ FlaggedKept => ToSet(before) \subseteq ToSet(run_list)
    /\ ToSet(mandatory) \subseteq ToSet(before) => ToSet(run_list) = ToSet(before)

(* A list is found, or the desired jobs run out.                           *)
Terminates == status = "solving" ~> status = "done"

(* "The current job is guaranteed to run before suspend" (docs/reference/  *)
(* units/job.rst on also-after-suspend), whatever was dropped or resumed,  *)
(* of the jobs that are desired.  One that has the flag and is only needed *)
(* by a desired job may run after it: get_dependency_set looks at the      *)
(* desired jobs alone.                                                     *)
SuspendRespected ==
  status = "done" =>
    \A i, k \in DOMAIN run_list :
      run_list[i] = graph.suspend /\ run_list[k] \in graph.flagged \cap ToSet(desired) => k < i

=============================================================================
