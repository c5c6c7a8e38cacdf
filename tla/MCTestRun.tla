----------------------------- MODULE MCTestRun -----------------------------
(***************************************************************************)
(* Instances of TestRun for TLC: the plans over three jobs whose pairs are *)
(* unrelated or related in one of the given ways, and a few larger ones.   *)
(***************************************************************************)
EXTENDS TestRun

CONSTANT N            \* number of jobs

MCJobs == 1..N

Config(remote, interactive, autoRetry) ==
  [remote |-> remote, interactive |-> interactive, autoRetry |-> autoRetry]

LocalSilentAuto == Config(FALSE, FALSE, TRUE)
LocalInteractive == Config(FALSE, TRUE, FALSE)
LocalInteractiveAuto == Config(FALSE, TRUE, TRUE)
RemoteSilentAuto == Config(TRUE, FALSE, TRUE)
RemoteInteractive == Config(TRUE, TRUE, FALSE)
RemoteInteractiveAuto == Config(TRUE, TRUE, TRUE)

AllConfigs ==
  {LocalSilentAuto, LocalInteractive, LocalInteractiveAuto,
   RemoteSilentAuto, RemoteInteractive, RemoteInteractiveAuto}

(***************************************************************************)
(* An edge function says how job e[1] is related to job e[2].              *)
(***************************************************************************)
Pairs == {e \in (1..3) \X (1..3) : e[1] # e[2]}

Acyclic(edge) ==
  \E rank \in [1..3 -> 1..3] : \A e \in Pairs : edge[e] # "no" => rank[e[2]] < rank[e[1]]

Related(edge, kind) ==
  [j \in MCJobs |-> {k \in MCJobs : <<j, k>> \in Pairs /\ edge[<<j, k>>] = kind}]

EdgePlan(edge) ==
  [depends |-> Related(edge, "depends"), after |-> Related(edge, "after"),
   salvages |-> Related(edge, "salvages"), requires |-> Related(edge, "requires"),
   resource |-> {k \in MCJobs : \E e \in Pairs : e[2] = k /\ edge[e] = "requires"},
   manual |-> {}, verify |-> {}, failOnResource |-> {}, noRetry |-> {},
   bootstrap |-> {}, include |-> MCJobs]

EdgePlans(kinds) ==
  {EdgePlan(edge) : edge \in {f \in [Pairs -> kinds \cup {"no"}] : Acyclic(f)}}

NoEdges == [j \in MCJobs |-> {}]
Empty == [depends |-> NoEdges, after |-> NoEdges, salvages |-> NoEdges,
          requires |-> NoEdges, resource |-> {}, manual |-> {}, verify |-> {},
          failOnResource |-> {}, noRetry |-> {}, bootstrap |-> {},
          include |-> MCJobs]

(* 3 depends on 2, 2 on 1.                                                 *)
Chain == [Empty EXCEPT !.depends = [NoEdges EXCEPT ![2] = {1}, ![3] = {2}]]

(***************************************************************************)
(* What the runs use.                                                      *)
(***************************************************************************)
DependsPlans == EdgePlans({"depends"})

(* Resources found out during bootstrap, a job that fails without them.    *)
ResourcePlans ==
  {[Empty EXCEPT !.requires = [NoEdges EXCEPT ![3] = {1}], !.resource = {1},
                 !.depends = [NoEdges EXCEPT ![2] = {3}],
                 !.failOnResource = f, !.bootstrap = b, !.manual = {2},
                 !.verify = {2}]
     : f \in {{}, {3}}, b \in {{}, {1}}}

(* 1 is verified by the user; 2 is of user-interact, 3 of a kind verified; *)
(* 2 is of user-verify; 1 is verified, and runs in the bootstrap.          *)
VerifyPlans ==
  {[Chain EXCEPT !.manual = {1}, !.verify = {1}],
   [Chain EXCEPT !.manual = {2, 3}, !.verify = {3}],
   [Chain EXCEPT !.verify = {2}],
   [Chain EXCEPT !.manual = {1}, !.verify = {1}, !.bootstrap = {1}],
   [Chain EXCEPT !.verify = {1}, !.bootstrap = {1}]}

MixedPlans ==
  EdgePlans({"depends", "after"})
  \cup {[p EXCEPT !.noRetry = {2}] : p \in DependsPlans}
  \cup VerifyPlans
  \cup ResourcePlans

(* What the retry promises are checked on: jobs related by "depends".      *)
RetryPlans ==
  DependsPlans \cup {[p EXCEPT !.noRetry = {2}] : p \in DependsPlans}
  \cup {[Chain EXCEPT !.verify = {k}] : k \in {1, 2}}

RetryConfigs == {LocalSilentAuto, LocalInteractive, RemoteSilentAuto}

(* 3 runs after 1, and 4 depends on 2 and 3.                               *)
TwoDependenciesPlan ==
  {[Empty EXCEPT !.depends = [NoEdges EXCEPT ![4] = {2, 3}],
                 !.after = [NoEdges EXCEPT ![3] = {1}]]}

ChainPlan == {Chain}

OnlyLocalSilentAuto == {LocalSilentAuto}
OnlyRemoteInteractiveAuto == {RemoteInteractiveAuto}
=============================================================================
