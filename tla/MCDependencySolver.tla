-------------------------- MODULE MCDependencySolver -------------------------
(***************************************************************************)
(* All dependency graphs of three jobs and an unknown one, and those in    *)
(* which the third job is the suspend job; in some, the job to be run      *)
(* before it is broken.                                                    *)
(***************************************************************************)
EXTENDS DependencySolver

ThreeJobs == 1..3
FourIds == 1..4

AllGraphs ==
  [deps : [ThreeJobs -> SUBSET FourIds], suspend : {NoJob}, flagged : {{}}]
  \cup [deps : [ThreeJobs -> SUBSET ThreeJobs], suspend : {3}, flagged : {{1}, {1, 2}}]
  \cup {g \in [deps : [ThreeJobs -> SUBSET FourIds], suspend : {3}, flagged : {{2}}] :
         g.deps[2] = {3, 4} /\ 4 \notin g.deps[1]}

(* All jobs; some of them, with and without mandatory jobs; a mandatory    *)
(* job that is also chosen.                                                *)
SomeSelections ==
  {[mandatory |-> <<>>, chosen |-> <<1, 2, 3>>],
   [mandatory |-> <<>>, chosen |-> <<3, 2>>],
   [mandatory |-> <<3>>, chosen |-> <<1>>],
   [mandatory |-> <<1, 2>>, chosen |-> <<>>],
   [mandatory |-> <<1>>, chosen |-> <<1>>]}

=============================================================================
