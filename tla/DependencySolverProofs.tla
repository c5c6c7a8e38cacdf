----------------------- MODULE DependencySolverProofs -----------------------
(***************************************************************************)
(* Proofs about DependencySolver, for every set of jobs, every graph and   *)
(* every selection.  All say something of the depth-first search, so the   *)
(* invariant relates colours, trail, remaining dependencies and solution.  *)
(***************************************************************************)
EXTENDS DependencySolver, TLAPS

Deps(j) == get_dependency_set(j, desired)

(* The jobs that are desired, or needed by one that is.                    *)
Needed == Closure(ToSet(desired), desired)

(* Black jobs are those of the solution, each once.                        *)
BlackIsSolved ==
  /\ \A j \in Jobs : color[j] = "black" <=> \E i \in DOMAIN solution : solution[i] = j
  /\ \A i, k \in DOMAIN solution : solution[i] = solution[k] => i = k

(* What a job of the solution needs stands in front of it.                 *)
SolutionOrdered ==
  \A k \in DOMAIN solution : \A d \in Deps(solution[k]) :
    \E i \in 1..k-1 : solution[i] = d

(* Gray jobs are those of the trail, each once.                            *)
GrayIsTrail ==
  /\ \A j \in Jobs : color[j] = "gray" <=> \E i \in DOMAIN trail : trail[i] = j
  /\ \A i, k \in DOMAIN trail : trail[i] = trail[k] => i = k

(* A dependency of a job of the trail is still to be looked at, or is      *)
(* solved, or is being visited on behalf of the job.                       *)
TrailDone ==
  \A n \in DOMAIN trail : \A d \in Deps(trail[n]) \ left[trail[n]] :
    \/ d \in Jobs /\ color[d] = "black"
    \/ n < Len(trail) /\ d = trail[n + 1]

(* Only what is needed is visited.                                         *)
OnlyNeeded ==
  /\ \A j \in Jobs : color[j] # "white" => j \in Needed
  /\ \A n \in DOMAIN trail : left[trail[n]] \subseteq Deps(trail[n])

(* The desired jobs _solve has gone past are solved.                       *)
PassedAreSolved ==
  \A p \in DOMAIN desired : p < position => color[desired[p]] = "black"

Searching ==
  status = "solving" =>
    /\ run_list = <<>>
    /\ BlackIsSolved /\ SolutionOrdered /\ GrayIsTrail /\ TrailDone
    /\ OnlyNeeded /\ PassedAreSolved

SolverInv == TypeOK /\ Searching /\ RunListOrdered /\ RunListIsClosure

-----------------------------------------------------------------------------
(* Lemmas about the operators.                                             *)

LEMMA RemoveOneType ==
  ASSUME NEW S, NEW s \in Seq(S), NEW j
  PROVE  RemoveOne(s, j) \in Seq(S)
  <1>1. CASE j \in ToSet(s)
    <2>1. Len(s) >= 1 /\ Len(s) - 1 \in Nat
      BY <1>1 DEF ToSet
    <2>2. \A k \in 1..Len(s)-1 : (IF \E m \in 1..k : s[m] = j THEN s[k + 1] ELSE s[k]) \in S
      BY <2>1
    <2>. DEFINE f == [k \in 1..Len(s)-1 |-> IF \E m \in 1..k : s[m] = j THEN s[k + 1] ELSE s[k]]
    <2>3. f \in [1..Len(s)-1 -> S] BY <2>2
    <2>4. f \in Seq(S) BY <2>1, <2>3
    <2>. QED BY <2>4, <1>1 DEF RemoveOne
  <1>2. CASE j \notin ToSet(s)
    BY <1>2 DEF RemoveOne
  <1>. QED BY <1>1, <1>2

LEMMA LoopType ==
  ASSUME trail \in Seq(Jobs), NEW d \in Jobs, \E n \in DOMAIN trail : trail[n] = d
  PROVE  Loop(d) \in Seq(Jobs)
  <1>. DEFINE i == CHOOSE n \in DOMAIN trail : trail[n] = d
  <1>1. i \in 1..Len(trail) OBVIOUS
  <1>2. SubSeq(trail, i, Len(trail)) \in Seq(Jobs) BY <1>1
  <1>. QED BY <1>2 DEF Loop

LEMMA DepsType ==
  ASSUME TypeOK, NEW j \in Jobs
  PROVE  Deps(j) \subseteq Ids
  BY JobsAssumption, GraphsAssumption DEF TypeOK, Deps, get_dependency_set, GraphType

(* What is desired is needed, and so is all that a needed job depends on.  *)
LEMMA DesiredNeeded ==
  ASSUME TypeOK, NEW p \in DOMAIN desired
  PROVE  desired[p] \in Needed
  <1>0. desired \in Seq(Jobs) BY DEF TypeOK
  <1>1. desired[p] \in Jobs BY <1>0
  <1>2. desired[p] \in ToSet(desired) BY DEF ToSet
  <1>. QED BY <1>1, <1>2, JobsAssumption DEF Needed, Closure

LEMMA NeededClosed ==
  ASSUME TypeOK, NEW j \in Jobs, j \in Needed
  PROVE  Deps(j) \subseteq Needed
  <1>1. Deps(j) \subseteq Ids BY DepsType
  <1>2. ASSUME NEW d \in Deps(j), NEW T \in SUBSET Ids,
               ToSet(desired) \subseteq T, ClosedUnder(T, desired)
        PROVE  d \in T
    <2>1. j \in T BY <1>2 DEF Needed, Closure
    <2>. QED BY <1>2, <2>1 DEF ClosedUnder, Deps
  <1>. QED BY <1>1, <1>2 DEF Needed, Closure

(* Nothing else is needed.                                                 *)
LEMMA NeededLeast ==
  ASSUME NEW T, T \subseteq Ids, ToSet(desired) \subseteq T,
         \A j \in T \cap Jobs : Deps(j) \subseteq T
  PROVE  Needed \subseteq T
  BY DEF Needed, Closure, ClosedUnder, Deps

LEMMA NothingNeeded ==
  ASSUME desired = <<>>
  PROVE  Needed = {}
  <1>1. ToSet(desired) = {} BY DEF ToSet
  <1>. QED BY <1>1, NeededLeast

(* A solver that has not visited a job keeps every part of the invariant.  *)
FreshSolver ==
  /\ TypeOK
  /\ color = [j \in Jobs |-> "white"] /\ trail = <<>> /\ solution = <<>>
  /\ position = 1 /\ run_list = <<>>
  /\ status = IF desired = <<>> THEN "done" ELSE "solving"

LEMMA FreshSolverHolds == FreshSolver => SolverInv
  <1>. SUFFICES ASSUME FreshSolver PROVE SolverInv OBVIOUS
  <1>. USE DEF FreshSolver
  <1>1. Searching
    <2>1. BlackIsSolved BY DEF BlackIsSolved
    <2>2. SolutionOrdered BY DEF SolutionOrdered
    <2>3. GrayIsTrail BY DEF GrayIsTrail
    <2>4. TrailDone BY DEF TrailDone
    <2>5. OnlyNeeded BY DEF OnlyNeeded
    <2>6. PassedAreSolved BY DEF PassedAreSolved, TypeOK
    <2>. QED BY <2>1, <2>2, <2>3, <2>4, <2>5, <2>6 DEF Searching
  <1>2. RunListOrdered BY DEF RunListOrdered
  <1>3. RunListIsClosure
    <2>1. ToSet(run_list) = {} BY DEF ToSet
    <2>2. status = "done" => Needed = {} BY NothingNeeded
    <2>. QED BY <2>1, <2>2 DEF RunListIsClosure, Needed
  <1>. QED BY <1>1, <1>2, <1>3 DEF SolverInv

LEMMA InitSolver == Init => SolverInv
  <1>. SUFFICES ASSUME Init PROVE SolverInv OBVIOUS
  <1>1. mandatory \in Seq(Jobs) /\ asked \in Seq(Jobs) /\ desired \in Seq(Jobs)
    BY SelectionsAssumption DEF Init, SelectionType
  <1>2. TypeOK
    <2>1. selections \in 1..MaxSelections BY BoundAssumption DEF Init
    <2>2. left \in [Jobs -> SUBSET Ids] BY DEF Init
    <2>3. /\ status \in {"solving", "done"} /\ graph \in Graphs
          /\ color \in [Jobs -> {"white", "gray", "black"}]
      BY DEF Init
    <2>4. job_list \subseteq Jobs /\ trail \in Seq(Jobs) /\ solution \in Seq(Jobs)
          /\ position \in Nat \ {0} /\ run_list \in Seq(Jobs) /\ problems \subseteq Problems
          /\ before \in Seq(Jobs)
      BY DEF Init
    <2>. QED BY <1>1, <2>1, <2>2, <2>3, <2>4 DEF TypeOK
  <1>. QED BY <1>2, FreshSolverHolds DEF Init, FreshSolver

-----------------------------------------------------------------------------
(* A job is dropped, or a session resumed: another solver starts.          *)

LEMMA DropKeeps ==
  ASSUME SolverInv, status = "solving", NEW kind \in {"unknown", "missing", "cycle"},
         NEW j \in Jobs, NEW cycle \in Seq(Jobs), Drop(kind, j, cycle)
  PROVE  SolverInv'
  <1>1. TypeOK'
    <2>1. desired' \in Seq(Jobs) BY RemoveOneType DEF SolverInv, TypeOK, Drop
    <2>2. problems' \subseteq Problems BY DEF SolverInv, TypeOK, Drop, Problems
    <2>3. /\ color' \in [Jobs -> {"white", "gray", "black"}] /\ trail' \in Seq(Jobs)
          /\ left' \in [Jobs -> SUBSET Ids] /\ solution' \in Seq(Jobs) /\ position' \in Nat \ {0}
      BY DEF Drop, Unvisited
    <2>4. job_list' \subseteq Jobs BY DEF SolverInv, TypeOK, Drop, KnownWithout
    <2>5. status' \in {"solving", "done"} BY DEF Drop
    <2>. QED BY <2>1, <2>2, <2>3, <2>4, <2>5 DEF SolverInv, TypeOK, Drop
  <1>2. run_list' = <<>> BY DEF SolverInv, Searching, Drop
  <1>3. status' = IF desired' = <<>> THEN "done" ELSE "solving" BY DEF Drop
  <1>4. /\ color' = [k \in Jobs |-> "white"] /\ trail' = <<>> /\ solution' = <<>>
        /\ position' = 1
    BY DEF Drop, Unvisited
  <1>5. FreshSolver' BY <1>1, <1>2, <1>3, <1>4 DEF FreshSolver
  <1>. QED BY <1>5, FreshSolverHolds, PTL

LEMMA RestoreKeeps ==
  ASSUME SolverInv, _restore_SessionState_desired_job_list
  PROVE  SolverInv'
  <1>1. TypeOK'
    <2>1. desired' \in Seq(Jobs) /\ asked' \in Seq(Jobs)
      BY DEF SolverInv, TypeOK, _restore_SessionState_desired_job_list, DesiredAgain
    <2>2. /\ color' \in [Jobs -> {"white", "gray", "black"}] /\ trail' \in Seq(Jobs)
          /\ left' \in [Jobs -> SUBSET Ids] /\ solution' \in Seq(Jobs) /\ position' \in Nat \ {0}
      BY DEF _restore_SessionState_desired_job_list, Unvisited
    <2>3. selections' \in 1..MaxSelections
      BY BoundAssumption DEF SolverInv, TypeOK, _restore_SessionState_desired_job_list
    <2>4. status' \in {"solving", "done"} BY DEF _restore_SessionState_desired_job_list
    <2>. QED BY <2>1, <2>2, <2>3, <2>4
             DEF SolverInv, TypeOK, _restore_SessionState_desired_job_list
  <1>2. /\ color' = [k \in Jobs |-> "white"] /\ trail' = <<>> /\ solution' = <<>>
        /\ position' = 1 /\ run_list' = <<>>
        /\ status' = IF desired' = <<>> THEN "done" ELSE "solving"
    BY DEF _restore_SessionState_desired_job_list, Unvisited
  <1>3. FreshSolver' BY <1>1, <1>2 DEF FreshSolver
  <1>. QED BY <1>3, FreshSolverHolds, PTL

-----------------------------------------------------------------------------
(* The steps of the search.                                                *)

(* While a list is solved, what jobs depend on does not change.            *)
LEMMA SameGraph ==
  ASSUME Solving
  PROVE  (\A j : Deps(j)' = Deps(j)) /\ Needed' = Needed
  BY DEF Solving, Deps, Needed, Closure, ClosedUnder, get_dependency_set

(* A white job that is needed is entered, from the job at the end of the   *)
(* trail if there is one.                                                  *)
LEMMA EnterKeeps ==
  ASSUME SolverInv, status = "solving", Solving, NEW d \in Jobs, Enter(d),
         color[d] = "white", d \in Needed,
         \/ trail = <<>> /\ left' = [left EXCEPT ![d] = Deps(d)]
         \/ trail # <<>> /\ left' = [left EXCEPT ![Last(trail)] = @ \ {d}, ![d] = Deps(d)]
  PROVE  SolverInv'
  <1>. USE SameGraph
  <1>0. /\ TypeOK /\ BlackIsSolved /\ SolutionOrdered /\ GrayIsTrail /\ TrailDone
        /\ OnlyNeeded /\ PassedAreSolved /\ run_list = <<>>
    BY DEF SolverInv, Searching
  <1>1. /\ trail \in Seq(Jobs) /\ color \in [Jobs -> {"white", "gray", "black"}]
        /\ left \in [Jobs -> SUBSET Ids] /\ Deps(d) \subseteq Ids
        /\ solution \in Seq(Jobs) /\ desired \in Seq(Jobs)
    BY <1>0, DepsType DEF TypeOK
  <1>2. /\ color' = [color EXCEPT ![d] = "gray"] /\ trail' = Append(trail, d)
        /\ solution' = solution /\ position' = position /\ desired' = desired
        /\ run_list' = run_list /\ status' = status
    BY DEF Enter, Solving
  <1>3. trail # <<>> => Last(trail) \in Jobs /\ Last(trail) = trail[Len(trail)]
    BY <1>1 DEF Last
  <1>4. TypeOK'
    <2>1. color' \in [Jobs -> {"white", "gray", "black"}] BY <1>1, <1>2
    <2>2. left' \in [Jobs -> SUBSET Ids] BY <1>1, <1>3
    <2>3. trail' \in Seq(Jobs) BY <1>1, <1>2
    <2>. QED BY <2>1, <2>2, <2>3, <1>0 DEF TypeOK, Enter, Solving
  <1>5. BlackIsSolved' BY <1>0, <1>1, <1>2 DEF BlackIsSolved
  <1>6. SolutionOrdered' BY <1>0, <1>2 DEF SolutionOrdered
  <1>7. \A i \in DOMAIN trail : trail[i] # d BY <1>0 DEF GrayIsTrail
  <1>8. /\ DOMAIN trail' = 1..Len(trail) + 1 /\ trail'[Len(trail) + 1] = d
        /\ \A i \in DOMAIN trail : trail'[i] = trail[i]
        /\ DOMAIN trail = 1..Len(trail) /\ Len(trail) \in Nat /\ Len(trail') = Len(trail) + 1
    BY <1>1, <1>2
  <1>9. GrayIsTrail'
    <2>1. ASSUME NEW j \in Jobs
          PROVE  color'[j] = "gray" <=> \E i \in DOMAIN trail' : trail'[i] = j
      <3>1. CASE j = d BY <3>1, <1>1, <1>2, <1>8
      <3>2. CASE j # d
        <4>1. color'[j] = color[j] BY <3>2, <1>1, <1>2
        <4>2. (\E i \in DOMAIN trail' : trail'[i] = j) <=> \E i \in DOMAIN trail : trail[i] = j
          BY <3>2, <1>8
        <4>. QED BY <4>1, <4>2, <1>0 DEF GrayIsTrail
      <3>. QED BY <3>1, <3>2
    <2>2. \A i, k \in DOMAIN trail' : trail'[i] = trail'[k] => i = k
      BY <1>0, <1>7, <1>8 DEF GrayIsTrail
    <2>. QED BY <2>1, <2>2 DEF GrayIsTrail
  <1>10. TrailDone'
    <2>. SUFFICES ASSUME NEW n \in DOMAIN trail', NEW e \in Deps(trail'[n]) \ left'[trail'[n]]
                  PROVE  \/ e \in Jobs /\ color'[e] = "black"
                         \/ n < Len(trail') /\ e = trail'[n + 1]
      BY DEF TrailDone
    <2>1. n # Len(trail) + 1 BY <1>1, <1>2, <1>3, <1>8
    <2>2. n \in DOMAIN trail /\ trail'[n] = trail[n] /\ trail[n] # d /\ trail[n] \in Jobs
      BY <2>1, <1>1, <1>7, <1>8
    <2>3. CASE e \notin left[trail[n]]
      <3>1. \/ e \in Jobs /\ color[e] = "black"
            \/ n < Len(trail) /\ e = trail[n + 1]
        BY <2>2, <2>3, <1>0 DEF TrailDone
      <3>. QED BY <3>1, <2>2, <1>1, <1>2, <1>8
    <2>4. CASE e \in left[trail[n]]
      <3>1. trail # <<>> /\ trail[n] = Last(trail) /\ e = d
        BY <2>2, <2>4, <1>1, <1>3
      <3>2. n = Len(trail) BY <3>1, <2>2, <1>0, <1>3, <1>8 DEF GrayIsTrail
      <3>. QED BY <3>1, <3>2, <1>8
    <2>. QED BY <2>3, <2>4
  <1>11. OnlyNeeded'
    <2>1. \A j \in Jobs : color'[j] # "white" => j \in Needed BY <1>0, <1>1, <1>2 DEF OnlyNeeded
    <2>2. ASSUME NEW n \in DOMAIN trail' PROVE left'[trail'[n]] \subseteq Deps(trail'[n])
      <3>1. CASE n = Len(trail) + 1 BY <3>1, <1>1, <1>3, <1>8
      <3>2. CASE n # Len(trail) + 1
        <4>1. n \in DOMAIN trail /\ trail'[n] = trail[n] /\ trail[n] # d /\ trail[n] \in Jobs
          BY <3>2, <1>1, <1>7, <1>8
        <4>2. left'[trail[n]] \subseteq left[trail[n]] BY <4>1, <1>1, <1>3
        <4>. QED BY <4>1, <4>2, <1>0 DEF OnlyNeeded
      <3>. QED BY <3>1, <3>2
    <2>. QED BY <2>1, <2>2 DEF OnlyNeeded
  <1>12. PassedAreSolved' BY <1>0, <1>1, <1>2 DEF PassedAreSolved
  <1>13. Searching'
    BY <1>0, <1>2, <1>5, <1>6, <1>9, <1>10, <1>11, <1>12 DEF Searching
  <1>. QED BY <1>4, <1>13, <1>2 DEF SolverInv, RunListOrdered, RunListIsClosure

(* A dependency that is solved already is taken off.                       *)
LEMMA SkipKeeps ==
  ASSUME SolverInv, status = "solving", Solving, trail # <<>>,
         NEW d \in Jobs, color[d] = "black",
         left' = [left EXCEPT ![Last(trail)] = @ \ {d}],
         UNCHANGED <<color, trail, solution, position>>
  PROVE  SolverInv'
  <1>. USE SameGraph
  <1>0. /\ TypeOK /\ BlackIsSolved /\ SolutionOrdered /\ GrayIsTrail /\ TrailDone
        /\ OnlyNeeded /\ PassedAreSolved /\ run_list = <<>>
    BY DEF SolverInv, Searching
  <1>1. trail \in Seq(Jobs) /\ left \in [Jobs -> SUBSET Ids] BY <1>0 DEF TypeOK
  <1>2. desired' = desired /\ run_list' = run_list /\ status' = status BY DEF Solving
  <1>3. Last(trail) \in Jobs BY <1>1 DEF Last
  <1>4. TypeOK' BY <1>0, <1>1, <1>3 DEF TypeOK, Solving
  <1>5. \A j \in Jobs : left'[j] \subseteq left[j] /\ left[j] \subseteq left'[j] \cup {d}
    BY <1>1, <1>3
  <1>6. \A n \in DOMAIN trail : trail[n] \in Jobs BY <1>1
  <1>7. TrailDone' BY <1>0, <1>5, <1>6 DEF TrailDone
  <1>8. OnlyNeeded'
    <2>1. \A n \in DOMAIN trail' : left'[trail'[n]] \subseteq Deps(trail'[n])
      BY <1>0, <1>5, <1>6 DEF OnlyNeeded
    <2>. QED BY <1>0, <2>1 DEF OnlyNeeded
  <1>9. BlackIsSolved' /\ SolutionOrdered' /\ GrayIsTrail' /\ PassedAreSolved'
    BY <1>0, <1>2 DEF BlackIsSolved, SolutionOrdered, GrayIsTrail, PassedAreSolved
  <1>10. Searching' BY <1>0, <1>2, <1>7, <1>8, <1>9 DEF Searching
  <1>. QED BY <1>2, <1>4, <1>10 DEF SolverInv, RunListOrdered, RunListIsClosure

LEMMA LeaveKeeps ==
  ASSUME SolverInv, LeaveJob
  PROVE  SolverInv'
  <1>. DEFINE j == Last(trail)
              N == Len(trail)
              M == Len(solution)
  <1>. (\A k : Deps(k)' = Deps(k)) /\ Needed' = Needed BY SameGraph DEF LeaveJob
  <1>0. /\ TypeOK /\ BlackIsSolved /\ SolutionOrdered /\ GrayIsTrail /\ TrailDone
        /\ OnlyNeeded /\ PassedAreSolved /\ run_list = <<>>
    BY DEF SolverInv, Searching, LeaveJob
  <1>1. /\ trail \in Seq(Jobs) /\ color \in [Jobs -> {"white", "gray", "black"}]
        /\ solution \in Seq(Jobs) /\ desired \in Seq(Jobs) /\ left \in [Jobs -> SUBSET Ids]
    BY <1>0 DEF TypeOK
  <1>2. /\ desired' = desired /\ run_list' = run_list /\ status' = status
        /\ left' = left /\ position' = position /\ status = "solving"
    BY DEF Solving, LeaveJob
  <1>3. N \in Nat /\ N > 0 /\ DOMAIN trail = 1..N /\ j = trail[N] /\ j \in Jobs
    BY <1>1 DEF Last, LeaveJob
  <1>4. /\ trail' \in Seq(Jobs) /\ Len(trail') = N - 1 /\ DOMAIN trail' = 1..N-1
        /\ \A i \in 1..N-1 : trail'[i] = trail[i]
    BY <1>1, <1>3 DEF Front, LeaveJob
  <1>5. /\ solution' \in Seq(Jobs) /\ DOMAIN solution' = 1..M+1 /\ solution'[M + 1] = j
        /\ \A i \in 1..M : solution'[i] = solution[i]
        /\ DOMAIN solution = 1..M /\ M \in Nat
    BY <1>1, <1>3 DEF LeaveJob
  <1>6. color' = [color EXCEPT ![j] = "black"] /\ color[j] = "gray" /\ left[j] = {}
    BY <1>0, <1>3 DEF GrayIsTrail, LeaveJob
  <1>7. TypeOK'
    <2>1. color' \in [Jobs -> {"white", "gray", "black"}] BY <1>1, <1>6
    <2>. QED BY <2>1, <1>0, <1>4, <1>5 DEF TypeOK, Solving, LeaveJob
  <1>8. BlackIsSolved'
    <2>1. \A i \in 1..M : solution[i] # j BY <1>0, <1>3, <1>5, <1>6 DEF BlackIsSolved
    <2>2. ASSUME NEW k \in Jobs
          PROVE  color'[k] = "black" <=> \E i \in DOMAIN solution' : solution'[i] = k
      <3>1. CASE k = j
        <4>1. M + 1 \in DOMAIN solution' /\ solution'[M + 1] = k BY <3>1, <1>5
        <4>2. color'[k] = "black" BY <3>1, <1>1, <1>3, <1>6
        <4>. QED BY <4>1, <4>2
      <3>2. CASE k # j
        <4>1. color'[k] = color[k] BY <3>2, <1>1, <1>6
        <4>2. (\E i \in DOMAIN solution' : solution'[i] = k)
                <=> \E i \in DOMAIN solution : solution[i] = k
          BY <3>2, <1>5
        <4>. QED BY <4>1, <4>2, <1>0 DEF BlackIsSolved
      <3>. QED BY <3>1, <3>2
    <2>3. \A i, k \in DOMAIN solution' : solution'[i] = solution'[k] => i = k
      BY <2>1, <1>0, <1>5 DEF BlackIsSolved
    <2>. QED BY <2>2, <2>3 DEF BlackIsSolved
  <1>9. \A d \in Deps(j) : \E i \in 1..M : solution[i] = d
    BY <1>0, <1>3, <1>5, <1>6 DEF TrailDone, BlackIsSolved
  <1>10. SolutionOrdered'
    <2>. SUFFICES ASSUME NEW k \in DOMAIN solution', NEW d \in Deps(solution'[k])
                  PROVE  \E i \in 1..k-1 : solution'[i] = d
      BY DEF SolutionOrdered
    <2>1. CASE k = M + 1
      <3>1. PICK i \in 1..M : solution[i] = d BY <2>1, <1>5, <1>9
      <3>. QED BY <3>1, <2>1, <1>5
    <2>2. CASE k # M + 1
      <3>1. k \in 1..M /\ solution'[k] = solution[k] BY <2>2, <1>5
      <3>2. PICK i \in 1..k-1 : solution[i] = d BY <3>1, <1>0, <1>5 DEF SolutionOrdered
      <3>. QED BY <3>1, <3>2, <1>5
    <2>. QED BY <2>1, <2>2
  <1>11. \A i \in 1..N-1 : trail[i] # j BY <1>0, <1>3 DEF GrayIsTrail
  <1>12. GrayIsTrail'
    <2>1. ASSUME NEW k \in Jobs
          PROVE  color'[k] = "gray" <=> \E i \in DOMAIN trail' : trail'[i] = k
      <3>1. CASE k = j BY <3>1, <1>1, <1>4, <1>6, <1>11
      <3>2. CASE k # j
        <4>1. color'[k] = color[k] BY <3>2, <1>1, <1>6
        <4>2. (\E i \in DOMAIN trail' : trail'[i] = k) <=> \E i \in DOMAIN trail : trail[i] = k
          BY <3>2, <1>3, <1>4
        <4>. QED BY <4>1, <4>2, <1>0 DEF GrayIsTrail
      <3>. QED BY <3>1, <3>2
    <2>2. \A i, k \in DOMAIN trail' : trail'[i] = trail'[k] => i = k
      BY <1>0, <1>3, <1>4 DEF GrayIsTrail
    <2>. QED BY <2>1, <2>2 DEF GrayIsTrail
  <1>13. TrailDone'
    <2>. SUFFICES ASSUME NEW n \in DOMAIN trail', NEW d \in Deps(trail'[n]) \ left'[trail'[n]]
                  PROVE  \/ d \in Jobs /\ color'[d] = "black"
                         \/ n < Len(trail') /\ d = trail'[n + 1]
      BY DEF TrailDone
    <2>0. n \in 1..N-1 /\ trail'[n] = trail[n] /\ left' = left BY <1>2, <1>4
    <2>1. \/ d \in Jobs /\ color[d] = "black"
          \/ n < N /\ d = trail[n + 1]
      BY <2>0, <1>0, <1>3 DEF TrailDone
    <2>2. CASE d \in Jobs /\ color[d] = "black" BY <2>2, <1>1, <1>6
    <2>3. CASE d = trail[n + 1]
      <3>1. CASE n < N - 1 BY <3>1, <2>0, <2>3, <1>3, <1>4
      <3>2. CASE n + 1 = N BY <3>2, <2>3, <1>1, <1>3, <1>6
      <3>. QED BY <3>1, <3>2, <2>0, <1>3
    <2>. QED BY <2>1, <2>2, <2>3
  <1>14. OnlyNeeded'
    <2>1. \A k \in Jobs : color'[k] # "white" => k \in Needed
      BY <1>0, <1>1, <1>6 DEF OnlyNeeded
    <2>2. \A n \in DOMAIN trail' : left'[trail'[n]] \subseteq Deps(trail'[n])
      BY <1>0, <1>2, <1>3, <1>4 DEF OnlyNeeded
    <2>. QED BY <2>1, <2>2 DEF OnlyNeeded
  <1>15. PassedAreSolved'
    <2>1. \A p \in DOMAIN desired : desired[p] \in Jobs BY <1>1
    <2>. QED BY <2>1, <1>0, <1>1, <1>2, <1>6 DEF PassedAreSolved
  <1>16. Searching'
    BY <1>0, <1>2, <1>8, <1>10, <1>12, <1>13, <1>14, <1>15 DEF Searching
  <1>. QED BY <1>2, <1>7, <1>16 DEF SolverInv, RunListOrdered, RunListIsClosure

(* The list is complete: what was desired is solved, and nothing else is.  *)
LEMMA SolvedKeeps ==
  ASSUME SolverInv, Solved
  PROVE  SolverInv'
  <1>. (\A k : Deps(k)' = Deps(k)) /\ Needed' = Needed
    BY DEF Solved, Deps, Needed, Closure, ClosedUnder, get_dependency_set
  <1>0. /\ TypeOK /\ BlackIsSolved /\ SolutionOrdered /\ GrayIsTrail
        /\ OnlyNeeded /\ PassedAreSolved
    BY DEF SolverInv, Searching, Solved
  <1>1. /\ solution \in Seq(Jobs) /\ desired \in Seq(Jobs) /\ position \in Nat
        /\ color \in [Jobs -> {"white", "gray", "black"}]
    BY <1>0 DEF TypeOK
  <1>2. desired' = desired /\ run_list' = solution /\ status' = "done" /\ position > Len(desired)
    BY DEF Solved
  <1>3. TypeOK' BY <1>0 DEF TypeOK, Solved, searchVars
  <1>4. RunListOrdered'
    <2>1. \A i, k \in DOMAIN solution : solution[i] = solution[k] => i = k
      BY <1>0 DEF BlackIsSolved
    <2>2. \A k \in DOMAIN solution : \A d \in get_dependency_set(solution[k], desired) :
            \E i \in 1..k-1 : solution[i] = d
      BY <1>0 DEF SolutionOrdered, Deps
    <2>. QED BY <2>1, <2>2, <1>2 DEF RunListOrdered, Solved, get_dependency_set
  <1>5. ToSet(solution) = Needed
    <2>1. \A j \in ToSet(solution) : j \in Jobs /\ color[j] = "black"
      BY <1>0, <1>1 DEF ToSet, BlackIsSolved
    <2>2. ToSet(solution) \subseteq Needed BY <2>1, <1>0 DEF OnlyNeeded
    <2>3. ToSet(desired) \subseteq ToSet(solution)
      <3>1. ASSUME NEW p \in DOMAIN desired PROVE desired[p] \in ToSet(solution)
        <4>1. desired[p] \in Jobs /\ color[desired[p]] = "black"
          BY <1>0, <1>1, <1>2 DEF PassedAreSolved
        <4>. QED BY <4>1, <1>0 DEF BlackIsSolved, ToSet
      <3>. QED BY <3>1 DEF ToSet
    <2>4. ASSUME NEW j \in ToSet(solution), NEW d \in Deps(j) PROVE d \in ToSet(solution)
      <3>1. PICK k \in DOMAIN solution : solution[k] = j BY DEF ToSet
      <3>2. PICK i \in 1..k-1 : solution[i] = d BY <3>1, <1>0 DEF SolutionOrdered
      <3>3. i \in DOMAIN solution BY <3>1, <3>2, <1>1
      <3>. QED BY <3>2, <3>3 DEF ToSet
    <2>5. ToSet(solution) \subseteq Ids BY <2>1, JobsAssumption
    <2>6. Needed \subseteq ToSet(solution) BY <2>3, <2>4, <2>5, NeededLeast
    <2>. QED BY <2>2, <2>6
  <1>6. RunListIsClosure'
    <2>1. Needed' = ToSet(run_list') BY <1>2, <1>5
    <2>. QED BY <2>1 DEF RunListIsClosure, Needed
  <1>. QED BY <1>2, <1>3, <1>4, <1>6 DEF SolverInv, Searching

(* A desired job that is solved already is gone past.                      *)
LEMMA PassKeeps ==
  ASSUME SolverInv, status = "solving", Solving, position \in DOMAIN desired,
         color[desired[position]] = "black", position' = position + 1,
         UNCHANGED <<color, trail, left, solution>>
  PROVE  SolverInv'
  <1>. USE SameGraph
  <1>0. /\ TypeOK /\ BlackIsSolved /\ SolutionOrdered /\ GrayIsTrail /\ TrailDone
        /\ OnlyNeeded /\ PassedAreSolved /\ run_list = <<>>
    BY DEF SolverInv, Searching
  <1>1. desired \in Seq(Jobs) /\ position \in Nat BY <1>0 DEF TypeOK
  <1>2. desired' = desired /\ run_list' = run_list /\ status' = status BY DEF Solving
  <1>3. TypeOK' BY <1>0 DEF TypeOK, Solving
  <1>4. PassedAreSolved' BY <1>0, <1>1, <1>2 DEF PassedAreSolved
  <1>5. BlackIsSolved' /\ SolutionOrdered' /\ GrayIsTrail' /\ TrailDone' /\ OnlyNeeded'
    BY <1>0, <1>2 DEF BlackIsSolved, SolutionOrdered, GrayIsTrail, TrailDone, OnlyNeeded
  <1>6. Searching' BY <1>0, <1>2, <1>4, <1>5 DEF Searching
  <1>. QED BY <1>2, <1>3, <1>6 DEF SolverInv, RunListOrdered, RunListIsClosure

LEMMA VisitDesiredKeeps ==
  ASSUME SolverInv, VisitDesired
  PROVE  SolverInv'
  <1>. DEFINE j == desired[position]
  <1>0. /\ TypeOK /\ desired \in Seq(Jobs) /\ position \in Nat \ {0} /\ status = "solving"
        /\ trail = <<>>
    BY DEF SolverInv, TypeOK, VisitDesired
  <1>1. position \in DOMAIN desired /\ j \in Jobs BY <1>0 DEF VisitDesired
  <1>2. CASE Drop("unknown", j, <<>>)
    <2>1. <<>> \in Seq(Jobs) OBVIOUS
    <2>. QED BY <2>1, <1>0, <1>1, <1>2, DropKeeps
  <1>3. CASE color[j] = "white" /\ Enter(j) /\ Solving /\ left' = [left EXCEPT ![j] = Deps(j)]
    <2>1. j \in Needed BY <1>0, <1>1, DesiredNeeded
    <2>. QED BY <2>1, <1>0, <1>1, <1>3, EnterKeeps
  <1>4. CASE /\ color[j] = "black" /\ position' = position + 1 /\ Solving
             /\ UNCHANGED <<color, trail, left, solution>>
    BY <1>0, <1>1, <1>4, PassKeeps
  <1>. QED BY <1>2, <1>3, <1>4 DEF VisitDesired, Deps

LEMMA VisitDependenciesKeeps ==
  ASSUME SolverInv, VisitDependencies
  PROVE  SolverInv'
  <1>. DEFINE j == Last(trail)
  <1>0. /\ TypeOK /\ OnlyNeeded /\ GrayIsTrail /\ trail \in Seq(Jobs) /\ trail # <<>>
        /\ status = "solving" /\ job_list \subseteq Jobs
        /\ color \in [Jobs -> {"white", "gray", "black"}]
    BY DEF SolverInv, Searching, TypeOK, VisitDependencies
  <1>1. Len(trail) \in DOMAIN trail /\ j = trail[Len(trail)] /\ j \in Jobs
    BY <1>0 DEF Last
  <1>2. PICK d \in left[j] : VisitDependency(d) BY DEF VisitDependencies
  <1>3. j \in Needed /\ d \in Needed
    <2>1. color[j] = "gray" BY <1>0, <1>1 DEF GrayIsTrail
    <2>2. d \in Deps(j) BY <1>0, <1>1, <1>2 DEF OnlyNeeded
    <2>3. j \in Needed BY <2>1, <1>0, <1>1 DEF OnlyNeeded
    <2>. QED BY <2>2, <2>3, <1>0, <1>1, NeededClosed
  <1>4. CASE Drop("missing", j, <<>>)
    <2>1. <<>> \in Seq(Jobs) OBVIOUS
    <2>. QED BY <2>1, <1>0, <1>1, <1>4, DropKeeps
  <1>5. CASE /\ d \in Jobs /\ color[d] = "white" /\ Enter(d) /\ Solving
             /\ left' = [left EXCEPT ![j] = @ \ {d}, ![d] = Deps(d)]
    BY <1>0, <1>3, <1>5, EnterKeeps
  <1>6. CASE d \in Jobs /\ color[d] = "gray" /\ Drop("cycle", d, Loop(d))
    <2>1. Loop(d) \in Seq(Jobs) BY <1>0, <1>6, LoopType DEF GrayIsTrail
    <2>. QED BY <2>1, <1>0, <1>6, DropKeeps
  <1>7. CASE /\ d \in Jobs /\ color[d] = "black" /\ Solving
             /\ left' = [left EXCEPT ![j] = @ \ {d}]
             /\ UNCHANGED <<color, trail, solution, position>>
    BY <1>0, <1>7, SkipKeeps
  <1>8. d \in Jobs => color[d] \in {"white", "gray", "black"} BY <1>0
  <1>. QED BY <1>0, <1>2, <1>4, <1>5, <1>6, <1>7, <1>8
       DEF VisitDependency, Deps, InLoop, AffectedByMissing

LEMMA SolverInvInductive == SolverInv /\ [Next]_vars => SolverInv'
  <1>. SUFFICES ASSUME SolverInv, [Next]_vars PROVE SolverInv' OBVIOUS
  <1>1. CASE VisitDesired BY <1>1, VisitDesiredKeeps
  <1>2. CASE VisitDependencies BY <1>2, VisitDependenciesKeeps
  <1>3. CASE LeaveJob BY <1>3, LeaveKeeps
  <1>4. CASE Solved BY <1>4, SolvedKeeps
  <1>5. CASE _restore_SessionState_desired_job_list BY <1>5, RestoreKeeps
  <1>6. CASE UNCHANGED vars
    <2>1. TypeOK' BY <1>6 DEF vars, SolverInv, TypeOK
    <2>2. (\A j : Deps(j)' = Deps(j)) /\ Needed' = Needed
      BY <1>6 DEF vars, Deps, Needed, Closure, ClosedUnder, get_dependency_set
    <2>3. Searching'
      BY <1>6, <2>2 DEF vars, SolverInv, Searching, BlackIsSolved, SolutionOrdered, GrayIsTrail,
                        TrailDone, OnlyNeeded, PassedAreSolved
    <2>4. RunListOrdered' BY <1>6 DEF vars, SolverInv, RunListOrdered, get_dependency_set
    <2>5. RunListIsClosure' BY <1>6, <2>2 DEF vars, SolverInv, RunListIsClosure, Needed
    <2>. QED BY <2>1, <2>3, <2>4, <2>5 DEF SolverInv
  <1>. QED BY <1>1, <1>2, <1>3, <1>4, <1>5, <1>6 DEF Next, Search, Finished

-----------------------------------------------------------------------------
(* The invariant of the search, in every reachable state.                  *)
THEOREM SolverInvariance == Spec => []SolverInv
  <1>. QED BY InitSolver, SolverInvInductive, PTL DEF Spec

(* All variables keep their types, also while jobs are dropped and lists   *)
(* are desired again (DependencySolver, update_desired_job_list).          *)
THEOREM TypeCorrect == Spec => []TypeOK
  <1>1. SolverInv => TypeOK BY DEF SolverInv
  <1>. QED BY <1>1, SolverInvariance, PTL

(* Whatever order the dependencies come in, each job of a run list stands  *)
(* there once and behind all it depends on (DependencySolver._visit).      *)
THEOREM Ordered == Spec => []RunListOrdered
  <1>1. SolverInv => RunListOrdered BY DEF SolverInv
  <1>. QED BY <1>1, SolverInvariance, PTL

(* The run list has the desired jobs that are left and what they need, and *)
(* nothing else (DependencySolver._solve, update_desired_job_list).        *)
THEOREM Complete == Spec => []RunListIsClosure
  <1>1. SolverInv => RunListIsClosure BY DEF SolverInv
  <1>. QED BY <1>1, SolverInvariance, PTL

(* "The current job is guaranteed to run before suspend" (job.rst), of the *)
(* jobs that are themselves desired: what is only needed by others is what *)
(* the suspend dependencies overlook.                                      *)
THEOREM DesiredRunBeforeSuspend == Spec => []SuspendRespected
  <1>1. SolverInv => SuspendRespected
    <2>. SUFFICES ASSUME SolverInv, status = "done",
                         NEW i \in DOMAIN run_list, NEW k \in DOMAIN run_list,
                         run_list[i] = graph.suspend,
                         run_list[k] \in graph.flagged \cap ToSet(desired)
                  PROVE  k < i
      BY DEF SuspendRespected
    <2>1. run_list \in Seq(Jobs) /\ RunListOrdered BY DEF SolverInv, TypeOK
    <2>2. run_list[k] \in get_dependency_set(run_list[i], desired)
      BY DEF get_dependency_set
    <2>3. PICK m \in 1..i-1 : run_list[m] = run_list[k] BY <2>1, <2>2 DEF RunListOrdered
    <2>4. m = k BY <2>1, <2>3 DEF RunListOrdered
    <2>. QED BY <2>1, <2>3, <2>4
  <1>. QED BY <1>1, SolverInvariance, PTL

=============================================================================
