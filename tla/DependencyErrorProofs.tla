----------------------- MODULE DependencyErrorProofs ------------------------
(***************************************************************************)
(* Proofs about the jobs that DependencySolver drops and about a resumed   *)
(* session, for every set of jobs, every graph and every selection: what   *)
(* is dropped is broken, the loop of a cycle error is one, and the list of *)
(* a session that was suspended is found again.                            *)
(***************************************************************************)
EXTENDS DependencySolverProofs

AskedDeps(j) == get_dependency_set(j, asked)

(* What is desired now was asked for, and so were the mandatory jobs; what *)
(* was dropped is not known any more, and what is not known is broken.     *)
LeftOfAsked ==
  /\ ToSet(desired) \subseteq ToSet(asked) /\ ToSet(mandatory) \subseteq ToSet(asked)
  /\ (ToSet(asked) \ ToSet(desired)) \cap job_list = {}
  /\ \A j \in Jobs \ job_list : Broken(j, asked)

(* Only known jobs are visited and listed.                                 *)
OnlyKnown ==
  /\ \A j \in Jobs : color[j] # "white" => j \in job_list
  /\ ToSet(run_list) \subseteq job_list

(* Each job of the trail depends on the next one, and so needs all behind  *)
(* it.                                                                     *)
TrailLinked ==
  /\ \A n \in 1..Len(trail) - 1 : trail[n + 1] \in AskedDeps(trail[n])
  /\ \A m \in DOMAIN trail : \A n \in 1..m : trail[m] \in Closure({trail[n]}, asked)

(* A job of the old run list has only jobs of that list behind it on the   *)
(* trail, and in the list they stood in front of it.                       *)
TrailBack ==
  FlaggedKept =>
    \A m \in DOMAIN trail : \A n \in 1..m-1 : \A k \in DOMAIN before :
      before[k] = trail[n] => \E i \in 1..k-1 : before[i] = trail[m]

(* The run list of the suspended session: what is asked for again beyond   *)
(* the mandatory jobs is on it; it is no more than what those of its jobs  *)
(* need that are asked for again; and it still is an order of jobs that    *)
(* all are known.                                                          *)
AskedAgain ==
  selections > 1 => ToSet(asked) \subseteq ToSet(mandatory) \cup ToSet(before)

StillAsked == ToSet(asked) \cap ToSet(before)

StillNeeded(t) ==
  graph.deps[t] \cup (IF t = graph.suspend THEN graph.flagged \cap StillAsked ELSE {})

BeforeNeeded ==
  \A T \in SUBSET Ids :
    StillAsked \subseteq T /\ (\A t \in T \cap Jobs : StillNeeded(t) \subseteq T)
      => ToSet(before) \subseteq T

BeforeOrdered ==
  /\ \A i, k \in DOMAIN before : before[i] = before[k] => i = k
  /\ FlaggedKept =>
       \A k \in DOMAIN before : \A d \in AskedDeps(before[k]) : \E i \in 1..k-1 : before[i] = d

BeforeKnown == FlaggedKept => ToSet(before) \subseteq job_list

DroppingInv ==
  /\ LeftOfAsked /\ OnlyKnown /\ TrailLinked /\ TrailBack /\ CycleIsReal
  /\ AskedAgain /\ BeforeNeeded /\ BeforeOrdered /\ BeforeKnown

DropInv == SolverInv /\ DroppingInv

-----------------------------------------------------------------------------
(* Lemmas about the operators.                                             *)

(* The first occurrence of a job is removed, and no other job.             *)
LEMMA RemoveOneSet ==
  ASSUME NEW S, NEW s \in Seq(S), NEW j
  PROVE  /\ ToSet(RemoveOne(s, j)) \subseteq ToSet(s)
         /\ ToSet(s) \ {j} \subseteq ToSet(RemoveOne(s, j))
  <1>1. CASE j \notin ToSet(s) BY <1>1 DEF RemoveOne
  <1>2. CASE j \in ToSet(s)
    <2>. DEFINE r == [k \in 1..Len(s)-1 |-> IF \E m \in 1..k : s[m] = j THEN s[k + 1] ELSE s[k]]
    <2>0. r = RemoveOne(s, j) BY <1>2 DEF RemoveOne
    <2>1. PICK p \in 1..Len(s) : s[p] = j BY <1>2 DEF ToSet
    <2>2. DOMAIN r = 1..Len(s)-1 /\ Len(s) \in Nat OBVIOUS
    <2>3. \A k \in 1..Len(s)-1 : r[k] \in ToSet(s) BY <2>2 DEF ToSet
    <2>4. ASSUME NEW q \in 1..Len(s), s[q] # j PROVE s[q] \in {r[k] : k \in DOMAIN r}
      <3>1. CASE \E m \in 1..q : s[m] = j
        <4>1. PICK m \in 1..q : s[m] = j BY <3>1
        <4>2. m \in 1..q-1 /\ q - 1 \in 1..Len(s)-1 BY <4>1, <2>4
        <4>3. r[q - 1] = s[q] BY <4>1, <4>2
        <4>. QED BY <4>2, <4>3
      <3>2. CASE \A m \in 1..q : s[m] # j
        <4>1. q < p BY <3>2, <2>1
        <4>2. q \in 1..Len(s)-1 BY <4>1
        <4>3. r[q] = s[q] BY <3>2, <4>2
        <4>. QED BY <4>2, <4>3
      <3>. QED BY <3>1, <3>2
    <2>5. ToSet(r) = {r[k] : k \in DOMAIN r} BY DEF ToSet
    <2>6. ToSet(s) = {s[k] : k \in 1..Len(s)} BY DEF ToSet
    <2>7. ToSet(r) \subseteq ToSet(s) BY <2>2, <2>3, <2>5
    <2>8. ToSet(s) \ {j} \subseteq ToSet(r) BY <2>4, <2>5, <2>6
    <2>. QED BY <2>0, <2>7, <2>8
  <1>. QED BY <1>1, <1>2

LEMMA ConcatSet ==
  ASSUME NEW S, NEW s \in Seq(S), NEW t \in Seq(S)
  PROVE  ToSet(s \o t) = ToSet(s) \cup ToSet(t)
  <1>. DEFINE u == s \o t
  <1>1. u \in Seq(S) /\ Len(u) = Len(s) + Len(t) /\ Len(s) \in Nat /\ Len(t) \in Nat OBVIOUS
  <1>2. \A k \in 1..Len(s) : k \in 1..Len(u) /\ u[k] = s[k] BY <1>1
  <1>3. \A k \in 1..Len(t) : k + Len(s) \in 1..Len(u) /\ u[k + Len(s)] = t[k] BY <1>1
  <1>4. \A k \in 1..Len(u) :
          \/ k \in 1..Len(s) /\ u[k] = s[k]
          \/ k - Len(s) \in 1..Len(t) /\ u[k] = t[k - Len(s)]
    BY <1>1
  <1>5. /\ ToSet(s) = {s[k] : k \in 1..Len(s)} /\ ToSet(t) = {t[k] : k \in 1..Len(t)}
        /\ ToSet(u) = {u[k] : k \in 1..Len(u)}
    BY <1>1 DEF ToSet
  <1>. HIDE DEF u
  <1>6. ToSet(u) \subseteq ToSet(s) \cup ToSet(t) BY <1>4, <1>5
  <1>7. ToSet(s) \subseteq ToSet(u) BY <1>2, <1>5
  <1>8. ToSet(t) \subseteq ToSet(u) BY <1>3, <1>5
  <1>9. ToSet(u) = ToSet(s) \cup ToSet(t) BY <1>6, <1>7, <1>8
  <1>. QED BY <1>9 DEF u

LEMMA AskedDepsType ==
  ASSUME TypeOK, NEW j \in Jobs
  PROVE  AskedDeps(j) \subseteq Ids
  BY JobsAssumption, GraphsAssumption DEF TypeOK, AskedDeps, get_dependency_set, GraphType

LEMMA MoreAsked ==
  ASSUME LeftOfAsked, NEW j
  PROVE  Deps(j) \subseteq AskedDeps(j)
  BY DEF LeftOfAsked, Deps, AskedDeps, get_dependency_set

(* A closure has what it is the closure of, and what that depends on.      *)
LEMMA ClosureHas ==
  ASSUME NEW list, NEW S, NEW j \in S \cap Ids
  PROVE  j \in Closure(S, list)
  BY DEF Closure

LEMMA ClosureStep ==
  ASSUME NEW list, NEW S, NEW j \in Jobs, j \in Closure(S, list),
         NEW d \in get_dependency_set(j, list), d \in Ids
  PROVE  d \in Closure(S, list)
  BY DEF Closure, ClosedUnder

LEMMA ClosureTransitive ==
  ASSUME NEW list, NEW S, NEW j, j \in Closure(S, list), NEW d \in Closure({j}, list)
  PROVE  d \in Closure(S, list)
  BY DEF Closure

(* What a job needs but itself is needed by what it depends on.            *)
LEMMA ClosureOfDeps ==
  ASSUME NEW list, NEW j \in Jobs, NEW d \in Closure({j}, list), d # j
  PROVE  d \in Closure(get_dependency_set(j, list), list)
  <1>. DEFINE D == get_dependency_set(j, list)
  <1>1. d \in Ids BY DEF Closure
  <1>2. ASSUME NEW T \in SUBSET Ids, D \subseteq T, ClosedUnder(T, list)
        PROVE  d \in T
    <2>1. T \cup {j} \in SUBSET Ids BY JobsAssumption
    <2>2. ClosedUnder(T \cup {j}, list) BY <1>2 DEF ClosedUnder
    <2>3. d \in T \cup {j} BY <2>1, <2>2 DEF Closure
    <2>. QED BY <2>3
  <1>. QED BY <1>1, <1>2 DEF Closure

(* What needs a broken job is broken.                                      *)
LEMMA BrokenUp ==
  ASSUME NEW list, NEW j \in Jobs, NEW d \in get_dependency_set(j, list), d \in Ids,
         d \notin Jobs \/ Broken(d, list)
  PROVE  Broken(j, list)
  <1>1. j \in Closure({j}, list) BY ClosureHas, JobsAssumption
  <1>2. d \in Closure({j}, list) BY <1>1, ClosureStep
  <1>3. CASE d \notin Jobs BY <1>2, <1>3 DEF Broken
  <1>4. CASE Broken(d, list)
    <2>1. PICK k \in Closure({d}, list) :
            k \notin Jobs \/ k \in Closure(get_dependency_set(k, list), list)
      BY <1>4 DEF Broken
    <2>2. k \in Closure({j}, list) BY <1>2, <2>1, ClosureTransitive
    <2>. QED BY <2>1, <2>2 DEF Broken
  <1>. QED BY <1>3, <1>4

(* A job that is needed by something it needs is broken.                   *)
LEMMA BrokenLoop ==
  ASSUME NEW list, NEW d \in Jobs, NEW j \in Jobs, j \in Closure({d}, list),
         d \in get_dependency_set(j, list)
  PROVE  Broken(d, list)
  <1>. DEFINE D == get_dependency_set(d, list)
  <1>0. d \in Ids BY JobsAssumption
  <1>1. d \in Closure({d}, list) BY <1>0, ClosureHas
  <1>2. d \in Closure(D, list)
    <2>1. CASE j = d BY <2>1, <1>0, ClosureHas
    <2>2. CASE j # d
      <3>1. j \in Closure(D, list) BY <2>2, ClosureOfDeps
      <3>. QED BY <3>1, <1>0, ClosureStep
    <2>. QED BY <2>1, <2>2
  <1>. QED BY <1>1, <1>2 DEF Broken

-----------------------------------------------------------------------------
(* No job is visited: nothing to show of the trail.                        *)
BeforeVisits ==
  trail = <<>> /\ color = [j \in Jobs |-> "white"] /\ ToSet(run_list) \subseteq job_list

LEMMA NothingVisited == BeforeVisits => OnlyKnown /\ TrailLinked /\ TrailBack
  BY DEF BeforeVisits, OnlyKnown, TrailLinked, TrailBack

LEMMA EmptyRange == ToSet(<<>>) = {}
  BY DEF ToSet

LEMMA InitDropping == Init => DroppingInv
  <1>. SUFFICES ASSUME Init PROVE DroppingInv OBVIOUS
  <1>0. mandatory \in Seq(Jobs) /\ asked = desired /\ before = <<>> /\ problems = {}
        /\ job_list = Jobs /\ run_list = <<>> /\ selections = 1
    BY SelectionsAssumption DEF Init, SelectionType
  <1>1. PICK s \in Selections : mandatory = s.mandatory /\ asked = s.mandatory \o s.chosen
    BY DEF Init
  <1>2. s.mandatory \in Seq(Jobs) /\ s.chosen \in Seq(Jobs)
    BY SelectionsAssumption DEF SelectionType
  <1>3. ToSet(mandatory) \subseteq ToSet(asked) BY <1>1, <1>2, ConcatSet
  <1>4. LeftOfAsked BY <1>0, <1>3 DEF LeftOfAsked
  <1>5. OnlyKnown /\ TrailLinked /\ TrailBack
    BY <1>0, EmptyRange, NothingVisited DEF Init, BeforeVisits
  <1>6. CycleIsReal BY <1>0 DEF CycleIsReal
  <1>7. AskedAgain BY <1>0 DEF AskedAgain
  <1>8. BeforeNeeded /\ BeforeOrdered /\ BeforeKnown
    BY <1>0, EmptyRange DEF BeforeNeeded, BeforeOrdered, BeforeKnown
  <1>. QED BY <1>4, <1>5, <1>6, <1>7, <1>8 DEF DroppingInv

-----------------------------------------------------------------------------
(* Why a job is dropped.                                                   *)

(* The part of the trail from a job to the one that depends on it again.   *)
LEMMA LoopIsReal ==
  ASSUME trail \in Seq(Jobs), TrailLinked, NEW d \in Jobs,
         \E n \in DOMAIN trail : trail[n] = d, d \in AskedDeps(Last(trail))
  PROVE  /\ Len(Loop(d)) > 1 /\ Loop(d)[1] = Last(Loop(d)) /\ d = Loop(d)[1]
         /\ \A k \in 1..Len(Loop(d)) - 1 : Loop(d)[k + 1] \in AskedDeps(Loop(d)[k])
  <1>. DEFINE i == CHOOSE n \in DOMAIN trail : trail[n] = d
              N == Len(trail)
              part == SubSeq(trail, i, N)
              L == Append(part, d)
  <1>1. N \in Nat /\ DOMAIN trail = 1..N OBVIOUS
  <1>2. i \in 1..N /\ trail[i] = d OBVIOUS
  <1>3. part \in Seq(Jobs) /\ Len(part) = N - i + 1 /\ \A k \in 1..N-i+1 : part[k] = trail[i + k - 1]
    BY <1>1, <1>2, SMTT(30)
  <1>. HIDE DEF i, part, N
  <1>3a. /\ L \in Seq(Jobs) /\ Len(L) = Len(part) + 1 /\ L[Len(part) + 1] = d
         /\ \A k \in 1..Len(part) : L[k] = part[k]
    BY <1>3
  <1>4. /\ L \in Seq(Jobs) /\ Len(L) = N - i + 2 /\ L[N - i + 2] = d
        /\ \A k \in 1..N-i+1 : L[k] = trail[i + k - 1]
    <2>. HIDE DEF L
    <2>. QED BY <1>1, <1>2, <1>3, <1>3a
  <1>5. L = Loop(d) BY DEF Loop, i, part, N
  <1>6. Len(L) > 1 /\ L[1] = d BY <1>1, <1>2, <1>4
  <1>7. Last(L) = d BY <1>1, <1>2, <1>4 DEF Last
  <1>8. Last(trail) = trail[N] BY DEF Last, N
  <1>. HIDE DEF L
  <1>9. ASSUME NEW k \in 1..Len(L) - 1 PROVE L[k + 1] \in AskedDeps(L[k])
    <2>1. k \in 1..N-i+1 /\ L[k] = trail[i + k - 1] BY <1>1, <1>2, <1>4, <1>9
    <2>2. CASE k = N - i + 1
      <3>1. L[k + 1] = d /\ L[k] = trail[N] BY <2>1, <2>2, <1>1, <1>2, <1>4
      <3>. QED BY <3>1, <1>8
    <2>3. CASE k < N - i + 1
      <3>1. k + 1 \in 1..N-i+1 /\ L[k + 1] = trail[i + k] BY <2>1, <2>3, <1>1, <1>2, <1>4
      <3>2. i + k - 1 \in 1..N-1 /\ (i + k - 1) + 1 = i + k BY <2>1, <2>3, <1>1, <1>2
      <3>3. trail[(i + k - 1) + 1] \in AskedDeps(trail[i + k - 1])
        BY <3>2 DEF TrailLinked, N
      <3>. QED BY <2>1, <3>1, <3>2, <3>3
    <2>. QED BY <2>1, <2>2, <2>3, <1>1, <1>2
  <1>. QED BY <1>5, <1>6, <1>7, <1>9

(* Every step that drops a job: its dropping is justified, and it is not   *)
(* one of the old run list.                                                *)
LEMMA DropKeepsDropping ==
  ASSUME DropInv, status = "solving", NEW kind \in {"unknown", "missing", "cycle"},
         NEW j \in Jobs, NEW cycle, Drop(kind, j, cycle), Broken(j, asked),
         FlaggedKept => j \notin ToSet(before),
         kind = "cycle" =>
           /\ Len(cycle) > 1 /\ cycle[1] = Last(cycle) /\ j = cycle[1]
           /\ \A k \in 1..Len(cycle) - 1 : cycle[k + 1] \in AskedDeps(cycle[k])
  PROVE  DroppingInv'
  <1>0. /\ TypeOK /\ LeftOfAsked /\ CycleIsReal /\ AskedAgain /\ BeforeNeeded /\ BeforeOrdered
        /\ BeforeKnown /\ run_list = <<>>
    BY DEF DropInv, DroppingInv, SolverInv, Searching
  <1>1. /\ desired' = RemoveOne(desired, j) /\ job_list' = job_list \ {j}
        /\ problems' = problems \cup {[kind |-> kind, affected |-> j, cycle |-> cycle]}
        /\ graph' = graph /\ mandatory' = mandatory /\ asked' = asked /\ run_list' = run_list
        /\ before' = before /\ selections' = selections
    BY DEF Drop, KnownWithout
  <1>2. \A k : AskedDeps(k)' = AskedDeps(k) BY <1>1 DEF AskedDeps, get_dependency_set
  <1>3. \A k \in Jobs : Broken(k, asked)' = Broken(k, asked)
    BY <1>1 DEF Broken, Closure, ClosedUnder, get_dependency_set
  <1>4. desired \in Seq(Jobs) BY <1>0 DEF TypeOK
  <1>5. LeftOfAsked'
    <2>1. /\ ToSet(desired') \subseteq ToSet(desired)
          /\ ToSet(desired) \ {j} \subseteq ToSet(desired')
      BY <1>1, <1>4, RemoveOneSet
    <2>2. \A k \in Jobs \ job_list' : Broken(k, asked)' BY <1>0, <1>1, <1>3 DEF LeftOfAsked
    <2>. QED BY <2>1, <2>2, <1>0, <1>1 DEF LeftOfAsked
  <1>6. OnlyKnown' /\ TrailLinked' /\ TrailBack'
    <2>1. trail' = <<>> /\ color' = [k \in Jobs |-> "white"] BY DEF Drop, Unvisited
    <2>2. ToSet(run_list') \subseteq job_list' BY <1>0, <1>1, EmptyRange
    <2>3. BeforeVisits' BY <2>1, <2>2 DEF BeforeVisits
    <2>. QED BY <2>3, NothingVisited, PTL
  <1>7. CycleIsReal' BY <1>0, <1>1, <1>2 DEF CycleIsReal, AskedDeps
  <1>8. AskedAgain' BY <1>0, <1>1 DEF AskedAgain
  <1>9. BeforeNeeded' BY <1>0, <1>1 DEF BeforeNeeded, StillAsked, StillNeeded
  <1>10. BeforeOrdered' BY <1>0, <1>1, <1>2 DEF BeforeOrdered, FlaggedKept
  <1>11. BeforeKnown' BY <1>0, <1>1 DEF BeforeKnown, FlaggedKept
  <1>. QED BY <1>5, <1>6, <1>7, <1>8, <1>9, <1>10, <1>11 DEF DroppingInv

-----------------------------------------------------------------------------
(* The steps of the search that drop nothing.                              *)

(* What is asked, what is known and what is needed of it stay.             *)
LEMMA SameAsked ==
  ASSUME UNCHANGED <<graph, mandatory, asked, desired, job_list, problems, before, selections>>,
         DroppingInv
  PROVE  /\ LeftOfAsked' /\ CycleIsReal' /\ AskedAgain' /\ BeforeNeeded' /\ BeforeOrdered'
         /\ BeforeKnown'
         /\ (\A j : AskedDeps(j)' = AskedDeps(j)) /\ FlaggedKept' = FlaggedKept
         /\ \A S : Closure(S, asked') = Closure(S, asked)
  <1>1. LeftOfAsked'
    BY DEF DroppingInv, LeftOfAsked, Broken, Closure, ClosedUnder, get_dependency_set
  <1>2. CycleIsReal' BY DEF DroppingInv, CycleIsReal, get_dependency_set
  <1>3. AskedAgain' BY DEF DroppingInv, AskedAgain
  <1>4. BeforeNeeded' BY DEF DroppingInv, BeforeNeeded, StillNeeded, StillAsked
  <1>5. FlaggedKept' = FlaggedKept BY DEF FlaggedKept
  <1>6. \A j : AskedDeps(j)' = AskedDeps(j) BY DEF AskedDeps, get_dependency_set
  <1>7. BeforeOrdered' BY <1>5, <1>6 DEF DroppingInv, BeforeOrdered
  <1>8. BeforeKnown' BY <1>5 DEF DroppingInv, BeforeKnown
  <1>. QED BY <1>1, <1>2, <1>3, <1>4, <1>5, <1>6, <1>7, <1>8

LEMMA SameTrail ==
  ASSUME UNCHANGED <<graph, mandatory, asked, desired, job_list, problems, before, selections>>,
         DroppingInv, trail' = trail, color' = color, ToSet(run_list') \subseteq job_list
  PROVE  DroppingInv'
  <1>. USE SameAsked
  <1>1. OnlyKnown' BY DEF DroppingInv, OnlyKnown
  <1>2. TrailLinked'
    <2>1. \A S : Closure(S, asked)' = Closure(S, asked)
      BY DEF Closure, ClosedUnder, get_dependency_set
    <2>. QED BY <2>1 DEF DroppingInv, TrailLinked
  <1>3. TrailBack' BY DEF DroppingInv, TrailBack
  <1>. QED BY <1>1, <1>2, <1>3 DEF DroppingInv

LEMMA EnterKeepsDropping ==
  ASSUME DropInv, status = "solving", Solving, NEW d \in Jobs, d \in job_list, Enter(d),
         trail # <<>> => d \in Deps(Last(trail))
  PROVE  DroppingInv'
  <1>. DEFINE N == Len(trail)
  <1>0. /\ TypeOK /\ DroppingInv /\ OnlyKnown /\ TrailLinked /\ TrailBack /\ BeforeOrdered
        /\ trail \in Seq(Jobs) /\ before \in Seq(Jobs)
        /\ color \in [Jobs -> {"white", "gray", "black"}]
    BY DEF DropInv, DroppingInv, SolverInv, TypeOK
  <1>1. /\ color' = [color EXCEPT ![d] = "gray"] /\ trail' = Append(trail, d)
        /\ run_list' = run_list /\ before' = before /\ job_list' = job_list
    BY DEF Enter, Solving
  <1>2. UNCHANGED <<graph, mandatory, asked, desired, job_list, problems, before, selections>>
    BY DEF Solving
  <1>3. /\ LeftOfAsked' /\ CycleIsReal' /\ AskedAgain' /\ BeforeNeeded' /\ BeforeOrdered'
        /\ BeforeKnown' /\ FlaggedKept' = FlaggedKept
        /\ (\A j : AskedDeps(j)' = AskedDeps(j))
        /\ \A S : Closure(S, asked') = Closure(S, asked)
    BY <1>0, <1>2, SameAsked
  <1>4. /\ N \in Nat /\ DOMAIN trail = 1..N /\ DOMAIN trail' = 1..N+1 /\ trail'[N + 1] = d
        /\ \A n \in 1..N : trail'[n] = trail[n] /\ trail[n] \in Jobs
        /\ Len(trail') = N + 1
    BY <1>0, <1>1
  <1>5. N > 0 => d \in AskedDeps(trail[N])
    <2>1. N > 0 => trail # <<>> /\ Last(trail) = trail[N] BY DEF Last
    <2>. QED BY <2>1, <1>0, MoreAsked DEF DroppingInv
  <1>. HIDE DEF N
  <1>6. OnlyKnown'
    <2>1. \A j \in Jobs : color'[j] # "white" => j \in job_list'
      BY <1>0, <1>1 DEF OnlyKnown
    <2>. QED BY <2>1, <1>0, <1>1 DEF OnlyKnown
  <1>7. ASSUME NEW n \in 1..N PROVE trail'[n + 1] \in AskedDeps(trail'[n])
    <2>1. CASE n = N BY <2>1, <1>4, <1>5
    <2>2. CASE n < N
      <3>1. n + 1 \in 1..N /\ n \in 1..N-1 BY <2>2, <1>4
      <3>. QED BY <3>1, <1>0, <1>4 DEF TrailLinked, N
    <2>. QED BY <2>1, <2>2, <1>4
  <1>8. ASSUME NEW m \in 1..N+1, NEW n \in 1..m
        PROVE  trail'[m] \in Closure({trail'[n]}, asked)
    <2>0. d \in Ids BY JobsAssumption
    <2>1. CASE m <= N
      <3>1. m \in 1..N /\ n \in 1..N BY <2>1, <1>4
      <3>2. trail[m] \in Closure({trail[n]}, asked) BY <3>1, <1>0, <1>4 DEF TrailLinked
      <3>. QED BY <3>1, <3>2, <1>4
    <2>2. CASE m = N + 1 /\ n = N + 1
      <3>1. d \in Closure({d}, asked) BY <2>0, ClosureHas
      <3>. QED BY <3>1, <2>2, <1>4
    <2>3. CASE m = N + 1 /\ n <= N
      <3>1. n \in 1..N /\ N \in 1..N /\ N > 0 BY <2>3, <1>4
      <3>2. trail[N] \in Closure({trail[n]}, asked) BY <3>1, <1>0, <1>4 DEF TrailLinked
      <3>3. d \in Closure({trail[n]}, asked)
        BY <3>1, <3>2, <2>0, <1>4, <1>5, ClosureStep DEF AskedDeps
      <3>. QED BY <3>1, <3>3, <2>3, <1>4
    <2>. QED BY <2>1, <2>2, <2>3, <1>4
  <1>9. TrailLinked'
    <2>1. \A S : Closure(S, asked)' = Closure(S, asked)
      BY <1>2 DEF Closure, ClosedUnder, get_dependency_set
    <2>2. (\A n \in 1..Len(trail) - 1 : trail[n + 1] \in AskedDeps(trail[n]))'
      BY <1>3, <1>4, <1>7
    <2>3. (\A m \in DOMAIN trail : \A n \in 1..m : trail[m] \in Closure({trail[n]}, asked))'
      BY <2>1, <1>4, <1>8
    <2>. QED BY <2>2, <2>3 DEF TrailLinked
  <1>10. TrailBack'
    <2>. SUFFICES ASSUME FlaggedKept, NEW m \in 1..N+1, NEW n \in 1..m-1,
                         NEW k \in DOMAIN before, before[k] = trail'[n]
                  PROVE  \E i \in 1..k-1 : before[i] = trail'[m]
      BY <1>1, <1>3, <1>4 DEF TrailBack
    <2>0. /\ n \in 1..N /\ trail'[n] = trail[n]
          /\ DOMAIN before = 1..Len(before) /\ Len(before) \in Nat
      BY <1>0, <1>4
    <2>1. CASE m <= N
      <3>1. m \in DOMAIN trail /\ trail'[m] = trail[m] BY <2>1, <1>4
      <3>. QED BY <3>1, <2>0, <1>0 DEF TrailBack
    <2>2. CASE m = N + 1
      <3>1. PICK i \in 1..k : before[i] = trail[N]
        <4>1. CASE n = N BY <4>1, <2>0
        <4>2. CASE n # N
          <5>1. n \in 1..N-1 /\ N \in DOMAIN trail BY <4>2, <2>0, <1>4
          <5>2. \E i \in 1..k-1 : before[i] = trail[N] BY <5>1, <2>0, <1>0 DEF TrailBack
          <5>. QED BY <5>2, <2>0
        <4>. QED BY <4>1, <4>2
      <3>2. i \in DOMAIN before /\ d \in AskedDeps(before[i]) BY <3>1, <2>0, <1>4, <1>5
      <3>3. PICK h \in 1..i-1 : before[h] = d BY <3>2, <1>0 DEF BeforeOrdered
      <3>4. h \in 1..k-1 /\ before[h] = trail'[m] BY <3>1, <3>3, <2>0, <2>2, <1>4
      <3>. QED BY <3>4
    <2>. QED BY <2>1, <2>2, <1>4
  <1>. QED BY <1>3, <1>6, <1>9, <1>10 DEF DroppingInv

LEMMA LeaveKeepsDropping ==
  ASSUME DropInv, LeaveJob
  PROVE  DroppingInv'
  <1>. DEFINE N == Len(trail)
  <1>0. /\ DroppingInv /\ OnlyKnown /\ TrailLinked /\ TrailBack /\ GrayIsTrail
        /\ trail \in Seq(Jobs) /\ trail # <<>>
        /\ color \in [Jobs -> {"white", "gray", "black"}]
    BY DEF DropInv, DroppingInv, SolverInv, Searching, TypeOK, LeaveJob
  <1>1. /\ color' = [color EXCEPT ![Last(trail)] = "black"] /\ trail' = Front(trail)
        /\ run_list' = run_list /\ before' = before /\ job_list' = job_list
    BY DEF LeaveJob, Solving
  <1>2. UNCHANGED <<graph, mandatory, asked, desired, job_list, problems, before, selections>>
    BY DEF LeaveJob, Solving
  <1>3. /\ LeftOfAsked' /\ CycleIsReal' /\ AskedAgain' /\ BeforeNeeded' /\ BeforeOrdered'
        /\ BeforeKnown' /\ FlaggedKept' = FlaggedKept
        /\ (\A j : AskedDeps(j)' = AskedDeps(j))
    BY <1>0, <1>2, SameAsked
  <1>4. /\ N \in Nat /\ N > 0 /\ DOMAIN trail = 1..N /\ DOMAIN trail' = 1..N-1
        /\ \A n \in 1..N-1 : trail'[n] = trail[n]
        /\ Len(trail') = N - 1
        /\ Last(trail) = trail[N] /\ Last(trail) \in Jobs
    <2>1. N \in Nat /\ N > 0 /\ DOMAIN trail = 1..N BY <1>0
    <2>2. /\ trail' \in Seq(Jobs) /\ Len(trail') = N - 1 /\ DOMAIN trail' = 1..N-1
          /\ \A n \in 1..N-1 : trail'[n] = trail[n]
      BY <1>0, <1>1, <2>1 DEF Front
    <2>. QED BY <2>1, <2>2, <1>0 DEF Last
  <1>5. OnlyKnown'
    <2>1. color[Last(trail)] = "gray" BY <1>0, <1>4 DEF GrayIsTrail
    <2>2. \A j \in Jobs : color'[j] # "white" => j \in job_list'
      BY <2>1, <1>0, <1>1, <1>4 DEF OnlyKnown
    <2>. QED BY <2>2, <1>0, <1>1 DEF OnlyKnown
  <1>6. TrailLinked'
    <2>1. \A S : Closure(S, asked)' = Closure(S, asked)
      BY <1>2 DEF Closure, ClosedUnder, get_dependency_set
    <2>2. (\A n \in 1..Len(trail) - 1 : trail[n + 1] \in AskedDeps(trail[n]))'
      <3>1. \A n \in 1..N-2 : trail[n + 1] \in AskedDeps(trail[n]) BY <1>0, <1>4 DEF TrailLinked
      <3>. QED BY <3>1, <1>3, <1>4
    <2>3. (\A m \in DOMAIN trail : \A n \in 1..m : trail[m] \in Closure({trail[n]}, asked))'
      <3>1. \A m \in 1..N-1 : \A n \in 1..m : trail[m] \in Closure({trail[n]}, asked)
        <4>1. \A m \in DOMAIN trail : \A n \in 1..m : trail[m] \in Closure({trail[n]}, asked)
          BY <1>0 DEF TrailLinked
        <4>2. \A m \in 1..N-1 : m \in DOMAIN trail BY <1>4
        <4>. QED BY <4>1, <4>2
      <3>2. \A m \in 1..N-1 : \A n \in 1..m : n \in 1..N-1 BY <1>4
      <3>. QED BY <3>1, <3>2, <2>1, <1>4
    <2>. QED BY <2>2, <2>3 DEF TrailLinked
  <1>7. TrailBack'
    <2>1. FlaggedKept =>
            \A m \in DOMAIN trail : \A n \in 1..m-1 : \A k \in DOMAIN before :
              before[k] = trail[n] => \E i \in 1..k-1 : before[i] = trail[m]
      BY <1>0 DEF TrailBack
    <2>2. \A m \in 1..N-1 : m \in DOMAIN trail /\ \A n \in 1..m-1 : n \in 1..N-1 BY <1>4
    <2>3. ASSUME FlaggedKept, NEW m \in 1..N-1, NEW n \in 1..m-1, NEW k \in DOMAIN before,
                 before[k] = trail'[n]
          PROVE  \E i \in 1..k-1 : before[i] = trail'[m]
      <3>1. trail'[m] = trail[m] /\ trail'[n] = trail[n] BY <2>2, <1>4
      <3>. QED BY <3>1, <2>1, <2>2, <2>3
    <2>4. before' = before /\ FlaggedKept' = FlaggedKept /\ DOMAIN trail' = 1..N-1
      BY <1>1, <1>3, <1>4
    <2>. QED BY <2>3, <2>4 DEF TrailBack
  <1>. QED BY <1>3, <1>5, <1>6, <1>7 DEF DroppingInv

LEMMA SolvedKeepsDropping ==
  ASSUME DropInv, Solved
  PROVE  DroppingInv'
  <1>0. /\ DroppingInv /\ OnlyKnown /\ BlackIsSolved /\ solution \in Seq(Jobs)
    BY DEF DropInv, DroppingInv, SolverInv, Searching, TypeOK, Solved
  <1>1. UNCHANGED <<graph, mandatory, asked, desired, job_list, problems, before, selections>>
    BY DEF Solved
  <1>2. trail' = trail /\ color' = color /\ run_list' = solution BY DEF Solved, searchVars
  <1>3. ToSet(solution) \subseteq job_list
    <2>1. \A k \in DOMAIN solution : solution[k] \in Jobs BY <1>0
    <2>2. \A k \in DOMAIN solution : solution[k] \in job_list
      BY <2>1, <1>0 DEF BlackIsSolved, OnlyKnown
    <2>. QED BY <2>2 DEF ToSet
  <1>. QED BY <1>0, <1>1, <1>2, <1>3, SameTrail

LEMMA VisitDesiredDropping ==
  ASSUME DropInv, VisitDesired
  PROVE  DroppingInv'
  <1>. DEFINE j == desired[position]
  <1>0. /\ SolverInv /\ DroppingInv /\ TypeOK /\ desired \in Seq(Jobs) /\ position \in Nat \ {0}
        /\ status = "solving" /\ trail = <<>>
    BY DEF DropInv, SolverInv, TypeOK, VisitDesired
  <1>1. position \in DOMAIN desired /\ j \in Jobs BY <1>0 DEF VisitDesired
  <1>2. CASE j \notin job_list /\ Drop("unknown", j, <<>>)
    <2>1. Broken(j, asked) BY <1>0, <1>1, <1>2 DEF DroppingInv, LeftOfAsked
    <2>2. FlaggedKept => j \notin ToSet(before) BY <1>0, <1>2 DEF DroppingInv, BeforeKnown
    <2>. QED BY <2>1, <2>2, <1>0, <1>1, <1>2, DropKeepsDropping
  <1>3. CASE j \in job_list /\ Enter(j) /\ Solving
    BY <1>0, <1>1, <1>3, EnterKeepsDropping
  <1>4. CASE Solving /\ UNCHANGED <<color, trail>>
    BY <1>0, <1>4, SameTrail DEF Solving, DroppingInv, OnlyKnown
  <1>. QED BY <1>2, <1>3, <1>4 DEF VisitDesired

(* A dependency is looked at: what drops a job is a dependency that is not *)
(* known, or one that is on the trail, and neither is of the old run list. *)
LEMMA VisitDependenciesDropping ==
  ASSUME DropInv, VisitDependencies
  PROVE  DroppingInv'
  <1>. DEFINE j == Last(trail)
              N == Len(trail)
  <1>0. /\ SolverInv /\ DroppingInv /\ TypeOK /\ OnlyNeeded /\ GrayIsTrail
        /\ LeftOfAsked /\ TrailLinked /\ TrailBack /\ BeforeOrdered /\ BeforeKnown
        /\ trail \in Seq(Jobs) /\ trail # <<>> /\ before \in Seq(Jobs)
        /\ status = "solving" /\ job_list \subseteq Jobs
    BY DEF DropInv, DroppingInv, SolverInv, Searching, TypeOK, VisitDependencies
  <1>1. N \in DOMAIN trail /\ j = trail[N] /\ j \in Jobs /\ N \in Nat /\ DOMAIN trail = 1..N
    BY <1>0 DEF Last
  <1>2. PICK d \in left[j] : VisitDependency(d) BY DEF VisitDependencies
  <1>3. d \in Deps(j) /\ d \in AskedDeps(j) /\ d \in Ids
    <2>1. d \in Deps(j) BY <1>0, <1>1, <1>2 DEF OnlyNeeded
    <2>. QED BY <2>1, <1>0, <1>1, MoreAsked, DepsType
  <1>4. ASSUME FlaggedKept, NEW k \in DOMAIN before, before[k] = j
        PROVE  \E i \in 1..k-1 : before[i] = d
    BY <1>0, <1>3, <1>4 DEF BeforeOrdered
  <1>5. /\ DOMAIN before = 1..Len(before) /\ Len(before) \in Nat
        /\ ToSet(before) = {before[k] : k \in 1..Len(before)}
    BY <1>0 DEF ToSet
  <1>6. CASE d \notin job_list /\ Drop("missing", j, <<>>)
    <2>1. d \notin Jobs \/ Broken(d, asked) BY <1>0, <1>6 DEF LeftOfAsked
    <2>2. Broken(j, asked) BY <2>1, <1>1, <1>3, BrokenUp DEF AskedDeps
    <2>3. ASSUME FlaggedKept, j \in ToSet(before) PROVE FALSE
      <3>1. PICK k \in 1..Len(before) : before[k] = j BY <2>3, <1>5
      <3>2. PICK i \in 1..k-1 : before[i] = d BY <3>1, <2>3, <1>4, <1>5
      <3>3. d \in ToSet(before) BY <3>2, <1>5
      <3>. QED BY <3>3, <2>3, <1>0, <1>6 DEF BeforeKnown
    <2>. QED BY <2>2, <2>3, <1>0, <1>1, <1>6, DropKeepsDropping DEF DropInv
  <1>7. CASE d \in job_list /\ color[d] = "gray" /\ Drop("cycle", d, Loop(d))
    <2>1. d \in Jobs BY <1>0, <1>7
    <2>2. PICK n \in 1..N : trail[n] = d BY <2>1, <1>0, <1>1, <1>7 DEF GrayIsTrail
    <2>3. j \in Closure({d}, asked) BY <2>2, <1>0, <1>1 DEF TrailLinked
    <2>4. Broken(d, asked) BY <2>1, <2>3, <1>1, <1>3, BrokenLoop DEF AskedDeps
    <2>5. ASSUME FlaggedKept, d \in ToSet(before) PROVE FALSE
      <3>1. PICK k \in 1..Len(before) : before[k] = d BY <2>5, <1>5
      <3>2. PICK i \in 1..k : before[i] = j
        <4>1. CASE n = N BY <4>1, <3>1, <2>2, <1>1
        <4>2. CASE n # N
          <5>1. n \in 1..N-1
            <6>. HIDE DEF N
            <6>. QED BY <4>2, <1>1
          <5>2. \E i \in 1..k-1 : before[i] = trail[N]
            BY <5>1, <3>1, <2>2, <2>5, <1>0, <1>1, <1>5 DEF TrailBack
          <5>. QED BY <5>2, <1>1
        <4>. QED BY <4>1, <4>2
      <3>3. PICK h \in 1..i-1 : before[h] = d BY <3>1, <3>2, <2>5, <1>4, <1>5
      <3>4. h \in 1..Len(before) /\ h # k /\ before[h] = before[k] BY <3>1, <3>2, <3>3
      <3>. QED BY <3>1, <3>4, <1>0, <1>5 DEF BeforeOrdered
    <2>6. /\ Len(Loop(d)) > 1 /\ Loop(d)[1] = Last(Loop(d)) /\ d = Loop(d)[1]
          /\ \A k \in 1..Len(Loop(d)) - 1 : Loop(d)[k + 1] \in AskedDeps(Loop(d)[k])
      BY <2>1, <2>2, <1>0, <1>1, <1>3, LoopIsReal
    <2>. QED BY <2>1, <2>4, <2>5, <2>6, <1>0, <1>7, DropKeepsDropping
  <1>8. CASE d \in job_list /\ Enter(d) /\ Solving
    BY <1>0, <1>3, <1>8, EnterKeepsDropping
  <1>9. CASE Solving /\ UNCHANGED <<color, trail>>
    BY <1>0, <1>9, SameTrail DEF Solving, DroppingInv, OnlyKnown
  <1>. QED BY <1>2, <1>6, <1>7, <1>8, <1>9 DEF VisitDependency, InLoop, AffectedByMissing

(* A list is desired again.  If the jobs to be run before the suspend job  *)
(* are those of the old list, nothing depends on more than it did there.   *)
LEMMA RestoreKeepsDropping ==
  ASSUME DropInv, _restore_SessionState_desired_job_list
  PROVE  DroppingInv'
  <1>0. /\ TypeOK /\ LeftOfAsked /\ OnlyKnown /\ RunListOrdered /\ RunListIsClosure
        /\ desired \in Seq(Jobs) /\ mandatory \in Seq(Jobs) /\ run_list \in Seq(Jobs)
        /\ status = "done" /\ selections \in Nat
    BY DEF DropInv, DroppingInv, SolverInv, TypeOK, _restore_SessionState_desired_job_list
  <1>1. /\ before' = run_list /\ desired' = mandatory \o desired /\ asked' = mandatory \o desired
        /\ job_list' = Jobs /\ run_list' = <<>> /\ problems' = {}
        /\ graph' = graph /\ mandatory' = mandatory /\ selections' = selections + 1
        /\ trail' = <<>> /\ color' = [j \in Jobs |-> "white"]
    BY DEF _restore_SessionState_desired_job_list, DesiredAgain, Unvisited
  <1>2. ToSet(asked') = ToSet(mandatory) \cup ToSet(desired) BY <1>0, <1>1, ConcatSet
  <1>3. LeftOfAsked' BY <1>1, <1>2 DEF LeftOfAsked
  <1>4. OnlyKnown' /\ TrailLinked' /\ TrailBack'
    <2>1. BeforeVisits' BY <1>1, EmptyRange DEF BeforeVisits
    <2>. QED BY <2>1, NothingVisited, PTL
  <1>5. CycleIsReal' BY <1>1 DEF CycleIsReal
  <1>6. ToSet(run_list) = Needed /\ ToSet(desired) \subseteq ToSet(run_list)
    <2>1. ToSet(run_list) = Needed BY <1>0 DEF RunListIsClosure, Needed
    <2>2. \A p \in DOMAIN desired : desired[p] \in Needed BY <1>0, DesiredNeeded
    <2>. QED BY <2>1, <2>2 DEF ToSet
  <1>7. AskedAgain' BY <1>1, <1>2, <1>6 DEF AskedAgain
  <1>8. BeforeNeeded'
    <2>. SUFFICES ASSUME NEW T \in SUBSET Ids, StillAsked' \subseteq T,
                         \A t \in T \cap Jobs : StillNeeded(t)' \subseteq T
                  PROVE  ToSet(run_list) \subseteq T
      BY <1>1 DEF BeforeNeeded
    <2>1. ToSet(desired) \subseteq StillAsked' BY <1>1, <1>2, <1>6 DEF StillAsked
    <2>2. ASSUME NEW t \in T \cap Jobs PROVE Deps(t) \subseteq T
      <3>1. Deps(t) \subseteq StillNeeded(t)'
        BY <2>1, <1>1 DEF Deps, get_dependency_set, StillNeeded
      <3>. QED BY <3>1
    <2>3. Needed \subseteq T BY <2>1, <2>2, NeededLeast
    <2>. QED BY <2>3, <1>6
  <1>9. BeforeOrdered'
    <2>1. \A i, k \in DOMAIN run_list : run_list[i] = run_list[k] => i = k
      BY <1>0 DEF RunListOrdered
    <2>. DEFINE Again(j) ==
                  graph.deps[j] \cup (IF j = graph.suspend THEN graph.flagged \cap ToSet(asked') ELSE {})
    <2>2. ASSUME FlaggedKept', NEW k \in DOMAIN run_list, NEW d \in Again(run_list[k])
          PROVE  \E i \in 1..k-1 : run_list[i] = d
      <3>0. run_list[k] \in ToSet(run_list) BY DEF ToSet
      <3>1. CASE d \in graph.deps[run_list[k]]
        BY <3>1, <1>0 DEF RunListOrdered, get_dependency_set
      <3>2. CASE d \notin graph.deps[run_list[k]]
        <4>1. run_list[k] = graph.suspend /\ d \in graph.flagged /\ d \in ToSet(asked')
          BY <3>2
        <4>2. CASE d \in ToSet(desired) BY <4>1, <4>2, <1>0 DEF RunListOrdered, get_dependency_set
        <4>3. CASE d \in ToSet(mandatory)
          <5>1. d \in ToSet(run_list) BY <3>0, <4>1, <4>3, <2>2, <1>1 DEF FlaggedKept
          <5>2. d \in job_list /\ d \in ToSet(asked) BY <5>1, <4>3, <1>0 DEF OnlyKnown, LeftOfAsked
          <5>3. d \in ToSet(desired) BY <5>2, <1>0 DEF LeftOfAsked
          <5>. QED BY <5>3, <4>2
        <4>. QED BY <4>1, <4>2, <4>3, <1>2
      <3>. QED BY <3>1, <3>2
    <2>3. \A j : AskedDeps(j)' = Again(j)
      BY <1>1 DEF AskedDeps, get_dependency_set
    <2>. QED BY <2>1, <2>2, <2>3, <1>1 DEF BeforeOrdered
  <1>10. BeforeKnown'
    <2>1. ToSet(run_list) \subseteq Jobs BY <1>0 DEF ToSet
    <2>. QED BY <2>1, <1>1 DEF BeforeKnown
  <1>. QED BY <1>3, <1>4, <1>5, <1>7, <1>8, <1>9, <1>10 DEF DroppingInv

LEMMA DropInvInductive == DropInv /\ [Next]_vars => DropInv'
  <1>. SUFFICES ASSUME DropInv, [Next]_vars PROVE DropInv' OBVIOUS
  <1>1. SolverInv' BY SolverInvInductive DEF DropInv
  <1>2. DroppingInv'
    <2>1. CASE VisitDesired BY <2>1, VisitDesiredDropping
    <2>2. CASE VisitDependencies BY <2>2, VisitDependenciesDropping
    <2>3. CASE LeaveJob BY <2>3, LeaveKeepsDropping
    <2>4. CASE Solved BY <2>4, SolvedKeepsDropping
    <2>5. CASE _restore_SessionState_desired_job_list BY <2>5, RestoreKeepsDropping
    <2>6. CASE UNCHANGED vars
      BY <2>6, SameTrail DEF vars, DropInv, DroppingInv, OnlyKnown
    <2>. QED BY <2>1, <2>2, <2>3, <2>4, <2>5, <2>6 DEF Next, Search, Finished
  <1>. QED BY <1>1, <1>2 DEF DropInv

-----------------------------------------------------------------------------
(* The invariant of the jobs that are dropped, in every reachable state.   *)
THEOREM DropInvariance == Spec => []DropInv
  <1>1. Init => DropInv BY InitSolver, InitDropping DEF DropInv
  <1>. QED BY <1>1, DropInvInductive, PTL DEF Spec

(* Only a job that no order lets run is dropped, whatever was dropped      *)
(* before it (SessionState.update_desired_job_list).                       *)
THEOREM DroppedAreBroken == Spec => []DroppedIsBroken
  <1>1. DropInv => DroppedIsBroken
    <2>. SUFFICES ASSUME DropInv, NEW j \in ToSet(asked) \ ToSet(desired) PROVE Broken(j, asked)
      BY DEF DroppedIsBroken
    <2>1. LeftOfAsked /\ asked \in Seq(Jobs) BY DEF DropInv, DroppingInv, SolverInv, TypeOK
    <2>2. j \in Jobs /\ j \notin job_list BY <2>1 DEF LeftOfAsked, ToSet
    <2>. QED BY <2>1, <2>2 DEF LeftOfAsked
  <1>. QED BY <1>1, DropInvariance, PTL

(* The loop a cycle error shows is one (DependencyCycleError).             *)
THEOREM CyclesAreReal == Spec => []CycleIsReal
  <1>1. DropInv => CycleIsReal BY DEF DropInv, DroppingInv
  <1>. QED BY <1>1, DropInvariance, PTL

(* A session that is resumed finds the list of jobs it had, unless a       *)
(* mandatory job had been dropped that says otherwise                      *)
(* (_restore_SessionState_desired_job_list).                               *)
THEOREM ListIsKept == Spec => []ResumedListKept
  <1>1. DropInv => ResumedListKept
    <2>. SUFFICES ASSUME DropInv, status = "done", selections > 1
                  PROVE  /\ FlaggedKept => ToSet(before) \subseteq ToSet(run_list)
                         /\ ToSet(mandatory) \subseteq ToSet(before) => ToSet(run_list) = ToSet(before)
      BY DEF ResumedListKept
    <2>0. /\ TypeOK /\ LeftOfAsked /\ AskedAgain /\ BeforeNeeded /\ BeforeOrdered /\ BeforeKnown
          /\ before \in Seq(Jobs) /\ ToSet(run_list) = Needed
      BY DEF DropInv, DroppingInv, SolverInv, TypeOK, RunListIsClosure, Needed
    <2>1. ToSet(desired) \subseteq Needed
      <3>1. \A p \in DOMAIN desired : desired[p] \in Needed BY <2>0, DesiredNeeded
      <3>. QED BY <3>1 DEF ToSet
    <2>2. ASSUME FlaggedKept PROVE ToSet(before) \subseteq Needed
      <3>1. StillAsked \subseteq ToSet(desired)
        BY <2>2, <2>0 DEF StillAsked, BeforeKnown, LeftOfAsked
      <3>2. Needed \in SUBSET Ids BY DEF Needed, Closure
      <3>3. ASSUME NEW t \in Needed \cap Jobs PROVE StillNeeded(t) \subseteq Needed
        <4>1. StillNeeded(t) \subseteq Deps(t) BY <3>1 DEF StillNeeded, Deps, get_dependency_set
        <4>2. Deps(t) \subseteq Needed BY <2>0, NeededClosed
        <4>. QED BY <4>1, <4>2
      <3>. QED BY <3>1, <3>2, <3>3, <2>0, <2>1 DEF BeforeNeeded
    <2>3. ASSUME ToSet(mandatory) \subseteq ToSet(before) PROVE Needed \subseteq ToSet(before)
      <3>1. FlaggedKept BY <2>3 DEF FlaggedKept
      <3>2. ToSet(desired) \subseteq ToSet(before) BY <2>3, <2>0 DEF LeftOfAsked, AskedAgain
      <3>3. ASSUME NEW t \in ToSet(before) PROVE Deps(t) \subseteq ToSet(before)
        <4>1. Deps(t) \subseteq AskedDeps(t) BY <2>0, MoreAsked
        <4>2. PICK k \in DOMAIN before : before[k] = t BY DEF ToSet
        <4>3. \A d \in AskedDeps(t) : \E i \in 1..k-1 : before[i] = d
          BY <4>2, <3>1, <2>0 DEF BeforeOrdered
        <4>4. 1..k-1 \subseteq DOMAIN before BY <4>2, <2>0
        <4>. QED BY <4>1, <4>3, <4>4 DEF ToSet
      <3>4. ToSet(before) \subseteq Jobs BY <2>0 DEF ToSet
      <3>5. ToSet(before) \subseteq Ids BY <3>4, JobsAssumption
      <3>. QED BY <3>2, <3>3, <3>5, NeededLeast
    <2>4. ToSet(mandatory) \subseteq ToSet(before) => FlaggedKept BY DEF FlaggedKept
    <2>. QED BY <2>0, <2>2, <2>3, <2>4
  <1>. QED BY <1>1, DropInvariance, PTL

=============================================================================
