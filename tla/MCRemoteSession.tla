--------------------------- MODULE MCRemoteSession ---------------------------
(***************************************************************************)
(* The sessions of RemoteSession that TLC looks at: two jobs of every pair *)
(* of kinds, attended, with a bootstrap job, the second one blocked or     *)
(* not; and every pair of automated kinds (without a dialogue), attended   *)
(* or silent, with and without a bootstrap job, where the first job may    *)
(* restart the session.                                                    *)
(***************************************************************************)
EXTENDS RemoteSession

TwoJobs == {1, 2}

AutomatedKinds == {"shell", "noreturn", "user-verify"}
Automated(s) == \A j \in TwoJobs : s.kind[j] \in AutomatedKinds

Sessions ==
  {s \in [kind : [TwoJobs -> Kinds], blocked : {{}, {2}}, autorestart : {{}, {1}},
          boot : BOOLEAN, silent : BOOLEAN] :
     /\ s.silent \/ s.autorestart # {} => Automated(s)
     /\ ~s.boot => Automated(s) /\ s.blocked = {}}

(* The sessions with a job that is verified after its command has run.     *)
Dialogues == {s \in Sessions : \E j \in TwoJobs : s.kind[j] = "user-interact-verify"}

=============================================================================
