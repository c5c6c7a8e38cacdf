------------------------ MODULE CheckpointRegister ------------------------
(***************************************************************************)
(* What a session promises about its checkpoints, in terms of the versions *)
(* of the session state that are saved: a load returns a whole version,    *)
(* and never one that is older than a version whose checkpoint() returned  *)
(* with its work done.  A crash may take back the others.                  *)
(***************************************************************************)
EXTENDS Naturals

CONSTANT MaxVersion       \* bound: the last version

VARIABLES
  requested,   \* the version checkpoint() was last called for
  saving,      \* the version a running checkpoint() saves, or 0
  stored,      \* the version a load returns now; 0 before the first one
  acknowledged \* the newest version whose checkpoint() did it all

registerVars == <<requested, saving, stored, acknowledged>>

Init ==
  /\ requested = 0
  /\ saving = 0
  /\ stored = 0
  /\ acknowledged = 0

Request ==
  /\ saving = 0
  /\ requested < MaxVersion
  /\ requested' = requested + 1
  /\ saving' = requested'
  /\ UNCHANGED <<stored, acknowledged>>

Commit ==
  /\ saving # 0
  /\ stored' = saving
  /\ UNCHANGED <<requested, saving, acknowledged>>

Acknowledge ==
  /\ saving # 0 /\ stored = saving
  /\ acknowledged' = saving
  /\ saving' = 0
  /\ UNCHANGED <<requested, stored>>

(* checkpoint() raised, returned with a system call failed, or died.       *)
Abandon ==
  /\ saving' = 0
  /\ UNCHANGED <<requested, stored, acknowledged>>

PowerLoss ==
  /\ saving' = 0
  /\ stored' \in acknowledged..stored
  /\ UNCHANGED <<requested, acknowledged>>

Next == Request \/ Commit \/ Acknowledge \/ Abandon \/ PowerLoss

Spec == Init /\ [][Next]_registerVars
=============================================================================
