------------------------- MODULE CheckpointStorage -------------------------
(***************************************************************************)
(* How a session is saved: SessionManager.checkpoint (session/manager.py)  *)
(* and SessionStorage (session/storage.py), one step per system call, so   *)
(* that the process or the machine may stop between any two of them and    *)
(* two threads may be in them at once.                                     *)
(*                                                                         *)
(* A checkpoint is told apart by its version: the number of the call of    *)
(* checkpoint() that made it.  A call creates one file at most, so the     *)
(* version also names the file.  The session directory has two entries,    *)
(* "session" and "session.next".                                           *)
(***************************************************************************)
EXTENDS Integers, FiniteSets

CONSTANTS
  Writers,     \* the threads of the process that save the session
  Faults,      \* the system calls that may fail: "write", "fsync", "rename"
  MaxVersion,  \* bound: calls of checkpoint()
  MaxCrashes   \* bound: kills and power losses

ASSUME StorageAssumption ==
  /\ Faults \subseteq {"write", "fsync", "rename"}
  /\ MaxVersion \in Nat
  /\ MaxCrashes \in Nat

Versions == 1..MaxVersion
NoFile == 0
Entries == [session : 0..MaxVersion, next : 0..MaxVersion]
Contents == {"empty", "part", "whole"}

VARIABLES
  pc,           \* the system call a writer is about to make
  version,      \* the version a writer saves
  requested,    \* calls of checkpoint() so far
  content,      \* what a read of a file returns
  synced,       \* the files whose content has been flushed
  entries,      \* the directory now
  lingering,    \* the directories a power loss may leave: flushed or later
  crashes,      \* kills and power losses so far
  acknowledged, \* history: the newest version whose checkpoint() did it all
  failed,       \* history: did a system call of the writer's call fail?
  raised        \* history: did the writer's last call raise?

vars == <<pc, version, requested, content, synced, entries, lingering,
          crashes, acknowledged, failed, raised>>

Steps == {"idle", "open", "break", "reopen", "write", "discard", "fsync",
          "rename", "unlink", "dirsync"}

TypeOK ==
  /\ pc \in [Writers -> Steps]
  /\ version \in [Writers -> 0..MaxVersion]
  /\ requested \in 0..MaxVersion
  /\ content \in [Versions -> Contents]
  /\ synced \subseteq Versions
  /\ entries \in Entries
  /\ lingering \subseteq Entries /\ entries \in lingering
  /\ crashes \in 0..MaxCrashes
  /\ acknowledged \in 0..MaxVersion
  /\ failed \in [Writers -> BOOLEAN]
  /\ raised \in [Writers -> BOOLEAN]

Init ==
  /\ pc = [w \in Writers |-> "idle"]
  /\ version = [w \in Writers |-> 0]
  /\ requested = 0
  /\ content = [v \in Versions |-> "empty"]
  /\ synced = {}
  /\ entries = [session |-> NoFile, next |-> NoFile]
  /\ lingering = {entries}
  /\ crashes = 0
  /\ acknowledged = 0
  /\ failed = [w \in Writers |-> FALSE]
  /\ raised = [w \in Writers |-> FALSE]

-----------------------------------------------------------------------------
(* The directory changes at once; until it is flushed a power loss may     *)
(* undo the change.                                                        *)
SetEntries(new) ==
  /\ entries' = new
  /\ lingering' = lingering \cup {new}

At(w, step) == pc[w] = step

Goto(w, step) == pc' = [pc EXCEPT ![w] = step]

Fault(w) == failed' = [failed EXCEPT ![w] = TRUE]

(* An exception leaves checkpoint().                                       *)
Raise(w) == Goto(w, "idle") /\ raised' = [raised EXCEPT ![w] = TRUE]

-----------------------------------------------------------------------------
(* SessionManager.checkpoint: the state is serialised first, then saved.   *)
checkpoint(w) ==
  /\ At(w, "idle")
  /\ requested < MaxVersion
  /\ requested' = requested + 1
  /\ version' = [version EXCEPT ![w] = requested']
  /\ failed' = [failed EXCEPT ![w] = FALSE]
  /\ raised' = [raised EXCEPT ![w] = FALSE]
  /\ Goto(w, "open")
  /\ UNCHANGED <<content, synced, entries, lingering, crashes, acknowledged>>

(* Mutant: checkpoint does not break the lock a predecessor left.          *)
OpenNextLocked(w) ==
  /\ At(w, "open")
  /\ \/ /\ entries.next = NoFile
        /\ SetEntries([entries EXCEPT !.next = version[w]])
        /\ Goto(w, "write")
        /\ UNCHANGED raised
     \/ /\ entries.next # NoFile
        /\ Raise(w)
        /\ UNCHANGED <<entries, lingering>>
  /\ UNCHANGED <<version, requested, content, synced, crashes, acknowledged, failed>>

(* open(O_CREAT | O_EXCL) of "session.next".  The first time a call finds  *)
(* it there, checkpoint breaks the lock; the second time it raises         *)
(* LockedStorageError.                                                     *)
OpenNext(w) ==
  /\ At(w, "open") \/ At(w, "reopen")
  /\ \/ /\ entries.next = NoFile
        /\ SetEntries([entries EXCEPT !.next = version[w]])
        /\ Goto(w, "write")
        /\ UNCHANGED raised
     \/ /\ entries.next # NoFile /\ At(w, "open")
        /\ Goto(w, "break")
        /\ UNCHANGED <<entries, lingering, raised>>
     \/ /\ entries.next # NoFile /\ At(w, "reopen")
        /\ Raise(w)
        /\ UNCHANGED <<entries, lingering>>
  /\ UNCHANGED <<version, requested, content, synced, crashes, acknowledged, failed>>

(* unlink of "session.next" at the given step: when it is not there        *)
(* FileNotFoundError leaves checkpoint().                                  *)
UnlinkNext(w, step, then) ==
  /\ At(w, step)
  /\ \/ /\ entries.next # NoFile
        /\ SetEntries([entries EXCEPT !.next = NoFile])
        /\ Goto(w, then)
        /\ UNCHANGED raised
     \/ /\ entries.next = NoFile
        /\ Raise(w)
        /\ UNCHANGED <<entries, lingering>>
  /\ UNCHANGED <<version, requested, content, synced, crashes, acknowledged, failed>>

break_lock(w) == UnlinkNext(w, "break", "reopen")

(* Mutant: a short write goes unnoticed.                                   *)
WriteUnchecked(w) ==
  /\ At(w, "write")
  /\ \/ content' = [content EXCEPT ![version[w]] = "whole"]
     \/ "write" \in Faults /\ content' = [content EXCEPT ![version[w]] = "part"]
  /\ Goto(w, "fsync")
  /\ UNCHANGED <<version, requested, synced, entries, lingering, crashes,
                 acknowledged, failed, raised>>

Write(w) ==
  /\ At(w, "write")
  /\ \/ /\ content' = [content EXCEPT ![version[w]] = "whole"]
        /\ Goto(w, "fsync")
        /\ UNCHANGED failed
     \/ /\ "write" \in Faults
        /\ content' = [content EXCEPT ![version[w]] = "part"]
        /\ Goto(w, "discard")
        /\ Fault(w)
  /\ UNCHANGED <<version, requested, synced, entries, lingering, crashes,
                 acknowledged, raised>>

(* Mutant: the failed file is not unlinked.                                *)
KeepAfterWrite(w) ==
  /\ At(w, "discard")
  /\ Goto(w, "rename")
  /\ UNCHANGED <<version, requested, content, synced, entries, lingering, crashes,
                 acknowledged, failed, raised>>

(* A failed write is logged and the file unlinked; the code then goes on   *)
(* to the rename all the same.                                             *)
UnlinkAfterWrite(w) == UnlinkNext(w, "discard", "rename")

(* Mutant: the file is not flushed before the rename.                      *)
SkipFsync(w) ==
  /\ At(w, "fsync")
  /\ Goto(w, "rename")
  /\ UNCHANGED <<version, requested, content, synced, entries, lingering, crashes,
                 acknowledged, failed, raised>>

(* A failed fsync is logged and nothing more.                              *)
Fsync(w) ==
  /\ At(w, "fsync")
  /\ Goto(w, "rename")
  /\ \/ synced' = synced \cup {version[w]} /\ UNCHANGED failed
     \/ "fsync" \in Faults /\ UNCHANGED synced /\ Fault(w)
  /\ UNCHANGED <<version, requested, content, entries, lingering, crashes,
                 acknowledged, raised>>

(* rename of "session.next", whoever's file that is, over "session".       *)
Rename(w) ==
  /\ At(w, "rename")
  /\ \/ /\ entries.next # NoFile
        /\ SetEntries([session |-> entries.next, next |-> NoFile])
        /\ Goto(w, "dirsync")
        /\ UNCHANGED failed
     \/ /\ entries.next = NoFile
        /\ Goto(w, "unlink")
        /\ UNCHANGED <<entries, lingering, failed>>
     \/ /\ "rename" \in Faults
        /\ Goto(w, "unlink")
        /\ Fault(w)
        /\ UNCHANGED <<entries, lingering>>
  /\ UNCHANGED <<version, requested, content, synced, crashes, acknowledged, raised>>

(* Mutant: nothing to unlink is not an error.                              *)
UnlinkIfThere(w) ==
  /\ At(w, "unlink")
  /\ SetEntries([entries EXCEPT !.next = NoFile])
  /\ Goto(w, "dirsync")
  /\ UNCHANGED <<version, requested, content, synced, crashes, acknowledged,
                 failed, raised>>

(* A failed rename is logged, "session.next" unlinked, and the code goes   *)
(* on: it raises only if there is nothing to unlink.                       *)
UnlinkAfterRename(w) == UnlinkNext(w, "unlink", "dirsync")

(* save_checkpoint and checkpoint return; when no system call failed, the  *)
(* version is saved.                                                       *)
Return(w) ==
  /\ Goto(w, "idle")
  /\ acknowledged' = IF ~ failed'[w] /\ version[w] > acknowledged
                       THEN version[w] ELSE acknowledged

(* Mutant: the directory is not flushed before the call returns.           *)
SkipSyncDirectory(w) ==
  /\ At(w, "dirsync")
  /\ UNCHANGED failed
  /\ Return(w)
  /\ UNCHANGED <<version, requested, content, synced, entries, lingering, crashes,
                 raised>>

(* fsync of the directory, the last system call; its failure is logged.    *)
SyncDirectory(w) ==
  /\ At(w, "dirsync")
  /\ \/ lingering' = {entries} /\ UNCHANGED failed
     \/ "fsync" \in Faults /\ UNCHANGED lingering /\ Fault(w)
  /\ Return(w)
  /\ UNCHANGED <<version, requested, content, synced, entries, crashes, raised>>

save_checkpoint(w) ==
  \/ OpenNext(w) \/ Write(w) \/ UnlinkAfterWrite(w) \/ Fsync(w)
  \/ Rename(w) \/ UnlinkAfterRename(w) \/ SyncDirectory(w)

-----------------------------------------------------------------------------
(* The process is killed, or restarts: its threads are gone, the files     *)
(* stay as they are.                                                       *)
Kill ==
  /\ crashes < MaxCrashes
  /\ crashes' = crashes + 1
  /\ pc' = [w \in Writers |-> "idle"]
  /\ failed' = [w \in Writers |-> FALSE]
  /\ raised' = [w \in Writers |-> FALSE]
  /\ UNCHANGED <<version, requested, content, synced, entries, lingering, acknowledged>>

(* What may be left of a file that was not flushed.                        *)
Remains(v) ==
  IF v \in synced \/ content[v] = "empty" THEN {content[v]}
    ELSE IF content[v] = "part" THEN {"empty", "part"} ELSE Contents

(* The machine loses power, or a job reboots it.                           *)
PowerLoss ==
  /\ crashes < MaxCrashes
  /\ crashes' = crashes + 1
  /\ entries' \in lingering
  /\ lingering' = {entries'}
  /\ content' \in [Versions -> Contents]
  /\ \A v \in Versions : IF v \in {entries'.session, entries'.next}
                           THEN content'[v] \in Remains(v)
                           ELSE content'[v] = content[v]
  /\ pc' = [w \in Writers |-> "idle"]
  /\ failed' = [w \in Writers |-> FALSE]
  /\ raised' = [w \in Writers |-> FALSE]
  /\ UNCHANGED <<version, requested, synced, acknowledged>>

Done == requested = MaxVersion /\ (\A w \in Writers : At(w, "idle")) /\ UNCHANGED vars

Next ==
  \/ \E w \in Writers : checkpoint(w) \/ break_lock(w) \/ save_checkpoint(w)
  \/ Kill \/ PowerLoss
  \/ Done

Spec == Init /\ [][Next]_vars

-----------------------------------------------------------------------------
(* What load_checkpoint returns: nothing when there is no "session", or a  *)
(* version, or data that is not a whole checkpoint.                        *)
Torn == -1
load_checkpoint ==
  IF entries.session = NoFile THEN 0
    ELSE IF content[entries.session] = "whole" THEN entries.session ELSE Torn

(* Whatever is interrupted, a load finds a whole checkpoint or none: the   *)
(* write, fsync and rename of save_checkpoint never expose half a file.    *)
NeverTorn == load_checkpoint # Torn

(* A checkpoint() that returned with none of its system calls failed is    *)
(* not lost: no later crash, kill or failure makes a load return an older  *)
(* version.                                                                *)
AcknowledgedSurvives == load_checkpoint >= acknowledged

(* checkpoint() raises only when a system call of its own failed: what an  *)
(* interrupted predecessor left behind never stops it.                     *)
RaisesOnlyOnFault == \A w \in Writers : raised[w] => failed[w]

Returns(w) == At(w, "dirsync") /\ pc'[w] = "idle" /\ UNCHANGED crashes

ReturnsOnlyIfSaved == \A w \in Writers : Returns(w) => ~ failed'[w]

(* What the docstring of save_checkpoint promises (session/storage.py:     *)
(* "raises IOError, OSError on various problems related to accessing the   *)
(* filesystem"): checkpoint() returns normally only if none of its system  *)
(* calls failed.  The code logs a failed fsync or rename and returns.      *)
FailureIsReported == [][ReturnsOnlyIfSaved]_vars

ReturnsOnlyIfWritten ==
  \A w \in Writers : Returns(w) => content[version[w]] = "whole"

(* What the code does keep of that promise: checkpoint() never returns     *)
(* normally after a failed write, whatever else fails in the same call.    *)
(* Nothing reports the failed write itself: the call goes on to rename a   *)
(* file it has unlinked, and raises only in the clean-up of that.          *)
FailedWriteRaises == [][ReturnsOnlyIfWritten]_vars

(* The version a running checkpoint() saves.                               *)
Saving ==
  IF \E w \in Writers : ~ At(w, "idle")
    THEN version[CHOOSE w \in Writers : ~ At(w, "idle")] ELSE 0

(* What save_checkpoint does for one writer is what the register does at   *)
(* once.                                                                   *)
Register == INSTANCE CheckpointRegister WITH
    saving <- Saving, stored <- load_checkpoint

ImplementsRegister == Register!Spec

-----------------------------------------------------------------------------
(* The inductive invariant of a process with one writer whose flushes work.*)

(* What "session" names, or may name after a power loss, is flushed, not   *)
(* newer than what is there now and not older than what was acknowledged.  *)
SessionFlushed ==
  /\ \A v \in synced : content[v] = "whole" /\ v <= requested
  /\ \A d \in lingering :
       /\ d.session # NoFile => d.session \in synced
       /\ d.session <= entries.session
       /\ acknowledged <= d.session

(* Where the writer is tells what "session.next" names.                    *)
WriterHolds(w) ==
  /\ ~ At(w, "idle") => version[w] = requested /\ requested > 0
  /\ pc[w] \notin {"idle", "dirsync"} => entries.session < version[w]
  /\ pc[w] \in {"open", "break", "reopen", "write"} => version[w] \notin synced
  /\ At(w, "break") => entries.next # NoFile
  /\ At(w, "reopen") => entries.next = NoFile
  /\ pc[w] \in {"write", "discard", "fsync"} => entries.next = version[w]
  /\ pc[w] \in {"open", "break", "reopen", "write", "fsync"} => ~ failed[w]
  /\ At(w, "discard") => failed[w]
  /\ At(w, "fsync") => content[version[w]] = "whole"
  /\ At(w, "rename") => \/ entries.next = version[w] /\ version[w] \in synced /\ ~ failed[w]
                        \/ entries.next = NoFile /\ failed[w]
  /\ At(w, "unlink") => failed[w]
  /\ At(w, "dirsync") => entries.session = version[w] \/ failed[w]
  /\ raised[w] => failed[w]

SingleWriterInv ==
  TypeOK /\ SessionFlushed /\ \A w \in Writers : WriterHolds(w)

-----------------------------------------------------------------------------
(* What is left of it when every system call may fail: where the writer is *)
(* still tells whose file "session.next" is and whether it is whole.       *)
WriterKnows(w) ==
  /\ ~ At(w, "idle") => version[w] # NoFile
  /\ At(w, "break") => entries.next # NoFile
  /\ At(w, "reopen") => entries.next = NoFile
  /\ pc[w] \in {"write", "discard", "fsync"} => entries.next = version[w]
  /\ At(w, "discard") => failed[w]
  /\ At(w, "fsync") => content[version[w]] = "whole"
  /\ At(w, "rename") => content[version[w]] = "whole" \/ entries.next = NoFile
  /\ At(w, "rename") /\ entries.next = NoFile => failed[w]
  /\ At(w, "unlink") => /\ content[version[w]] = "whole" \/ entries.next = NoFile
                        /\ failed[w]
  /\ At(w, "dirsync") => content[version[w]] = "whole"
  /\ raised[w] => failed[w]

FailingWriterInv == TypeOK /\ \A w \in Writers : WriterKnows(w)
=============================================================================
