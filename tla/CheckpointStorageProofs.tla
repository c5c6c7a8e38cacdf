---------------------- MODULE CheckpointStorageProofs ----------------------
(***************************************************************************)
(* Proofs about CheckpointStorage when one thread saves the session: for   *)
(* any number of calls, failures, kills and power losses.                  *)
(***************************************************************************)
EXTENDS CheckpointStorage, TLAPS

(* The cases the theorems are about: a single writer, and flushes that     *)
(* work.  Writes and renames may fail.                                     *)
FlushingWriter(w) == Writers = {w} /\ "fsync" \notin Faults

Inv(w) == TypeOK /\ SessionFlushed /\ WriterHolds(w)

LEMMA InitKeeps ==
  ASSUME NEW w, FlushingWriter(w), Init
  PROVE  Inv(w)
  <1>1. TypeOK
    BY StorageAssumption DEF Init, TypeOK, Steps, Contents, Entries, NoFile, Versions
  <1>2. SessionFlushed BY DEF Init, SessionFlushed, NoFile
  <1>3. WriterHolds(w) BY DEF Init, WriterHolds, At, FlushingWriter
  <1>. QED BY <1>1, <1>2, <1>3 DEF Inv

LEMMA CheckpointKeeps ==
  ASSUME NEW w, FlushingWriter(w), Inv(w), checkpoint(w)
  PROVE  Inv(w)'
  <1>0. w \in Writers /\ requested' = requested + 1 /\ requested' \in 1..MaxVersion
    BY StorageAssumption DEF FlushingWriter, Inv, TypeOK, checkpoint
  <1>1. TypeOK'
    BY <1>0 DEF Inv, TypeOK, checkpoint, Goto, Steps, Entries, Versions
  <1>2. SessionFlushed'
    BY <1>0 DEF Inv, TypeOK, SessionFlushed, checkpoint, Versions
  <1>3. WriterHolds(w)'
    <2>1. entries.session < requested'
      <3>1. entries \in lingering /\ requested \in Nat /\ entries.session \in Nat
        BY StorageAssumption DEF Inv, TypeOK, Entries
      <3>2. entries.session # NoFile => entries.session <= requested
        BY <3>1 DEF Inv, SessionFlushed
      <3>. QED BY <1>0, <3>1, <3>2 DEF NoFile
    <2>2. requested' \notin synced
      BY <1>0, StorageAssumption DEF Inv, TypeOK, SessionFlushed, Versions
    <2>3. /\ version'[w] = requested' /\ pc'[w] = "open" /\ ~ raised'[w] /\ ~ failed'[w]
          /\ UNCHANGED <<synced, entries>>
      BY <1>0 DEF Inv, TypeOK, checkpoint, Goto
    <2>. QED BY <1>0, <2>1, <2>2, <2>3 DEF WriterHolds, At
  <1>. QED BY <1>1, <1>2, <1>3 DEF Inv

(* A step that leaves "session" alone leaves what may be there alone, too. *)
LEMMA SessionKept ==
  ASSUME NEW w, Inv(w), entries'.session = entries.session,
         lingering' \subseteq lingering \cup {entries'},
         synced' = synced, requested' = requested, acknowledged' = acknowledged,
         \A v \in synced : content'[v] = content[v]
  PROVE  SessionFlushed'
  BY DEF Inv, TypeOK, SessionFlushed

LEMMA OpenNextKeeps ==
  ASSUME NEW w, FlushingWriter(w), Inv(w), OpenNext(w)
  PROVE  Inv(w)'
  <1>0. /\ w \in Writers /\ entries \in Entries /\ version[w] \in 0..MaxVersion
        /\ version[w] = requested /\ version[w] # 0
    BY DEF FlushingWriter, Inv, TypeOK, WriterHolds, OpenNext, At
  <1>1. CASE entries.next = NoFile
    <2>1. /\ entries' = [entries EXCEPT !.next = version[w]]
          /\ lingering' = lingering \cup {entries'}
          /\ pc' = [pc EXCEPT ![w] = "write"]
          /\ UNCHANGED <<raised, version, requested, content, synced, crashes,
                         acknowledged, failed>>
      BY <1>1 DEF OpenNext, SetEntries, Goto
    <2>2. entries' \in Entries /\ entries'.session = entries.session
          /\ entries'.next = version[w]
      BY <1>0, <2>1 DEF Entries
    <2>3. TypeOK' BY <2>1, <2>2 DEF Inv, TypeOK, Steps
    <2>4. SessionFlushed' BY <2>1, <2>2, SessionKept
    <2>5. WriterHolds(w)'
      BY <1>0, <2>1, <2>2 DEF Inv, TypeOK, WriterHolds, At, OpenNext
    <2>. QED BY <2>3, <2>4, <2>5 DEF Inv
  <1>2. CASE entries.next # NoFile
    <2>1. At(w, "open") BY <1>2 DEF Inv, WriterHolds, OpenNext, At
    <2>2. /\ pc' = [pc EXCEPT ![w] = "break"]
          /\ UNCHANGED <<entries, lingering, raised, version, requested, content,
                         synced, crashes, acknowledged, failed>>
      BY <1>2, <2>1 DEF OpenNext, Goto, At
    <2>3. TypeOK' BY <2>2 DEF Inv, TypeOK, Steps
    <2>4. SessionFlushed' BY <2>2, SessionKept
    <2>5. WriterHolds(w)'
      BY <1>0, <1>2, <2>1, <2>2 DEF Inv, TypeOK, WriterHolds, At
    <2>. QED BY <2>3, <2>4, <2>5 DEF Inv
  <1>. QED BY <1>1, <1>2

(* The three places that unlink "session.next".                            *)
LEMMA UnlinkKeeps ==
  ASSUME NEW w, FlushingWriter(w), Inv(w),
         \/ break_lock(w) \/ UnlinkAfterWrite(w) \/ UnlinkAfterRename(w)
  PROVE  Inv(w)'
  <1>0. w \in Writers /\ entries \in Entries BY DEF FlushingWriter, Inv, TypeOK
  <1>1. PICK then \in {"reopen", "rename", "dirsync"} :
          /\ \/ At(w, "break") /\ then = "reopen"
             \/ At(w, "discard") /\ then = "rename"
             \/ At(w, "unlink") /\ then = "dirsync"
          /\ \/ /\ entries.next # NoFile
                /\ entries' = [entries EXCEPT !.next = NoFile]
                /\ lingering' = lingering \cup {entries'}
                /\ pc' = [pc EXCEPT ![w] = then]
                /\ UNCHANGED raised
             \/ /\ entries.next = NoFile
                /\ pc' = [pc EXCEPT ![w] = "idle"]
                /\ raised' = [raised EXCEPT ![w] = TRUE]
                /\ UNCHANGED <<entries, lingering>>
          /\ UNCHANGED <<version, requested, content, synced, crashes,
                         acknowledged, failed>>
    BY DEF break_lock, UnlinkAfterWrite, UnlinkAfterRename, UnlinkNext, SetEntries,
       Goto, Raise
  <1>2. /\ entries' \in Entries /\ entries'.session = entries.session
        /\ lingering' \subseteq lingering \cup {entries'} /\ entries' \in lingering'
        /\ lingering' \subseteq Entries
    BY <1>0, <1>1, StorageAssumption DEF Entries, NoFile, Inv, TypeOK
  <1>3. TypeOK' BY <1>0, <1>1, <1>2 DEF Inv, TypeOK, Steps
  <1>4. SessionFlushed' BY <1>1, <1>2, SessionKept
  <1>5. WriterHolds(w)'
    <2>1. CASE entries.next # NoFile
      <3>1. /\ entries'.next = NoFile /\ entries'.session = entries.session
            /\ pc'[w] = then
            /\ UNCHANGED <<raised, version, requested, content, synced, failed>>
        BY <1>0, <1>1, <2>1 DEF Inv, TypeOK, Entries
      <3>2. then = "dirsync" => failed[w]
        BY <1>1, <2>1 DEF Inv, WriterHolds, At
      <3>. QED BY <1>1, <3>1, <3>2 DEF Inv, WriterHolds, At
    <2>2. CASE entries.next = NoFile
      <3>1. At(w, "unlink") /\ failed[w]
        BY <1>0, <1>1, <2>2 DEF Inv, TypeOK, WriterHolds, At, NoFile
      <3>. QED BY <1>0, <1>1, <2>2, <3>1 DEF Inv, TypeOK, WriterHolds, At
    <2>. QED BY <2>1, <2>2
  <1>. QED BY <1>3, <1>4, <1>5 DEF Inv

LEMMA WriteKeeps ==
  ASSUME NEW w, FlushingWriter(w), Inv(w), Write(w)
  PROVE  Inv(w)'
  <1>0. /\ w \in Writers /\ version[w] \in Versions /\ version[w] \notin synced
        /\ entries.next = version[w]
    BY DEF FlushingWriter, Inv, TypeOK, WriterHolds, Write, At, Versions
  <1>1. \A v \in synced : content'[v] = content[v]
    BY <1>0 DEF Write, Inv, TypeOK
  <1>2. UNCHANGED <<version, requested, synced, entries, lingering, crashes,
                    acknowledged, raised>>
    BY DEF Write
  <1>3. SessionFlushed' BY <1>1, <1>2, SessionKept
  <1>4. TypeOK'
    BY <1>0, <1>2 DEF Inv, TypeOK, Write, Goto, Fault, Steps, Contents
  <1>5. WriterHolds(w)'
    <2>1. CASE pc'[w] = "fsync" /\ content'[version[w]] = "whole" /\ UNCHANGED failed
      BY <1>0, <1>2, <2>1 DEF Inv, WriterHolds, At, Write
    <2>2. CASE pc'[w] = "discard" /\ failed'[w]
      BY <1>0, <1>2, <2>2 DEF Inv, WriterHolds, At, Write
    <2>. QED BY <1>0, <2>1, <2>2 DEF Inv, TypeOK, Write, Goto, Fault
  <1>. QED BY <1>3, <1>4, <1>5 DEF Inv

LEMMA FsyncKeeps ==
  ASSUME NEW w, FlushingWriter(w), Inv(w), Fsync(w)
  PROVE  Inv(w)'
  <1>0. /\ w \in Writers /\ version[w] \in Versions /\ version[w] = requested
        /\ content[version[w]] = "whole" /\ entries.next = version[w]
    BY DEF FlushingWriter, Inv, TypeOK, WriterHolds, Fsync, At, Versions
  <1>1. /\ synced' = synced \cup {version[w]}
        /\ pc' = [pc EXCEPT ![w] = "rename"]
        /\ UNCHANGED <<failed, version, requested, content, entries, lingering,
                       crashes, acknowledged, raised>>
    BY DEF FlushingWriter, Fsync, Goto
  <1>2. SessionFlushed'
    BY <1>0, <1>1, StorageAssumption DEF Inv, TypeOK, SessionFlushed, Versions
  <1>3. TypeOK' BY <1>0, <1>1 DEF Inv, TypeOK, Steps
  <1>4. WriterHolds(w)'
    BY <1>0, <1>1 DEF Inv, TypeOK, WriterHolds, At, Fsync
  <1>. QED BY <1>2, <1>3, <1>4 DEF Inv

(* The file renamed over "session" is the writer's own, and flushed.       *)
LEMMA RenameKeeps ==
  ASSUME NEW w, FlushingWriter(w), Inv(w), Rename(w)
  PROVE  Inv(w)'
  <1>0. /\ w \in Writers /\ entries \in Entries /\ version[w] = requested
        /\ version[w] \in Versions /\ entries.session < version[w]
        /\ \/ entries.next = version[w] /\ version[w] \in synced /\ ~ failed[w]
           \/ entries.next = NoFile /\ failed[w]
    BY DEF FlushingWriter, Inv, TypeOK, WriterHolds, Rename, At, Versions
  <1>1. UNCHANGED <<version, requested, content, synced, crashes, acknowledged, raised>>
    BY DEF Rename
  <1>2. CASE /\ entries.next # NoFile
             /\ SetEntries([session |-> entries.next, next |-> NoFile])
             /\ Goto(w, "dirsync")
             /\ UNCHANGED failed
    <2>1. /\ entries' = [session |-> version[w], next |-> NoFile]
          /\ lingering' = lingering \cup {entries'} /\ pc' = [pc EXCEPT ![w] = "dirsync"]
          /\ version[w] \in synced
      BY <1>0, <1>2 DEF SetEntries, Goto
    <2>2. entries' \in Entries /\ entries'.session = version[w] /\ entries'.next = NoFile
      BY <1>0, <2>1, StorageAssumption DEF Entries, Versions, NoFile
    <2>3. TypeOK' BY <1>1, <1>2, <2>1, <2>2 DEF Inv, TypeOK, Steps
    <2>4. SessionFlushed'
      <3>1. \A d \in lingering : /\ d.session \in Nat /\ d.session <= version[w]
                                 /\ acknowledged <= version[w]
        <4>1. entries \in lingering /\ lingering \subseteq Entries /\ acknowledged \in Nat
          BY DEF Inv, TypeOK
        <4>. QED BY <1>0, <4>1, StorageAssumption
             DEF Inv, SessionFlushed, Entries, Versions
      <3>. QED BY <1>0, <1>1, <2>1, <2>2, <3>1 DEF Inv, TypeOK, SessionFlushed, Versions
    <2>5. WriterHolds(w)'
      <3>1. version[w] # 0 BY <1>0 DEF Versions
      <3>2. ~ raised[w] \/ failed[w] BY DEF Inv, WriterHolds
      <3>. QED BY <1>0, <1>1, <1>2, <2>1, <2>2, <3>1, <3>2
           DEF Inv, TypeOK, WriterHolds, At, Rename
    <2>. QED BY <2>3, <2>4, <2>5 DEF Inv
  <1>3. CASE /\ Goto(w, "unlink")
             /\ UNCHANGED <<entries, lingering>>
             /\ \/ entries.next = NoFile /\ UNCHANGED failed
                \/ "rename" \in Faults /\ Fault(w)
    <2>1. pc' = [pc EXCEPT ![w] = "unlink"] BY <1>3 DEF Goto
    <2>2. failed'[w] /\ failed' \in [Writers -> BOOLEAN]
      <3>1. failed \in [Writers -> BOOLEAN] BY DEF Inv, TypeOK
      <3>2. CASE entries.next = NoFile /\ UNCHANGED failed
        BY <1>0, <3>1, <3>2 DEF Versions, NoFile
      <3>3. CASE Fault(w) BY <1>0, <3>1, <3>3 DEF Fault
      <3>. QED BY <1>3, <3>2, <3>3
    <2>3. TypeOK' BY <1>1, <1>3, <2>1, <2>2 DEF Inv, TypeOK, Steps
    <2>4. SessionFlushed' BY <1>1, <1>3, SessionKept
    <2>5. WriterHolds(w)'
      BY <1>0, <1>1, <1>3, <2>1, <2>2 DEF Inv, TypeOK, WriterHolds, At, Rename
    <2>. QED BY <2>3, <2>4, <2>5 DEF Inv
  <1>. QED BY <1>2, <1>3 DEF Rename

LEMMA SyncDirectoryKeeps ==
  ASSUME NEW w, FlushingWriter(w), Inv(w), SyncDirectory(w)
  PROVE  Inv(w)'
  <1>0. /\ w \in Writers /\ version[w] \in 0..MaxVersion
        /\ entries \in Entries /\ entries \in lingering
        /\ entries.session = version[w] \/ failed[w]
    BY DEF FlushingWriter, Inv, TypeOK, WriterHolds, SyncDirectory, At
  <1>1. /\ pc' = [pc EXCEPT ![w] = "idle"] /\ lingering' = {entries}
        /\ acknowledged' = IF ~ failed[w] /\ version[w] > acknowledged
                             THEN version[w] ELSE acknowledged
        /\ UNCHANGED <<failed, version, requested, content, synced, entries, crashes, raised>>
    BY DEF FlushingWriter, SyncDirectory, Return, Goto
  <1>2. TypeOK' BY <1>0, <1>1 DEF Inv, TypeOK, Steps
  <1>3. SessionFlushed'
    <2>1. acknowledged <= entries.session
      BY <1>0 DEF Inv, SessionFlushed
    <2>2. entries.session \in Nat /\ acknowledged \in Nat
      BY <1>0, StorageAssumption DEF Inv, TypeOK, Entries
    <2>. QED BY <1>0, <1>1, <2>1, <2>2 DEF Inv, SessionFlushed
  <1>4. WriterHolds(w)' BY <1>0, <1>1 DEF Inv, TypeOK, WriterHolds, At
  <1>. QED BY <1>2, <1>3, <1>4 DEF Inv

LEMMA KillKeeps ==
  ASSUME NEW w, FlushingWriter(w), Inv(w), Kill
  PROVE  Inv(w)'
  <1>1. TypeOK'
    <2>1. crashes' \in 0..MaxCrashes BY StorageAssumption DEF Inv, TypeOK, Kill
    <2>. QED BY <2>1 DEF Inv, TypeOK, Kill, Steps
  <1>2. SessionFlushed' BY SessionKept DEF Kill, Inv
  <1>3. WriterHolds(w)' BY DEF FlushingWriter, Kill, WriterHolds, At
  <1>. QED BY <1>1, <1>2, <1>3 DEF Inv

(* A power loss picks one of the directories whose "session" is flushed,   *)
(* and leaves flushed files as they are.                                   *)
LEMMA PowerLossKeeps ==
  ASSUME NEW w, FlushingWriter(w), Inv(w), PowerLoss
  PROVE  Inv(w)'
  <1>1. /\ entries' \in lingering /\ lingering' = {entries'}
        /\ UNCHANGED <<version, requested, synced, acknowledged>>
        /\ content' \in [Versions -> Contents]
    BY DEF PowerLoss
  <1>2. \A v \in synced : content'[v] = content[v]
    BY DEF PowerLoss, Remains, Inv, TypeOK
  <1>3. TypeOK'
    <2>1. crashes' \in 0..MaxCrashes BY StorageAssumption DEF Inv, TypeOK, PowerLoss
    <2>. QED BY <1>1, <2>1 DEF Inv, TypeOK, PowerLoss, Steps
  <1>4. SessionFlushed'
    <2>1. entries'.session \in Nat BY <1>1, StorageAssumption DEF Inv, TypeOK, Entries
    <2>. QED BY <1>1, <1>2, <2>1 DEF Inv, TypeOK, SessionFlushed
  <1>5. WriterHolds(w)' BY DEF FlushingWriter, PowerLoss, WriterHolds, At
  <1>. QED BY <1>3, <1>4, <1>5 DEF Inv

LEMMA NextKeeps ==
  ASSUME NEW w, FlushingWriter(w), Inv(w), [Next]_vars
  PROVE  Inv(w)'
  <1>1. CASE checkpoint(w) BY <1>1, CheckpointKeeps
  <1>2. CASE break_lock(w) BY <1>2, UnlinkKeeps
  <1>3. CASE save_checkpoint(w)
    BY <1>3, OpenNextKeeps, WriteKeeps, UnlinkKeeps, FsyncKeeps, RenameKeeps,
       SyncDirectoryKeeps DEF save_checkpoint
  <1>4. CASE Kill BY <1>4, KillKeeps
  <1>5. CASE PowerLoss BY <1>5, PowerLossKeeps
  <1>6. CASE Done \/ UNCHANGED vars
    <2>1. UNCHANGED vars BY <1>6 DEF Done
    <2>2. TypeOK' BY <2>1 DEF vars, Inv, TypeOK
    <2>3. SessionFlushed' BY <2>1 DEF vars, Inv, SessionFlushed
    <2>4. WriterHolds(w)' BY <2>1 DEF vars, Inv, WriterHolds, At
    <2>. QED BY <2>2, <2>3, <2>4 DEF Inv
  <1>. QED BY <1>1, <1>2, <1>3, <1>4, <1>5, <1>6 DEF Next, FlushingWriter

-----------------------------------------------------------------------------
(* The theorems.                                                           *)

(* The writer's place in save_checkpoint (session/storage.py) tells what   *)
(* the directory and the files hold, in every state.                       *)
THEOREM Invariance ==
  ASSUME NEW w, FlushingWriter(w)
  PROVE  Spec => []Inv(w)
  <1>1. Init => Inv(w) BY InitKeeps
  <1>2. Inv(w) /\ [Next]_vars => Inv(w)' BY NextKeeps
  <1>. QED BY <1>1, <1>2, PTL DEF Spec

(* The invariant that the run of one writer checks.                        *)
THEOREM SingleWriterHolds ==
  ASSUME NEW w, FlushingWriter(w)
  PROVE  Spec => []SingleWriterInv
  <1>1. Inv(w) => SingleWriterInv BY DEF Inv, SingleWriterInv, FlushingWriter
  <1>. QED BY <1>1, Invariance, PTL

LEMMA LoadsWhole ==
  ASSUME NEW w, Inv(w)
  PROVE  load_checkpoint = entries.session /\ entries.session \in Nat
  <1>1. entries \in lingering /\ entries.session \in Nat
    BY StorageAssumption DEF Inv, TypeOK, Entries
  <1>2. entries.session # NoFile => content[entries.session] = "whole"
    BY <1>1 DEF Inv, SessionFlushed
  <1>. QED BY <1>1, <1>2 DEF load_checkpoint, NoFile

(* load_checkpoint never returns part of a checkpoint, whatever write or   *)
(* rename fails and wherever the process or the machine stops.             *)
THEOREM WholeCheckpoints ==
  ASSUME NEW w, FlushingWriter(w)
  PROVE  Spec => []NeverTorn
  <1>1. Inv(w) => NeverTorn BY LoadsWhole DEF NeverTorn, Torn
  <1>. QED BY <1>1, Invariance, PTL

(* Once checkpoint() has returned with none of its system calls failed, no *)
(* crash, and no failure of a later call, makes a load return an older     *)
(* version.                                                                *)
THEOREM AcknowledgedDurable ==
  ASSUME NEW w, FlushingWriter(w)
  PROVE  Spec => []AcknowledgedSurvives
  <1>1. Inv(w) => AcknowledgedSurvives
    <2>. SUFFICES ASSUME Inv(w) PROVE AcknowledgedSurvives OBVIOUS
    <2>1. acknowledged <= entries.session BY DEF Inv, TypeOK, SessionFlushed
    <2>2. acknowledged \in Nat BY DEF Inv, TypeOK
    <2>. QED BY <2>1, <2>2, LoadsWhole DEF AcknowledgedSurvives
  <1>. QED BY <1>1, Invariance, PTL

-----------------------------------------------------------------------------
(* The register is implemented.                                            *)

LEMMA SavingIs ==
  ASSUME NEW w, FlushingWriter(w)
  PROVE  Saving = IF At(w, "idle") THEN 0 ELSE version[w]
  BY DEF Saving, FlushingWriter

LEMMA SavingWillBe ==
  ASSUME NEW w, FlushingWriter(w)
  PROVE  Saving' = IF pc'[w] = "idle" THEN 0 ELSE version'[w]
  BY DEF Saving, FlushingWriter, At

LEMMA WillLoadWhole ==
  ASSUME NEW w, Inv(w)'
  PROVE  load_checkpoint' = entries'.session /\ entries'.session \in Nat
  <1>1. entries' \in lingering' /\ entries'.session \in Nat
    BY StorageAssumption DEF Inv, TypeOK, Entries
  <1>2. entries'.session # NoFile => content'[entries'.session] = "whole"
    BY <1>1 DEF Inv, SessionFlushed
  <1>. QED BY <1>1, <1>2 DEF load_checkpoint, NoFile

(* Every system call of checkpoint() is a step of the register, or none:   *)
(* the rename commits, and the flush of the directory acknowledges unless  *)
(* a system call failed.                                                   *)
LEMMA StepImplements ==
  ASSUME NEW w, FlushingWriter(w), Inv(w), Inv(w)', [Next]_vars
  PROVE  [Register!Next]_(Register!registerVars)
  <1>. DEFINE now == entries.session
              then == entries'.session
  <1>0. /\ w \in Writers /\ pc \in [Writers -> Steps] /\ version \in [Writers -> 0..MaxVersion]
        /\ acknowledged \in Nat /\ requested \in Nat
    BY StorageAssumption DEF FlushingWriter, Inv, TypeOK
  <1>1. load_checkpoint = now /\ now \in Nat /\ load_checkpoint' = then /\ then \in Nat
    BY LoadsWhole, WillLoadWhole
  <1>2. /\ Saving = IF At(w, "idle") THEN 0 ELSE version[w]
        /\ Saving' = IF pc'[w] = "idle" THEN 0 ELSE version'[w]
    BY SavingIs, SavingWillBe
  <1>3. ~ At(w, "idle") => version[w] = requested /\ requested > 0
    BY DEF Inv, WriterHolds
  <1>4. CASE checkpoint(w)
    <2>1. Register!Request
      BY <1>0, <1>1, <1>2, <1>4 DEF checkpoint, At, Goto, Register!Request
    <2>. QED BY <2>1 DEF Register!Next
  <1>5. CASE \/ OpenNext(w) \/ Write(w) \/ Fsync(w)
            \/ break_lock(w) \/ UnlinkAfterWrite(w) \/ UnlinkAfterRename(w)
    <2>1. UNCHANGED <<requested, version, acknowledged>> /\ then = now
      BY <1>5 DEF OpenNext, Write, Fsync, break_lock, UnlinkAfterWrite,
         UnlinkAfterRename, UnlinkNext, SetEntries, Inv, TypeOK, Entries
    <2>2. ~ At(w, "idle")
      BY <1>5 DEF OpenNext, Write, Fsync, break_lock, UnlinkAfterWrite,
         UnlinkAfterRename, UnlinkNext, At
    <2>3. CASE pc'[w] = "idle"
      <3>1. Register!Abandon BY <1>1, <1>2, <2>1, <2>3 DEF Register!Abandon
      <3>. QED BY <3>1 DEF Register!Next
    <2>4. CASE pc'[w] # "idle"
      BY <1>1, <1>2, <2>1, <2>2, <2>4 DEF Register!registerVars
    <2>. QED BY <2>3, <2>4
  <1>6. CASE Rename(w)
    <2>1. UNCHANGED <<requested, version, acknowledged>> /\ At(w, "rename")
      BY <1>6 DEF Rename
    <2>2. CASE entries.next # NoFile /\ ~ UNCHANGED entries
      <3>1. then = version[w] /\ pc'[w] = "dirsync"
        BY <1>0, <1>6, <2>2 DEF Rename, Inv, WriterHolds, SetEntries, Goto
      <3>2. Register!Commit
        BY <1>1, <1>2, <1>3, <2>1, <3>1 DEF Register!Commit, At
      <3>. QED BY <3>2 DEF Register!Next
    <2>3. CASE entries.next = NoFile \/ UNCHANGED entries
      <3>1. then = now /\ pc'[w] # "idle"
        BY <1>0, <1>6, <2>3 DEF Rename, Goto
      <3>. QED BY <1>1, <1>2, <2>1, <3>1 DEF Register!registerVars, At
    <2>. QED BY <2>2, <2>3
  <1>7. CASE SyncDirectory(w)
    <2>1. /\ UNCHANGED <<requested, version>> /\ then = now /\ pc'[w] = "idle"
          /\ At(w, "dirsync") /\ UNCHANGED failed
          /\ acknowledged' = IF ~ failed[w] /\ version[w] > acknowledged
                               THEN version[w] ELSE acknowledged
      BY <1>0, <1>7 DEF FlushingWriter, SyncDirectory, Return, Goto
    <2>2. CASE failed[w]
      <3>1. Register!Abandon BY <1>1, <1>2, <2>1, <2>2 DEF Register!Abandon
      <3>. QED BY <3>1 DEF Register!Next
    <2>3. CASE ~ failed[w]
      <3>1. now = version[w] BY <2>1, <2>3 DEF Inv, WriterHolds
      <3>2. acknowledged <= now BY DEF Inv, TypeOK, SessionFlushed
      <3>3. acknowledged' = version[w] BY <1>0, <1>1, <2>1, <2>3, <3>1, <3>2
      <3>4. Register!Acknowledge
        BY <1>1, <1>2, <1>3, <2>1, <3>1, <3>3 DEF Register!Acknowledge, At
      <3>. QED BY <3>4 DEF Register!Next
    <2>. QED BY <2>2, <2>3
  <1>8. CASE Kill
    <2>1. Register!Abandon
      BY <1>0, <1>1, <1>2, <1>8 DEF Kill, Register!Abandon
    <2>. QED BY <2>1 DEF Register!Next
  <1>9. CASE PowerLoss
    <2>1. acknowledged <= then /\ then <= now
      BY <1>9 DEF PowerLoss, Inv, SessionFlushed
    <2>2. Register!PowerLoss
      BY <1>0, <1>1, <1>2, <1>9, <2>1 DEF PowerLoss, Register!PowerLoss
    <2>. QED BY <2>2 DEF Register!Next
  <1>10. CASE Done \/ UNCHANGED vars
    <2>1. UNCHANGED <<pc, version, requested, entries, acknowledged>>
      BY <1>10 DEF Done, vars
    <2>. QED BY <1>1, <1>2, <2>1 DEF Register!registerVars, At
  <1>. QED BY <1>4, <1>5, <1>6, <1>7, <1>8, <1>9, <1>10
       DEF Next, FlushingWriter, save_checkpoint

(* For one writer whose flushes work, whatever write or rename fails, the  *)
(* system calls of SessionManager.checkpoint implement the register.       *)
THEOREM Implementation ==
  ASSUME NEW w, FlushingWriter(w)
  PROVE  Spec => ImplementsRegister
  <1>1. Init => Register!Init
    <2>. SUFFICES ASSUME Init PROVE Register!Init OBVIOUS
    <2>1. Inv(w) BY InitKeeps
    <2>2. load_checkpoint = 0 BY <2>1, LoadsWhole DEF Init, NoFile
    <2>3. Saving = 0 BY SavingIs DEF Init, At, FlushingWriter
    <2>. QED BY <2>2, <2>3 DEF Init, Register!Init
  <1>2. Inv(w) /\ Inv(w)' /\ [Next]_vars => [Register!Next]_(Register!registerVars)
    BY StepImplements
  <1>. QED BY <1>1, <1>2, Invariance, PTL DEF Spec, ImplementsRegister, Register!Spec

-----------------------------------------------------------------------------
(* A single writer whose every system call may fail.                       *)

Known(w) == TypeOK /\ WriterKnows(w)

LEMMA InitKnown ==
  ASSUME NEW w, Writers = {w}, Init
  PROVE  Known(w)
  <1>1. TypeOK
    BY StorageAssumption DEF Init, TypeOK, Steps, Contents, Entries, NoFile, Versions
  <1>2. WriterKnows(w) BY DEF Init, WriterKnows, At
  <1>. QED BY <1>1, <1>2 DEF Known

(* The steps of checkpoint() and of save_checkpoint.                       *)
LEMMA WriterStepsKnown ==
  ASSUME NEW w, Writers = {w}, Known(w),
         checkpoint(w) \/ break_lock(w) \/ save_checkpoint(w)
  PROVE  Known(w)'
  <1>0. w \in Writers /\ entries \in Entries /\ version[w] \in 0..MaxVersion
    BY DEF Known, TypeOK
  <1>1. CASE checkpoint(w)
    <2>1. requested' \in 1..MaxVersion /\ requested' = requested + 1
      BY <1>1, StorageAssumption DEF Known, TypeOK, checkpoint
    <2>2. TypeOK'
      BY <1>0, <1>1, <2>1 DEF Known, TypeOK, checkpoint, Goto, Steps, Entries
    <2>3. version'[w] # NoFile /\ pc'[w] = "open" /\ ~ raised'[w]
      BY <1>0, <1>1, <2>1 DEF Known, TypeOK, checkpoint, Goto, NoFile
    <2>. QED BY <2>2, <2>3 DEF Known, WriterKnows, At
  <1>2. CASE OpenNext(w)
    <2>1. UNCHANGED <<version, requested, content, synced, crashes, acknowledged, failed>>
      BY <1>2 DEF OpenNext
    <2>2. CASE entries.next = NoFile
      <3>1. /\ entries' = [entries EXCEPT !.next = version[w]]
            /\ lingering' = lingering \cup {entries'}
            /\ pc' = [pc EXCEPT ![w] = "write"] /\ UNCHANGED raised
        BY <1>2, <2>2 DEF OpenNext, SetEntries, Goto
      <3>2. entries' \in Entries /\ entries'.next = version[w]
        BY <1>0, <3>1 DEF Entries
      <3>3. TypeOK' BY <2>1, <3>1, <3>2 DEF Known, TypeOK, Steps
      <3>4. WriterKnows(w)'
        BY <1>0, <1>2, <2>1, <3>1, <3>2 DEF Known, TypeOK, WriterKnows, At, OpenNext
      <3>. QED BY <3>3, <3>4 DEF Known
    <2>3. CASE entries.next # NoFile
      <3>1. At(w, "open") BY <1>2, <2>3 DEF Known, WriterKnows, OpenNext, At
      <3>2. /\ pc' = [pc EXCEPT ![w] = "break"]
            /\ UNCHANGED <<entries, lingering, raised>>
        BY <1>2, <2>3, <3>1 DEF OpenNext, Goto, At
      <3>3. TypeOK' BY <2>1, <3>2 DEF Known, TypeOK, Steps
      <3>4. WriterKnows(w)'
        BY <1>0, <2>1, <2>3, <3>1, <3>2 DEF Known, TypeOK, WriterKnows, At
      <3>. QED BY <3>3, <3>4 DEF Known
    <2>. QED BY <2>2, <2>3
  <1>3. CASE Write(w)
    <2>1. /\ version[w] \in Versions
          /\ UNCHANGED <<version, requested, synced, entries, lingering, crashes,
                         acknowledged, raised>>
      BY <1>0, <1>3 DEF Known, WriterKnows, Write, At, Versions, NoFile
    <2>2. TypeOK'
      BY <1>0, <1>3, <2>1 DEF Known, TypeOK, Write, Goto, Fault, Steps, Contents
    <2>3. \/ pc'[w] = "fsync" /\ content'[version[w]] = "whole" /\ UNCHANGED failed
          \/ pc'[w] = "discard" /\ failed'[w]
      BY <1>0, <1>3, <2>1 DEF Known, TypeOK, Write, Goto, Fault
    <2>4. WriterKnows(w)'
      BY <1>3, <2>1, <2>3 DEF Known, WriterKnows, Write, At
    <2>. QED BY <2>2, <2>4 DEF Known
  <1>5. CASE Fsync(w)
    <2>1. /\ version[w] \in Versions /\ pc' = [pc EXCEPT ![w] = "rename"]
          /\ synced' \subseteq synced \cup {version[w]}
          /\ UNCHANGED <<version, requested, content, entries, lingering, crashes,
                         acknowledged, raised>>
      BY <1>0, <1>5 DEF Known, WriterKnows, Fsync, Goto, At, Versions, NoFile
    <2>2. failed' \in [Writers -> BOOLEAN] /\ (failed[w] => failed'[w])
      BY <1>0, <1>5 DEF Known, TypeOK, Fsync, Fault
    <2>3. TypeOK' BY <2>1, <2>2 DEF Known, TypeOK, Steps
    <2>4. WriterKnows(w)'
      BY <1>0, <1>5, <2>1, <2>2 DEF Known, TypeOK, WriterKnows, Fsync, At
    <2>. QED BY <2>3, <2>4 DEF Known
  <1>6. CASE Rename(w)
    <2>1. UNCHANGED <<version, requested, content, synced, crashes, acknowledged, raised>>
      BY <1>6 DEF Rename
    <2>2. CASE /\ entries.next # NoFile
               /\ SetEntries([session |-> entries.next, next |-> NoFile])
               /\ Goto(w, "dirsync")
               /\ UNCHANGED failed
      <3>1. /\ entries' = [session |-> entries.next, next |-> NoFile]
            /\ lingering' = lingering \cup {entries'}
            /\ pc' = [pc EXCEPT ![w] = "dirsync"]
        BY <2>2 DEF SetEntries, Goto
      <3>2. entries' \in Entries
        BY <1>0, <3>1, StorageAssumption DEF Entries, NoFile
      <3>3. TypeOK' BY <2>1, <2>2, <3>1, <3>2 DEF Known, TypeOK, Steps
      <3>4. content[version[w]] = "whole"
        BY <1>6, <2>2 DEF Known, WriterKnows, Rename
      <3>5. WriterKnows(w)'
        BY <1>0, <1>6, <2>1, <2>2, <3>1, <3>4 DEF Known, TypeOK, WriterKnows, At, Rename
      <3>. QED BY <3>3, <3>5 DEF Known
    <2>3. CASE /\ Goto(w, "unlink")
               /\ UNCHANGED <<entries, lingering>>
               /\ \/ entries.next = NoFile /\ UNCHANGED failed
                  \/ "rename" \in Faults /\ Fault(w)
      <3>1. pc' = [pc EXCEPT ![w] = "unlink"] BY <2>3 DEF Goto
      <3>2. failed'[w] /\ failed' \in [Writers -> BOOLEAN]
        BY <1>0, <1>6, <2>3 DEF Known, TypeOK, WriterKnows, Rename, Fault
      <3>3. TypeOK' BY <2>1, <2>3, <3>1, <3>2 DEF Known, TypeOK, Steps
      <3>4. WriterKnows(w)'
        BY <1>0, <1>6, <2>1, <2>3, <3>1, <3>2 DEF Known, TypeOK, WriterKnows, At, Rename
      <3>. QED BY <3>3, <3>4 DEF Known
    <2>. QED BY <1>6, <2>2, <2>3 DEF Rename
  <1>7. CASE break_lock(w) \/ UnlinkAfterWrite(w) \/ UnlinkAfterRename(w)
    <2>1. PICK then \in {"reopen", "rename", "dirsync"} :
            /\ \/ At(w, "break") /\ then = "reopen"
               \/ At(w, "discard") /\ then = "rename"
               \/ At(w, "unlink") /\ then = "dirsync"
            /\ \/ /\ entries.next # NoFile
                  /\ entries' = [entries EXCEPT !.next = NoFile]
                  /\ lingering' = lingering \cup {entries'}
                  /\ pc' = [pc EXCEPT ![w] = then]
                  /\ UNCHANGED raised
               \/ /\ entries.next = NoFile
                  /\ pc' = [pc EXCEPT ![w] = "idle"]
                  /\ raised' = [raised EXCEPT ![w] = TRUE]
                  /\ UNCHANGED <<entries, lingering>>
            /\ UNCHANGED <<version, requested, content, synced, crashes,
                           acknowledged, failed>>
      BY <1>7 DEF break_lock, UnlinkAfterWrite, UnlinkAfterRename, UnlinkNext, SetEntries,
         Goto, Raise
    <2>2. TypeOK'
      <3>1. /\ entries' \in Entries /\ entries' \in lingering'
            /\ lingering' \subseteq Entries
        BY <1>0, <2>1, StorageAssumption DEF Known, TypeOK, Entries, NoFile
      <3>2. pc' \in [Writers -> Steps] BY <2>1 DEF Known, TypeOK, Steps
      <3>. QED BY <2>1, <3>1, <3>2 DEF Known, TypeOK
    <2>3. WriterKnows(w)'
      <3>1. CASE entries.next # NoFile
        <4>1. entries'.next = NoFile /\ pc'[w] = then /\ UNCHANGED raised
          BY <1>0, <2>1, <3>1 DEF Known, TypeOK, Entries
        <4>2. /\ At(w, "discard") => failed[w]
              /\ At(w, "unlink") => content[version[w]] = "whole"
          BY <3>1 DEF Known, WriterKnows
        <4>. QED BY <2>1, <4>1, <4>2 DEF Known, WriterKnows, At
      <3>2. CASE entries.next = NoFile
        <4>1. At(w, "unlink") /\ failed[w]
          BY <1>0, <2>1, <3>2 DEF Known, TypeOK, WriterKnows, At
        <4>. QED BY <1>0, <2>1, <3>2, <4>1 DEF Known, TypeOK, WriterKnows, At
      <3>. QED BY <3>1, <3>2
    <2>. QED BY <2>2, <2>3 DEF Known
  <1>8. CASE SyncDirectory(w)
    <2>1. /\ pc' = [pc EXCEPT ![w] = "idle"]
          /\ lingering' \in {lingering, {entries}}
          /\ acknowledged' \in 0..MaxVersion
          /\ failed' \in [Writers -> BOOLEAN] /\ (failed[w] => failed'[w])
          /\ UNCHANGED <<version, requested, content, synced, entries, crashes, raised>>
      BY <1>0, <1>8 DEF Known, TypeOK, SyncDirectory, Return, Goto, Fault
    <2>2. TypeOK' BY <2>1 DEF Known, TypeOK, Steps
    <2>3. WriterKnows(w)'
      BY <1>0, <1>8, <2>1 DEF Known, TypeOK, WriterKnows, SyncDirectory, At
    <2>. QED BY <2>2, <2>3 DEF Known
  <1>. QED BY <1>1, <1>2, <1>3, <1>5, <1>6, <1>7, <1>8 DEF save_checkpoint

LEMMA NextKnown ==
  ASSUME NEW w, Writers = {w}, Known(w), [Next]_vars
  PROVE  Known(w)'
  <1>1. CASE checkpoint(w) \/ break_lock(w) \/ save_checkpoint(w)
    BY <1>1, WriterStepsKnown
  <1>2. CASE Kill \/ PowerLoss
    <2>1. crashes' \in 0..MaxCrashes
      BY <1>2, StorageAssumption DEF Known, TypeOK, Kill, PowerLoss
    <2>2. TypeOK' BY <1>2, <2>1 DEF Known, TypeOK, Kill, PowerLoss, Steps
    <2>3. pc'[w] = "idle" /\ ~ raised'[w] BY <1>2 DEF Kill, PowerLoss
    <2>. QED BY <2>2, <2>3 DEF Known, WriterKnows, At
  <1>3. CASE Done \/ UNCHANGED vars
    <2>1. UNCHANGED vars BY <1>3 DEF Done
    <2>. QED BY <2>1 DEF vars, Known, TypeOK, WriterKnows, At
  <1>. QED BY <1>1, <1>2, <1>3 DEF Next

(* Where a writer whose every system call may fail is tells whose file     *)
(* "session.next" is and whether it is whole.                              *)
THEOREM FailingWriterHolds ==
  ASSUME NEW w, Writers = {w}
  PROVE  Spec => []FailingWriterInv
  <1>1. Init => Known(w) BY InitKnown
  <1>2. Known(w) /\ [Next]_vars => Known(w)' BY NextKnown
  <1>3. Known(w) => FailingWriterInv BY DEF Known, FailingWriterInv
  <1>. QED BY <1>1, <1>2, <1>3, PTL DEF Spec

(* The "session.next" an interrupted call left behind never makes a later  *)
(* call raise: break_lock in SessionManager.checkpoint always works,       *)
(* whatever fails afterwards.                                              *)
THEOREM LeftoversHarmless ==
  ASSUME NEW w, Writers = {w}
  PROVE  Spec => []RaisesOnlyOnFault
  <1>1. FailingWriterInv => RaisesOnlyOnFault
    BY DEF FailingWriterInv, WriterKnows, RaisesOnlyOnFault
  <1>. QED BY <1>1, FailingWriterHolds, PTL

(* checkpoint() does not return normally after a failed write, whatever    *)
(* fsync or rename fails beside it.                                        *)
THEOREM FailedWritesReported ==
  ASSUME NEW w, Writers = {w}
  PROVE  Spec => FailedWriteRaises
  <1>1. FailingWriterInv => [ReturnsOnlyIfWritten]_vars
    BY DEF FailingWriterInv, WriterKnows, Returns, ReturnsOnlyIfWritten
  <1>. QED BY <1>1, FailingWriterHolds, PTL DEF Spec, FailedWriteRaises
=============================================================================
