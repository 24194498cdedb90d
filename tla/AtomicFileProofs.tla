--------------------------- MODULE AtomicFileProofs ---------------------------
(***************************************************************************)
(* Proofs about AtomicFile for any number of calls and names.  A power     *)
(* loss replaces the directory by the journal's copy, so what holds of the *)
(* directory has to be carried for the journal as well: an output name on  *)
(* the disk belongs to a file whose data is on the disk.                   *)
(***************************************************************************)
EXTENDS AtomicFile, TLAPS

\* The files under their output names are whole and synced, in D.
PublishedSynced(D) == \A p \in Calls : D[arg[p].output] = p => p \in synced

\* A synced file is whole: sync follows a complete write, and nothing writes to
\* the file afterwards.
SyncedWhole == \A p \in Calls : p \in synced => data[p] = "whole"

WrittenBeforeSync == \A p \in Calls : pc[p] = "sync" => data[p] = "whole"

SyncedBeforeRename ==
    \A p \in Calls :
        /\ pc[p] = "rename" => p \in synced
        /\ pc[p] \in {"idle", "create", "write", "sync"} => p \notin synced

DurableInv ==
    /\ TypeOK
    /\ StageIsOwned
    /\ PublishedSynced(dir)
    /\ PublishedSynced(journal)
    /\ SyncedWhole
    /\ WrittenBeforeSync
    /\ SyncedBeforeRename

\* The durability invariant holds before any call of writeNewFileAtomic.
LEMMA InitDurable == Init => DurableInv
<1> SUFFICES ASSUME Init PROVE DurableInv
  OBVIOUS
<1>1. TypeOK
  BY AtomicFileAssumption DEF Init, TypeOK
<1>2. \A p \in Calls : pc[p] = "idle" /\ arg[p].output \in Names
  BY AtomicFileAssumption DEF Init, Request
<1>3. PublishedSynced(dir) /\ PublishedSynced(journal)
  BY <1>2, AtomicFileAssumption DEF Init, PublishedSynced
<1>4. StageIsOwned /\ SyncedWhole /\ WrittenBeforeSync /\ SyncedBeforeRename
  BY <1>2 DEF Init, StageIsOwned, SyncedWhole, WrittenBeforeSync, SyncedBeforeRename, OwnsStage
<1> QED BY <1>1, <1>3, <1>4 DEF DurableInv

USE DEF Goto, Result, Running, OwnsStage, Ended, Request

\* Every step of writeNewFileAtomic preserves the durability invariant.
LEMMA StepDurable ==
  ASSUME DurableInv, NEW p \in Calls, Step(p)
  PROVE  DurableInv'
<1> USE DEF DurableInv
<1>0. arg[p].stage \in Names /\ arg[p].output \in Names /\ arg[p].output # arg[p].stage
  BY DEF TypeOK
<1>1. CASE Invoke(p) \/ FailEarly(p) \/ Killed(p) \/ ReturnZero(p)
  <2>1. dir' = dir /\ journal' = journal /\ data' = data /\ synced' = synced /\ arg' = arg
    BY <1>1 DEF Invoke, FailEarly, Killed, ReturnZero
  <2>2. \A q \in Calls : q # p => pc'[q] = pc[q]
    BY <1>1 DEF Invoke, FailEarly, Killed, ReturnZero, TypeOK
  <2>3. pc'[p] \in {"create", "done", "killed"} /\ (pc'[p] = "create" => pc[p] = "idle")
    BY <1>1 DEF Invoke, FailEarly, Killed, ReturnZero, TypeOK
  <2>4. TypeOK' BY <1>1, <2>1 DEF Invoke, FailEarly, Killed, ReturnZero, TypeOK
  <2>5. StageIsOwned' BY <2>1, <2>2, <2>3 DEF StageIsOwned
  <2>6. WrittenBeforeSync' /\ SyncedBeforeRename'
    BY <2>1, <2>2, <2>3 DEF WrittenBeforeSync, SyncedBeforeRename
  <2>7. PublishedSynced(dir)' /\ PublishedSynced(journal)' /\ SyncedWhole'
    BY <2>1 DEF PublishedSynced, SyncedWhole
  <2> QED BY <2>4, <2>5, <2>6, <2>7
<1>2. CASE CreateFile(p)
  <2>1. CASE dir[arg[p].stage] # Absent
    <3>1. /\ pc[p] = "create" /\ pc' = [pc EXCEPT ![p] = "done"]
          /\ rc' = [rc EXCEPT ![p] = "exists"]
          /\ UNCHANGED <<dir, journal, data, synced, arg>>
      BY <1>2, <2>1 DEF CreateFile
    <3>2. TypeOK' BY <3>1 DEF TypeOK
    <3>3. StageIsOwned' BY <3>1 DEF StageIsOwned, TypeOK
    <3>4. WrittenBeforeSync' /\ SyncedBeforeRename'
      BY <3>1 DEF WrittenBeforeSync, SyncedBeforeRename, TypeOK
    <3>5. PublishedSynced(dir)' /\ PublishedSynced(journal)' /\ SyncedWhole'
      BY <3>1 DEF PublishedSynced, SyncedWhole
    <3> QED BY <3>2, <3>3, <3>4, <3>5
  <2>2. CASE dir[arg[p].stage] = Absent
    <3>1. /\ pc[p] = "create" /\ pc' = [pc EXCEPT ![p] = "write"]
          /\ dir' = [dir EXCEPT ![arg[p].stage] = p]
          /\ UNCHANGED <<journal, data, synced, arg, rc>>
      BY <1>2, <2>2 DEF CreateFile
    <3>2. TypeOK' BY <1>0, <3>1 DEF TypeOK
    <3>3. StageIsOwned' BY <1>0, <2>2, <3>1, AtomicFileAssumption DEF StageIsOwned, TypeOK
    <3>4. PublishedSynced(dir)' BY <1>0, <2>2, <3>1 DEF PublishedSynced, TypeOK
    <3>5. PublishedSynced(journal)' /\ SyncedWhole' /\ WrittenBeforeSync' /\ SyncedBeforeRename'
      BY <3>1 DEF PublishedSynced, SyncedWhole, WrittenBeforeSync, SyncedBeforeRename, TypeOK
    <3> QED BY <3>2, <3>3, <3>4, <3>5
  <2> QED BY <2>1, <2>2
<1>3. CASE WriteStreamingAll(p)
  <2>1. /\ pc[p] = "write"
        /\ \/ data' = [data EXCEPT ![p] = "whole"] /\ pc' = [pc EXCEPT ![p] = "sync"]
           \/ data' = [data EXCEPT ![p] = "part"] /\ pc' = [pc EXCEPT ![p] = "unlink"]
        /\ UNCHANGED <<dir, journal, synced, arg>>
    BY <1>3 DEF WriteStreamingAll
  <2>2. TypeOK' BY <1>3 DEF WriteStreamingAll, TypeOK
  <2>3. StageIsOwned' BY <2>1 DEF StageIsOwned, TypeOK
  <2>4. p \notin synced BY <2>1 DEF SyncedBeforeRename
  <2>5. SyncedWhole' BY <2>1, <2>4 DEF SyncedWhole, TypeOK
  <2>6. WrittenBeforeSync' BY <2>1 DEF WrittenBeforeSync, TypeOK
  <2>7. SyncedBeforeRename' BY <2>1, <2>4 DEF SyncedBeforeRename, TypeOK
  <2>8. PublishedSynced(dir)' /\ PublishedSynced(journal)' BY <2>1 DEF PublishedSynced
  <2> QED BY <2>2, <2>3, <2>5, <2>6, <2>7, <2>8
<1>4. CASE Sync(p)
  <2>1. /\ pc[p] = "sync"
        /\ \/ synced' = synced \cup {p} /\ pc' = [pc EXCEPT ![p] = "rename"]
           \/ synced' = synced /\ pc' = [pc EXCEPT ![p] = "unlink"]
        /\ UNCHANGED <<dir, journal, data, arg>>
    BY <1>4 DEF Sync
  <2>2. TypeOK' BY <1>4 DEF Sync, TypeOK
  <2>3. StageIsOwned' BY <2>1 DEF StageIsOwned, TypeOK
  <2>4. SyncedWhole' BY <2>1 DEF SyncedWhole, WrittenBeforeSync
  <2>5. WrittenBeforeSync' BY <2>1 DEF WrittenBeforeSync, TypeOK
  <2>6. SyncedBeforeRename' BY <2>1 DEF SyncedBeforeRename, TypeOK
  <2>7. PublishedSynced(dir)' /\ PublishedSynced(journal)' BY <2>1 DEF PublishedSynced
  <2> QED BY <2>2, <2>3, <2>4, <2>5, <2>6, <2>7
<1>5. CASE RenamePreserve(p)
  <2>1. CASE /\ dir' = dir
             /\ pc' = [pc EXCEPT ![p] = "unlink"]
    <3>1. pc[p] = "rename" /\ UNCHANGED <<journal, data, synced, arg>>
      BY <1>5 DEF RenamePreserve
    <3>2. TypeOK' BY <1>5, <2>1 DEF RenamePreserve, TypeOK
    <3>3. StageIsOwned' BY <2>1, <3>1 DEF StageIsOwned, TypeOK
    <3>4. WrittenBeforeSync' /\ SyncedBeforeRename'
      BY <2>1, <3>1 DEF WrittenBeforeSync, SyncedBeforeRename, TypeOK
    <3>5. PublishedSynced(dir)' /\ PublishedSynced(journal)' /\ SyncedWhole'
      BY <2>1, <3>1 DEF PublishedSynced, SyncedWhole
    <3> QED BY <3>2, <3>3, <3>4, <3>5
  <2>2. CASE ~(dir' = dir /\ pc' = [pc EXCEPT ![p] = "unlink"])
    <3>1. /\ dir[arg[p].output] = Absent
          /\ pc[p] = "rename" /\ pc' = [pc EXCEPT ![p] = "renamed"]
          /\ dir' = [dir EXCEPT ![arg[p].output] = dir[arg[p].stage], ![arg[p].stage] = Absent]
          /\ UNCHANGED <<journal, data, synced, arg, rc>>
      BY <1>5, <2>2 DEF RenamePreserve
    <3>2. dir[arg[p].stage] = p BY <3>1 DEF StageIsOwned
    <3>3. TypeOK' BY <1>0, <3>1, <3>2 DEF TypeOK
    <3>4. StageIsOwned'
      BY <1>0, <3>1, <3>2, AtomicFileAssumption DEF StageIsOwned, TypeOK
    <3>5. PublishedSynced(dir)'
      BY <1>0, <3>1, <3>2, AtomicFileAssumption DEF PublishedSynced, SyncedBeforeRename, TypeOK
    <3>6. PublishedSynced(journal)' /\ SyncedWhole' /\ WrittenBeforeSync' /\ SyncedBeforeRename'
      BY <3>1 DEF PublishedSynced, SyncedWhole, WrittenBeforeSync, SyncedBeforeRename, TypeOK
    <3> QED BY <3>3, <3>4, <3>5, <3>6
  <2> QED BY <2>1, <2>2
<1>6. CASE DeleteFile(p)
  <2>1. pc[p] = "unlink" /\ pc' = [pc EXCEPT ![p] = "done"] /\ dir[arg[p].stage] = p
    BY <1>6 DEF DeleteFile, StageIsOwned
  <2>2. TypeOK' BY <1>0, <1>6 DEF DeleteFile, TypeOK
  <2>3. StageIsOwned' BY <1>0, <1>6, <2>1 DEF DeleteFile, StageIsOwned, TypeOK
  <2>4. PublishedSynced(dir)'
    BY <1>0, <1>6, AtomicFileAssumption DEF DeleteFile, PublishedSynced, TypeOK
  <2>5. PublishedSynced(journal)' /\ SyncedWhole' /\ WrittenBeforeSync' /\ SyncedBeforeRename'
    BY <1>6, <2>1 DEF DeleteFile, PublishedSynced, SyncedWhole, WrittenBeforeSync,
                      SyncedBeforeRename, TypeOK
  <2> QED BY <2>2, <2>3, <2>4, <2>5
<1> QED BY <1>1, <1>2, <1>3, <1>4, <1>5, <1>6 DEF Step

\* Other programs, journal commits, kills and power loss preserve it.
LEMMA EnvironmentDurable ==
  ASSUME DurableInv, Environment
  PROVE  DurableInv'
<1> USE DEF DurableInv
<1>1. ASSUME NEW n \in Names, ExternalCreate(n) PROVE DurableInv'
  <2>1. /\ dir[n] = Absent /\ dir' = [dir EXCEPT ![n] = External]
        /\ UNCHANGED <<journal, data, synced, pc, arg, rc>>
    BY <1>1 DEF ExternalCreate
  <2>2. TypeOK' BY <2>1 DEF TypeOK
  <2>3. StageIsOwned' BY <2>1, AtomicFileAssumption DEF StageIsOwned, TypeOK
  <2>4. PublishedSynced(dir)' BY <2>1, AtomicFileAssumption DEF PublishedSynced, TypeOK
  <2>5. PublishedSynced(journal)' /\ SyncedWhole' /\ WrittenBeforeSync' /\ SyncedBeforeRename'
    BY <2>1 DEF PublishedSynced, SyncedWhole, WrittenBeforeSync, SyncedBeforeRename
  <2> QED BY <2>2, <2>3, <2>4, <2>5
<1>2. ASSUME NEW n \in Names, ExternalRemove(n) PROVE DurableInv'
  <2>1. /\ dir' = [dir EXCEPT ![n] = Absent]
        /\ \A p \in Calls : ~(pc[p] \in OwnsStage /\ arg[p].stage = n)
        /\ UNCHANGED <<journal, data, synced, pc, arg, rc>>
    BY <1>2 DEF ExternalRemove
  <2>2. TypeOK' BY <2>1 DEF TypeOK
  <2>3. StageIsOwned' BY <2>1 DEF StageIsOwned, TypeOK
  <2>4. PublishedSynced(dir)' BY <2>1, AtomicFileAssumption DEF PublishedSynced, TypeOK
  <2>5. PublishedSynced(journal)' /\ SyncedWhole' /\ WrittenBeforeSync' /\ SyncedBeforeRename'
    BY <2>1 DEF PublishedSynced, SyncedWhole, WrittenBeforeSync, SyncedBeforeRename
  <2> QED BY <2>2, <2>3, <2>4, <2>5
<1>3. CASE JournalCommit
  BY <1>3 DEF JournalCommit, TypeOK, StageIsOwned, PublishedSynced, SyncedWhole,
              WrittenBeforeSync, SyncedBeforeRename
<1>4. CASE PowerLoss
  <2>1. \A p \in Calls : pc'[p] \in {"idle"} \cup Ended /\ (pc'[p] = "idle" => pc[p] = "idle")
    BY <1>4 DEF PowerLoss, TypeOK
  <2>2. TypeOK' BY <1>4 DEF PowerLoss, TypeOK
  <2>3. StageIsOwned' /\ WrittenBeforeSync' BY <2>1 DEF StageIsOwned, WrittenBeforeSync
  <2>4. SyncedBeforeRename' BY <1>4, <2>1 DEF PowerLoss, SyncedBeforeRename
  <2>5. PublishedSynced(dir)' /\ PublishedSynced(journal)'
    BY <1>4 DEF PowerLoss, PublishedSynced
  <2>6. SyncedWhole' BY <1>4 DEF PowerLoss, SyncedWhole
  <2> QED BY <2>2, <2>3, <2>4, <2>5, <2>6
<1> QED BY <1>1, <1>2, <1>3, <1>4 DEF Environment

\* The durability invariant is inductive.
LEMMA DurableInductive == DurableInv /\ [Next]_vars => DurableInv'
<1> SUFFICES ASSUME DurableInv, [Next]_vars PROVE DurableInv'
  OBVIOUS
<1>1. CASE UNCHANGED vars
  BY <1>1 DEF vars, DurableInv, TypeOK, StageIsOwned, PublishedSynced, SyncedWhole,
              WrittenBeforeSync, SyncedBeforeRename
<1> QED BY <1>1, StepDurable, EnvironmentDurable DEF Next

\* The durability invariant holds in every state.
THEOREM DurableInvHolds == Spec => []DurableInv
  BY InitDurable, DurableInductive, PTL DEF Spec

\* Whatever the calls, the other programs and the power supply do, a patch file
\* under its output name is the whole patch.
THEOREM OutputSurvivesPowerLoss == Spec => []OutputIsWhole
<1>1. DurableInv => OutputIsWhole
  BY DEF DurableInv, PublishedSynced, SyncedWhole, OutputIsWhole
<1> QED BY <1>1, DurableInvHolds, PTL

\* No call replaces or deletes a file of somebody else.
THEOREM ForeignFilesSafe == Spec => ForeignUntouched
<1>1. DurableInv => [\A p \in Calls : Step(p) =>
                        \A n \in Names : dir[n] \notin {Absent, p} => dir'[n] = dir[n]]_vars
  BY DEF DurableInv, TypeOK, StageIsOwned, Step, Invoke, CreateFile, WriteStreamingAll, Sync,
         RenamePreserve, ReturnZero, DeleteFile, FailEarly, Killed
<1> QED BY <1>1, DurableInvHolds, PTL DEF ForeignUntouched

-----------------------------------------------------------------------------
(* Refinement.                                                             *)

\* A call that deletes its staging file has its error.
FailureWhenUnwound == \A p \in Calls : pc[p] = "unlink" => rc[p] \in {"exists", "failed"}

\* The errdefer of writeNewFileAtomic runs only on the way out with an error.
LEMMA UnwoundFails == Spec => []FailureWhenUnwound
<1>1. Init => FailureWhenUnwound
  BY DEF Init, FailureWhenUnwound
<1>2. DurableInv /\ FailureWhenUnwound /\ [Next]_vars => FailureWhenUnwound'
  <2> SUFFICES ASSUME DurableInv, FailureWhenUnwound, [Next]_vars PROVE FailureWhenUnwound'
    OBVIOUS
  <2>0. TypeOK BY DEF DurableInv
  <2>1. CASE UNCHANGED vars
    BY <2>1 DEF vars, FailureWhenUnwound
  <2>2. CASE Environment
    <3>1. rc' = rc /\ \A q \in Calls : pc'[q] = "unlink" => pc[q] = "unlink"
      BY <2>0, <2>2 DEF Environment, ExternalCreate, ExternalRemove, JournalCommit, PowerLoss, TypeOK
    <3> QED BY <3>1 DEF FailureWhenUnwound
  <2>3. ASSUME NEW p \in Calls, Step(p) PROVE FailureWhenUnwound'
    <3>1. \A q \in Calls : q # p => pc'[q] = pc[q] /\ rc'[q] = rc[q]
      BY <2>0, <2>3 DEF Step, Invoke, CreateFile, WriteStreamingAll, Sync, RenamePreserve, ReturnZero,
                        DeleteFile, FailEarly, Killed, TypeOK
    <3>2. pc'[p] = "unlink" => rc'[p] \in {"exists", "failed"}
      BY <2>0, <2>3 DEF Step, Invoke, CreateFile, WriteStreamingAll, Sync, RenamePreserve, ReturnZero,
                        DeleteFile, FailEarly, Killed, TypeOK
    <3> QED BY <3>1, <3>2 DEF FailureWhenUnwound
  <2> QED BY <2>1, <2>2, <2>3 DEF Next
<1> QED BY <1>1, <1>2, DurableInvHolds, PTL DEF Spec

\* Before any call, nothing is shown and every call is idle.
LEMMA InitRefines == Init => Abstract!Init
  BY AtomicFileAssumption DEF Init, Abstract!Init, shownBar, statusBar, StatusOf

\* A step of one call moves the abstract status of that call only.
LEMMA StatusMoves ==
  ASSUME TypeOK, NEW p \in Calls, \A q \in Calls : q # p => pc'[q] = pc[q] /\ rc'[q] = rc[q]
  PROVE  statusBar' = [statusBar EXCEPT ![p] = StatusOf(p)'] /\ statusBar[p] = StatusOf(p)
  BY ZenonT(60) DEF statusBar, StatusOf

\* Files whose data changes are not under their output names yet.
LEMMA ShownUnchanged ==
  ASSUME dir' = dir, arg' = arg,
         \A q \in Calls : dir[arg[q].output] = q => data'[q] = data[q]
  PROVE  shownBar' = shownBar
  BY DEF shownBar

\* A staging file that appears or vanishes is not shown.
LEMMA StageHidden ==
  ASSUME TypeOK, NEW p \in Calls, arg' = arg, data' = data,
         \A n \in Names : n # arg[p].stage => dir'[n] = dir[n],
         dir[arg[p].stage] \in {p, Absent}, dir'[arg[p].stage] \in {p, Absent}
  PROVE  shownBar' = shownBar
<1>1. arg[p].output # arg[p].stage BY DEF TypeOK
<1> QED BY <1>1, AtomicFileAssumption DEF shownBar

\* A step of writeNewFileAtomic is a step of NewEntry or shows nothing.
LEMMA StepRefines ==
  ASSUME DurableInv, FailureWhenUnwound, NEW p \in Calls, Step(p)
  PROVE  Abstract!Next \/ UNCHANGED Abstract!vars
<1> USE DEF DurableInv
<1>0. arg[p].stage \in Names /\ arg[p].output \in Names /\ arg[p].output # arg[p].stage
  BY DEF TypeOK
<1>1. \A q \in Calls : q # p => pc'[q] = pc[q] /\ rc'[q] = rc[q]
  BY DEF Step, Invoke, CreateFile, WriteStreamingAll, Sync, RenamePreserve, ReturnZero, DeleteFile,
         FailEarly, Killed, TypeOK
<1>2. statusBar' = [statusBar EXCEPT ![p] = StatusOf(p)'] /\ statusBar[p] = StatusOf(p)
  BY <1>1, StatusMoves
<1>3. ASSUME shownBar' = shownBar, StatusOf(p)' = StatusOf(p)
      PROVE  UNCHANGED Abstract!vars
  BY <1>2, <1>3 DEF Abstract!vars, statusBar
<1>4. ASSUME shownBar' = shownBar, StatusOf(p) \in {"idle", "pending"}, StatusOf(p)' = "failed"
      PROVE  Abstract!Next
  BY <1>2, <1>4 DEF Abstract!Next, Abstract!Fail
<1>5. CASE Invoke(p)
  <2>1. shownBar' = shownBar BY <1>5, ShownUnchanged DEF Invoke
  <2>2. StatusOf(p) = "idle" /\ StatusOf(p)' = "pending" BY <1>5 DEF Invoke, StatusOf, TypeOK
  <2> QED BY <1>2, <2>1, <2>2 DEF Abstract!Next, Abstract!Begin
<1>6. CASE CreateFile(p)
  <2>1. CASE dir[arg[p].stage] = Absent
    <3>1. /\ pc[p] = "create" /\ dir' = [dir EXCEPT ![arg[p].stage] = p]
          /\ pc' = [pc EXCEPT ![p] = "write"] /\ UNCHANGED <<data, arg, rc>>
      BY <1>6, <2>1 DEF CreateFile
    <3>2. shownBar' = shownBar
      <4>1. /\ \A n \in Names : n # arg[p].stage => dir'[n] = dir[n]
            /\ dir'[arg[p].stage] = p
        BY <1>0, <3>1 DEF TypeOK
      <4> QED BY <2>1, <3>1, <4>1, StageHidden
    <3>3. StatusOf(p)' = StatusOf(p) BY <3>1 DEF StatusOf, TypeOK
    <3> QED BY <1>3, <3>2, <3>3
  <2>2. CASE dir[arg[p].stage] # Absent
    <3>1. shownBar' = shownBar BY <1>6, <2>2, ShownUnchanged DEF CreateFile
    <3>2. StatusOf(p) = "pending" /\ StatusOf(p)' = "failed"
      BY <1>6, <2>2 DEF CreateFile, StatusOf, TypeOK
    <3> QED BY <1>4, <3>1, <3>2
  <2> QED BY <2>1, <2>2
<1>7. CASE WriteStreamingAll(p)
  <2>1. dir' = dir /\ arg' = arg /\ \A q \in Calls : q # p => data'[q] = data[q]
    BY <1>7 DEF WriteStreamingAll, TypeOK
  <2>2. dir[arg[p].output] # p
    BY <1>7 DEF WriteStreamingAll, SyncedBeforeRename, PublishedSynced
  <2>3. shownBar' = shownBar BY <2>1, <2>2, ShownUnchanged
  <2>4. StatusOf(p)' = StatusOf(p) BY <1>7 DEF WriteStreamingAll, StatusOf, TypeOK
  <2> QED BY <1>3, <2>3, <2>4
<1>8. CASE Sync(p)
  <2>1. shownBar' = shownBar BY <1>8, ShownUnchanged DEF Sync
  <2>2. StatusOf(p)' = StatusOf(p) BY <1>8 DEF Sync, StatusOf, TypeOK
  <2> QED BY <1>3, <2>1, <2>2
<1>9. CASE RenamePreserve(p)
  <2>1. CASE dir' = dir /\ pc' = [pc EXCEPT ![p] = "unlink"]
    <3>1. shownBar' = shownBar BY <1>9, <2>1, ShownUnchanged DEF RenamePreserve
    <3>2. StatusOf(p)' = StatusOf(p) BY <1>9, <2>1 DEF RenamePreserve, StatusOf, TypeOK
    <3> QED BY <1>3, <3>1, <3>2
  <2>2. CASE ~(dir' = dir /\ pc' = [pc EXCEPT ![p] = "unlink"])
    <3>1. /\ dir[arg[p].output] = Absent
          /\ pc[p] = "rename" /\ pc' = [pc EXCEPT ![p] = "renamed"]
          /\ dir' = [dir EXCEPT ![arg[p].output] = dir[arg[p].stage], ![arg[p].stage] = Absent]
          /\ UNCHANGED <<data, arg, rc>>
      BY <1>9, <2>2 DEF RenamePreserve
    <3>2. dir[arg[p].stage] = p /\ data[p] = "whole"
      BY <3>1 DEF StageIsOwned, SyncedBeforeRename, SyncedWhole
    <3>3. /\ dir'[arg[p].output] = p /\ dir'[arg[p].stage] = Absent
          /\ \A n \in Names : n \notin {arg[p].output, arg[p].stage} => dir'[n] = dir[n]
      BY <1>0, <3>1, <3>2 DEF TypeOK
    <3>4. shownBar[arg[p].output] = Absent
      BY <1>0, <3>1, AtomicFileAssumption DEF shownBar
    <3>5. shownBar' = [shownBar EXCEPT ![arg[p].output] = [by |-> p, content |-> "whole"]]
      <4>1. shownBar[arg[p].stage] = Absent /\ shownBar'[arg[p].stage] = Absent
        BY <1>0, <3>1, <3>2, <3>3, AtomicFileAssumption DEF shownBar
      <4>2. shownBar'[arg[p].output] = [by |-> p, content |-> "whole"]
        BY <1>0, <3>1, <3>2, <3>3, AtomicFileAssumption DEF shownBar
      <4>3. \A n \in Names : n \notin {arg[p].output, arg[p].stage} => shownBar'[n] = shownBar[n]
        BY <3>1, <3>3 DEF shownBar
      <4>4. shownBar = [n \in Names |-> shownBar[n]] /\ shownBar' = [n \in Names |-> shownBar'[n]]
        BY DEF shownBar
      <4> QED BY <1>0, <4>1, <4>2, <4>3, <4>4, ZenonT(30)
    <3>6. StatusOf(p) = "pending" /\ StatusOf(p)' = "published"
      BY <3>1 DEF StatusOf, TypeOK
    <3>7. Abstract!Publish(p)
      BY <1>0, <1>2, <3>4, <3>5, <3>6 DEF Abstract!Publish
    <3> QED BY <3>7 DEF Abstract!Next
  <2> QED BY <2>1, <2>2
<1>10. CASE ReturnZero(p)
  <2>1. shownBar' = shownBar BY <1>10, ShownUnchanged DEF ReturnZero
  <2>2. StatusOf(p) = "published" /\ StatusOf(p)' = "ok" BY <1>10 DEF ReturnZero, StatusOf, TypeOK
  <2> QED BY <1>2, <2>1, <2>2 DEF Abstract!Next, Abstract!Succeed
<1>11. CASE DeleteFile(p)
  <2>1. /\ pc[p] = "unlink" /\ pc' = [pc EXCEPT ![p] = "done"] /\ UNCHANGED <<data, arg, rc>>
        /\ dir[arg[p].stage] = p /\ dir'[arg[p].stage] \in {p, Absent}
        /\ \A n \in Names : n # arg[p].stage => dir'[n] = dir[n]
    BY <1>0, <1>11 DEF DeleteFile, StageIsOwned, TypeOK
  <2>2. shownBar' = shownBar BY <2>1, StageHidden
  <2>3. StatusOf(p) = "pending" /\ StatusOf(p)' = "failed"
    BY <2>1 DEF StatusOf, TypeOK, FailureWhenUnwound
  <2> QED BY <1>4, <2>2, <2>3
<1>12. CASE FailEarly(p)
  <2>1. shownBar' = shownBar BY <1>12, ShownUnchanged DEF FailEarly
  <2>2. StatusOf(p) \in {"idle", "pending"} /\ StatusOf(p)' = "failed"
    BY <1>12 DEF FailEarly, StatusOf, TypeOK
  <2> QED BY <1>4, <2>1, <2>2
<1>13. CASE Killed(p)
  <2>1. shownBar' = shownBar BY <1>13, ShownUnchanged DEF Killed
  <2>2. StatusOf(p) \in {"pending", "published"} /\ StatusOf(p)' = "lost"
    BY <1>13 DEF Killed, StatusOf, TypeOK
  <2> QED BY <1>2, <2>1, <2>2 DEF Abstract!Next, Abstract!Lose
<1> QED BY <1>5, <1>6, <1>7, <1>8, <1>9, <1>10, <1>11, <1>12, <1>13 DEF Step

\* So is a step of another program, of the journal or of the power supply.
LEMMA EnvironmentRefines ==
  ASSUME DurableInv, DurableInv', Environment
  PROVE  Abstract!Next \/ UNCHANGED Abstract!vars
<1> USE DEF DurableInv
<1>1. ASSUME NEW n \in Names, ExternalCreate(n) PROVE Abstract!Next
  <2>1. shownBar[n] = Absent BY <1>1, AtomicFileAssumption DEF ExternalCreate, shownBar
  <2>2. shownBar' = [shownBar EXCEPT ![n] = [by |-> External, content |-> "whole"]]
    BY <1>1 DEF ExternalCreate, shownBar, TypeOK
  <2>3. statusBar' = statusBar BY <1>1 DEF ExternalCreate, statusBar, StatusOf
  <2>4. Abstract!ExternalCreate(n, "whole") BY <2>1, <2>2, <2>3 DEF Abstract!ExternalCreate
  <2> QED BY <2>4 DEF Abstract!Next
<1>2. ASSUME NEW n \in Names, ExternalRemove(n) PROVE Abstract!Next \/ UNCHANGED Abstract!vars
  <2>1. shownBar' = [shownBar EXCEPT ![n] = Absent]
    BY <1>2, AtomicFileAssumption DEF ExternalRemove, shownBar, TypeOK
  <2>2. statusBar' = statusBar BY <1>2 DEF ExternalRemove, statusBar, StatusOf
  <2>3. CASE shownBar[n] = Absent
    <3>1. shownBar' = shownBar BY <2>1, <2>3 DEF shownBar
    <3> QED BY <2>2, <3>1 DEF Abstract!vars
  <2>4. CASE shownBar[n] # Absent
    <3>1. Abstract!ExternalRemove(n) BY <2>1, <2>2, <2>4 DEF Abstract!ExternalRemove
    <3> QED BY <3>1 DEF Abstract!Next
  <2> QED BY <2>3, <2>4
<1>3. CASE JournalCommit
  BY <1>3 DEF JournalCommit, Abstract!vars, shownBar, statusBar, StatusOf
<1>4. CASE PowerLoss
  <2>1. shownBar' \in [Names -> Abstract!Entry \cup {Absent}]
    BY DEF shownBar, Abstract!Entry, PublishedSynced, SyncedWhole
  <2>2. \A p \in Calls : StatusOf(p)' = IF StatusOf(p) \in {"pending", "published"} THEN "lost" ELSE StatusOf(p)
    BY <1>4 DEF PowerLoss, StatusOf, TypeOK
  <2>3. statusBar' = [p \in Calls |-> IF statusBar[p] \in {"pending", "published"} THEN "lost"
                                      ELSE statusBar[p]]
    BY <2>2 DEF statusBar
  <2> QED BY <1>4, <2>1, <2>3 DEF PowerLoss, Abstract!Next, Abstract!PowerLoss
<1> QED BY <1>1, <1>2, <1>3, <1>4 DEF Environment

\* writeNewFileAtomic implements NewEntry, through kills and power losses, for any
\* number of calls and names.
THEOREM Refinement == Spec => ImplementsNewEntry
<1>1. DurableInv /\ DurableInv' /\ FailureWhenUnwound /\ [Next]_vars => [Abstract!Next]_(Abstract!vars)
  <2> SUFFICES ASSUME DurableInv, DurableInv', FailureWhenUnwound, [Next]_vars
               PROVE  Abstract!Next \/ UNCHANGED Abstract!vars
    OBVIOUS
  <2>1. CASE UNCHANGED vars
    BY <2>1 DEF vars, Abstract!vars, shownBar, statusBar, StatusOf
  <2>2. CASE Environment BY <2>2, EnvironmentRefines
  <2>3. ASSUME NEW p \in Calls, Step(p) PROVE Abstract!Next \/ UNCHANGED Abstract!vars
    BY <2>3, StepRefines
  <2> QED BY <2>1, <2>2, <2>3 DEF Next
<1> QED BY <1>1, InitRefines, DurableInvHolds, UnwoundFails, PTL DEF Spec, ImplementsNewEntry, Abstract!Spec
=============================================================================
