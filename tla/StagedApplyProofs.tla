-------------------------- MODULE StagedApplyProofs --------------------------
(***************************************************************************)
(* Proofs about StagedApply, for any number of calls, names and trees.     *)
(* The argument rests on one inductive invariant, StageInv.  StageIsOwned  *)
(* alone is not inductive: that a call's stage is not also its output, and *)
(* that what waits for the rename is the tree that was verified, have to   *)
(* be carried along from the steps that established them.                  *)
(***************************************************************************)
EXTENDS StagedApply, TLAPS

\* Past the checks at the start, the staging name is not the output name.
NamesDiffer ==
    \A p \in Calls : pc[p] \in Running \ {"check"} => arg[p].output # arg[p].stage

\* Nothing writes to a stage between its verification and the rename.
VerifiedStage ==
    \A p \in Calls : pc[p] = "publish" => parent[arg[p].stage].content = arg[p].to

\* A return code is only set by a step that also ends or unwinds the call.
NoCodeYet ==
    \A p \in Calls : pc[p] \in (Running \ {"cleanup"}) \cup {"idle"} => rc[p] = "none"

\* Only a call that published ever reports success.
FailureWhenUnwound ==
    \A p \in Calls : pc[p] = "cleanup" => rc[p] \in {"exists", "failed"}

StageInv ==
    /\ TypeOK
    /\ StageIsOwned
    /\ OutputIsTarget
    /\ NamesDiffer
    /\ VerifiedStage
    /\ NoCodeYet
    /\ FailureWhenUnwound

-----------------------------------------------------------------------------
\* The inductive invariant holds before any call of applyPatchToNewDir.
LEMMA InitStageInv == Init => StageInv
<1> SUFFICES ASSUME Init PROVE StageInv
  OBVIOUS
<1>1. TypeOK
  BY StagedApplyAssumption DEF Init, TypeOK, ReturnCodes
<1>2. \A p \in Calls : pc[p] = "idle" /\ rc[p] = "none"
  BY DEF Init
<1>3. StageIsOwned /\ NamesDiffer /\ VerifiedStage /\ NoCodeYet /\ FailureWhenUnwound
  BY <1>2 DEF StageIsOwned, NamesDiffer, VerifiedStage, NoCodeYet, FailureWhenUnwound,
              Running, OwnsStage
<1>4. OutputIsTarget
  BY <1>1 DEF Init, OutputIsTarget, TypeOK, Request
<1> QED BY <1>1, <1>3, <1>4 DEF StageInv

USE DEF Goto, Return, Unwind, Running, OwnsStage, Ended, ReturnCodes, Request, Object

\* Every step of a call preserves the types.
LEMMA StepType ==
  ASSUME TypeOK, StageIsOwned, NEW p \in Calls, Step(p)
  PROVE  TypeOK'
<1>1. CASE Invoke(p) BY <1>1 DEF Invoke, TypeOK
<1>2. CASE CheckOutput(p) BY <1>2 DEF CheckOutput, TypeOK
<1>3. CASE BeginWalk(p) BY <1>3 DEF BeginWalk, TypeOK
<1>4. CASE EndWalk(p) BY <1>4 DEF EndWalk, TypeOK
<1>5. CASE Reconstruct(p) BY <1>5 DEF Reconstruct, TypeOK
<1>6. CASE CreateStage(p)
  <2>1. [by |-> p, content |-> Incomplete] \in Object OBVIOUS
  <2>2. arg[p].stage \in Names BY DEF TypeOK
  <2>3. parent' \in [Names -> Object \cup {Absent}]
    BY <1>6, <2>1, <2>2 DEF CreateStage, TypeOK
  <2> QED BY <1>6, <2>3 DEF CreateStage, TypeOK
<1>7. CASE WriteSnapshot(p)
  <2>1. parent[arg[p].stage] \in Object BY <1>7 DEF WriteSnapshot, TypeOK, StageIsOwned
  <2>2. arg[p].stage \in Names /\ arg[p].to \in Trees BY DEF TypeOK
  <2>3. PICK t \in Trees : parent' = [parent EXCEPT ![arg[p].stage].content = t]
    BY <1>7, <2>2 DEF WriteSnapshot
  <2>4. [parent[arg[p].stage] EXCEPT !.content = t] \in Object BY <2>1
  <2>5. parent' \in [Names -> Object \cup {Absent}] BY <2>2, <2>3, <2>4 DEF TypeOK
  <2> QED BY <1>7, <2>5 DEF WriteSnapshot, TypeOK
<1>8. CASE VerifyStage(p) BY <1>8 DEF VerifyStage, TypeOK
<1>9. CASE PublishStagingDir(p)
  <2>1. arg[p].stage \in Names /\ arg[p].output \in Names BY DEF TypeOK
  <2>2. parent' \in [Names -> Object \cup {Absent}]
    BY <1>9, <2>1 DEF PublishStagingDir, TypeOK
  <2> QED BY <1>9, <2>2 DEF PublishStagingDir, TypeOK
<1>10. CASE ReturnReport(p) BY <1>10 DEF ReturnReport, TypeOK
<1>11. CASE DeleteOwnedTree(p)
  <2>1. parent[arg[p].stage] \in Object BY <1>11 DEF DeleteOwnedTree, TypeOK, StageIsOwned
  <2> QED BY <1>11, <2>1 DEF DeleteOwnedTree, TypeOK
<1>12. CASE FailBeforeStage(p) BY <1>12 DEF FailBeforeStage, TypeOK
<1>13. CASE FailWithStage(p) BY <1>13 DEF FailWithStage, TypeOK
<1>14. CASE OnAlarm(p) BY <1>14 DEF OnAlarm, TypeOK
<1> QED BY <1>1, <1>2, <1>3, <1>4, <1>5, <1>6, <1>7, <1>8, <1>9, <1>10, <1>11,
           <1>12, <1>13, <1>14 DEF Step

\* The steps that leave the parent directory alone keep every conjunct.
QuietStep(p) ==
    \/ Invoke(p) \/ CheckOutput(p) \/ BeginWalk(p) \/ EndWalk(p) \/ Reconstruct(p)
    \/ VerifyStage(p) \/ ReturnReport(p)
    \/ FailBeforeStage(p) \/ FailWithStage(p) \/ OnAlarm(p)

\* Steps that leave the parent directory alone preserve the invariant.
LEMMA QuietStepInv ==
  ASSUME StageInv, NEW p \in Calls, QuietStep(p)
  PROVE  StageInv'
<1> USE DEF StageInv
<1>1. TypeOK' BY StepType DEF QuietStep, Step
<1>2. parent' = parent /\ arg' = arg
  BY DEF QuietStep, Invoke, CheckOutput, BeginWalk, EndWalk, Reconstruct, VerifyStage,
         ReturnReport, FailBeforeStage, FailWithStage, OnAlarm
<1>3. \A q \in Calls : q # p => pc'[q] = pc[q] /\ rc'[q] = rc[q]
  BY DEF QuietStep, Invoke, CheckOutput, BeginWalk, EndWalk, Reconstruct, VerifyStage,
         ReturnReport, FailBeforeStage, FailWithStage, OnAlarm, TypeOK
<1>4. StageIsOwned'
  BY <1>2, <1>3 DEF StageIsOwned, QuietStep, Invoke, CheckOutput, BeginWalk, EndWalk,
     Reconstruct, VerifyStage, ReturnReport, FailBeforeStage, FailWithStage, OnAlarm, TypeOK
<1>5. OutputIsTarget'
  BY <1>2, <1>3 DEF OutputIsTarget, NoCodeYet, QuietStep, Invoke, CheckOutput, BeginWalk,
     EndWalk, Reconstruct, VerifyStage, ReturnReport, FailBeforeStage, FailWithStage,
     OnAlarm, TypeOK
<1>6. NamesDiffer'
  BY <1>2, <1>3 DEF NamesDiffer, QuietStep, Invoke, CheckOutput, BeginWalk, EndWalk,
     Reconstruct, VerifyStage, ReturnReport, FailBeforeStage, FailWithStage, OnAlarm, TypeOK
<1>7. VerifiedStage'
  BY <1>2, <1>3 DEF VerifiedStage, QuietStep, Invoke, CheckOutput, BeginWalk, EndWalk,
     Reconstruct, VerifyStage, ReturnReport, FailBeforeStage, FailWithStage, OnAlarm, TypeOK
<1>8. NoCodeYet' /\ FailureWhenUnwound'
  BY <1>3 DEF NoCodeYet, FailureWhenUnwound, QuietStep, Invoke, CheckOutput, BeginWalk, EndWalk,
     Reconstruct, VerifyStage, ReturnReport, FailBeforeStage, FailWithStage, OnAlarm, TypeOK
<1> QED BY <1>1, <1>4, <1>5, <1>6, <1>7, <1>8

\* createDir makes the call the owner of its staging name, or fails.
LEMMA CreateStageInv ==
  ASSUME StageInv, NEW p \in Calls, CreateStage(p)
  PROVE  StageInv'
<1> USE DEF StageInv
<1>1. TypeOK' BY StepType DEF Step
<1>2. CASE parent[arg[p].stage] # Absent
  <2>1. /\ pc[p] = "create" /\ pc' = [pc EXCEPT ![p] = "done"]
        /\ rc' = [rc EXCEPT ![p] = "failed"]
        /\ parent' = parent /\ arg' = arg
    BY <1>2 DEF CreateStage
  <2>2. StageIsOwned' /\ VerifiedStage' BY <2>1 DEF StageIsOwned, VerifiedStage, TypeOK
  <2>3. OutputIsTarget' BY <2>1 DEF OutputIsTarget, TypeOK
  <2>4. NamesDiffer' /\ NoCodeYet' /\ FailureWhenUnwound'
    BY <2>1 DEF NamesDiffer, NoCodeYet, FailureWhenUnwound, TypeOK
  <2> QED BY <1>1, <2>2, <2>3, <2>4
<1>3. CASE parent[arg[p].stage] = Absent
  <2>1. arg[p].stage \in Names /\ arg[p].output # arg[p].stage
    BY DEF CreateStage, TypeOK, NamesDiffer
  <2>2. /\ parent' = [parent EXCEPT ![arg[p].stage] = [by |-> p, content |-> Incomplete]]
        /\ pc[p] = "create" /\ pc' = [pc EXCEPT ![p] = "write"]
        /\ arg' = arg /\ rc' = rc
    BY <1>3 DEF CreateStage
  <2>3. StageIsOwned'
    BY <1>3, <2>1, <2>2, AbsentAssumption DEF StageIsOwned, TypeOK
  <2>4. OutputIsTarget'
    BY <1>3, <2>1, <2>2 DEF OutputIsTarget, TypeOK
  <2>5. VerifiedStage'
    BY <1>3, <2>1, <2>2 DEF VerifiedStage, StageIsOwned, TypeOK
  <2>6. NamesDiffer' /\ NoCodeYet' /\ FailureWhenUnwound'
    BY <2>1, <2>2 DEF CreateStage, NamesDiffer, NoCodeYet, FailureWhenUnwound, TypeOK
  <2> QED BY <1>1, <2>3, <2>4, <2>5, <2>6
<1> QED BY <1>2, <1>3

\* Writing the tree changes the call's own staging directory only.
LEMMA WriteSnapshotInv ==
  ASSUME StageInv, NEW p \in Calls, WriteSnapshot(p)
  PROVE  StageInv'
<1> USE DEF StageInv
<1>1. TypeOK' BY StepType DEF Step
<1>2. arg[p].stage \in Names /\ arg[p].output # arg[p].stage
  BY DEF WriteSnapshot, TypeOK, NamesDiffer
<1>3. parent[arg[p].stage] \in Object /\ parent[arg[p].stage].by = p
  BY <1>2 DEF WriteSnapshot, TypeOK, StageIsOwned
<1>4. PICK t \in Trees \cup {arg[p].to} : parent' = [parent EXCEPT ![arg[p].stage].content = t]
  BY DEF WriteSnapshot
<1>5. pc' = [pc EXCEPT ![p] = "verify"] /\ arg' = arg /\ rc' = rc
  BY DEF WriteSnapshot
<1>6. /\ parent'[arg[p].stage].by = p
      /\ parent'[arg[p].stage] # Absent
      /\ \A n \in Names : n # arg[p].stage => parent'[n] = parent[n]
  BY <1>1, <1>2, <1>3, <1>4, AbsentAssumption DEF TypeOK
<1>7. StageIsOwned'
  BY <1>3, <1>5, <1>6 DEF StageIsOwned, TypeOK, WriteSnapshot
<1>8. OutputIsTarget'
  BY <1>2, <1>3, <1>5, <1>6 DEF OutputIsTarget, TypeOK, WriteSnapshot
<1>9. VerifiedStage'
  BY <1>3, <1>5, <1>6 DEF VerifiedStage, StageIsOwned, TypeOK, WriteSnapshot
<1>10. NamesDiffer' /\ NoCodeYet' /\ FailureWhenUnwound'
  BY <1>2, <1>5 DEF WriteSnapshot, NamesDiffer, NoCodeYet, FailureWhenUnwound, TypeOK
<1> QED BY <1>1, <1>7, <1>8, <1>9, <1>10

\* The rename moves a complete, verified tree to a free name.
LEMMA PublishInv ==
  ASSUME StageInv, NEW p \in Calls, PublishStagingDir(p)
  PROVE  StageInv'
<1> USE DEF StageInv
<1>1. TypeOK' BY StepType DEF Step
<1>2. CASE parent[arg[p].output] # Absent
  <2>1. /\ pc[p] = "publish" /\ pc' = [pc EXCEPT ![p] = "cleanup"]
        /\ rc' = [rc EXCEPT ![p] = IF Darwin THEN "exists" ELSE "failed"]
        /\ parent' = parent /\ arg' = arg
    BY <1>2 DEF PublishStagingDir
  <2>2. StageIsOwned' /\ VerifiedStage' BY <2>1 DEF StageIsOwned, VerifiedStage, TypeOK
  <2>3. OutputIsTarget' BY <2>1 DEF OutputIsTarget, TypeOK
  <2>4. NamesDiffer' /\ NoCodeYet' /\ FailureWhenUnwound'
    BY <2>1 DEF NamesDiffer, NoCodeYet, FailureWhenUnwound, TypeOK
  <2> QED BY <1>1, <2>2, <2>3, <2>4
<1>3. CASE parent[arg[p].output] = Absent
  <2>1. arg[p].stage \in Names /\ arg[p].output \in Names /\ arg[p].output # arg[p].stage
    BY DEF PublishStagingDir, TypeOK, NamesDiffer
  <2>2. parent[arg[p].stage].by = p /\ parent[arg[p].stage].content = arg[p].to /\ rc[p] = "none"
    BY DEF PublishStagingDir, StageIsOwned, VerifiedStage, NoCodeYet
  <2>3. /\ parent' = [parent EXCEPT ![arg[p].output] = parent[arg[p].stage],
                                    ![arg[p].stage] = Absent]
        /\ pc' = [pc EXCEPT ![p] = "published"]
        /\ arg' = arg /\ rc' = rc
    BY <1>3 DEF PublishStagingDir
  <2>4. StageIsOwned'
    BY <1>3, <2>1, <2>2, <2>3 DEF StageIsOwned, TypeOK
  <2>5. OutputIsTarget'
    BY <1>3, <2>1, <2>2, <2>3 DEF OutputIsTarget, TypeOK
  <2>6. VerifiedStage'
    BY <1>3, <2>1, <2>2, <2>3 DEF VerifiedStage, StageIsOwned, TypeOK
  <2>7. NamesDiffer' /\ NoCodeYet' /\ FailureWhenUnwound'
    BY <2>1, <2>2, <2>3 DEF NamesDiffer, NoCodeYet, FailureWhenUnwound, TypeOK
  <2> QED BY <1>1, <2>4, <2>5, <2>6, <2>7
<1> QED BY <1>2, <1>3

\* The errdefer removes the call's own directory, wholly or in part.
LEMMA DeleteOwnedTreeInv ==
  ASSUME StageInv, NEW p \in Calls, DeleteOwnedTree(p)
  PROVE  StageInv'
<1> USE DEF StageInv
<1>1. TypeOK' BY StepType DEF Step
<1>2. arg[p].stage \in Names /\ arg[p].output # arg[p].stage
  BY DEF DeleteOwnedTree, TypeOK, NamesDiffer
<1>3. parent[arg[p].stage].by = p
  BY DEF DeleteOwnedTree, StageIsOwned
<1>4. pc' = [pc EXCEPT ![p] = "done"] /\ arg' = arg /\ rc' = rc
  BY DEF DeleteOwnedTree
<1>5. \A n \in Names : n # arg[p].stage => parent'[n] = parent[n]
  BY <1>2 DEF DeleteOwnedTree, TypeOK
<1>6. StageIsOwned'
  BY <1>3, <1>4, <1>5 DEF StageIsOwned, TypeOK
<1>7. OutputIsTarget'
  <2> SUFFICES ASSUME NEW q \in Calls, parent'[arg[q].output] # Absent,
                      parent'[arg[q].output].by = q
               PROVE  /\ parent'[arg[q].output].content = arg[q].to
                      /\ pc'[q] \in {"published"} \cup Ended
                      /\ rc[q] \in {"none", "ok"}
    BY <1>4 DEF OutputIsTarget
  <2>1. CASE arg[q].output # arg[p].stage
    <3>1. parent'[arg[q].output] = parent[arg[q].output] BY <1>5, <2>1 DEF TypeOK
    <3> QED BY <3>1, <1>4 DEF OutputIsTarget, TypeOK
  <2>2. CASE arg[q].output = arg[p].stage
    <3>1. parent'[arg[q].output].by = p
      BY <1>2, <1>3, <2>2, AbsentAssumption DEF DeleteOwnedTree, TypeOK, StageIsOwned
    <3> QED BY <3>1, <2>2, <1>2
  <2> QED BY <2>1, <2>2
<1>8. VerifiedStage'
  BY <1>3, <1>4, <1>5 DEF VerifiedStage, StageIsOwned, TypeOK
<1>9. NamesDiffer' /\ NoCodeYet' /\ FailureWhenUnwound'
  BY <1>2, <1>4 DEF DeleteOwnedTree, NamesDiffer, NoCodeYet, FailureWhenUnwound, TypeOK
<1> QED BY <1>1, <1>6, <1>7, <1>8, <1>9

\* Other programs and the editor of the source preserve the invariant.
LEMMA EnvironmentInv ==
  ASSUME StageInv, Environment
  PROVE  StageInv'
<1> USE DEF StageInv
<1>1. ASSUME NEW t \in Trees, SourceChange(t) PROVE StageInv'
  BY <1>1 DEF SourceChange, TypeOK, StageIsOwned, OutputIsTarget, NamesDiffer, VerifiedStage,
              NoCodeYet, FailureWhenUnwound
<1>2. ASSUME NEW n \in Names, NEW t \in Trees, ExternalCreate(n, t) PROVE StageInv'
  <2>1. /\ parent' = [parent EXCEPT ![n] = [by |-> External, content |-> t]]
        /\ parent[n] = Absent
        /\ pc' = pc /\ arg' = arg /\ rc' = rc /\ seen' = seen /\ source' = source
    BY <1>2 DEF ExternalCreate
  <2>2. [by |-> External, content |-> t] \in Object OBVIOUS
  <2>3. TypeOK' BY <2>1, <2>2 DEF TypeOK
  <2>4. StageIsOwned' BY <2>1 DEF StageIsOwned, TypeOK
  <2>5. OutputIsTarget' BY <2>1, StagedApplyAssumption DEF OutputIsTarget, TypeOK
  <2>6. VerifiedStage' BY <2>1 DEF VerifiedStage, StageIsOwned, TypeOK
  <2>7. NamesDiffer' /\ NoCodeYet' /\ FailureWhenUnwound'
    BY <2>1 DEF NamesDiffer, NoCodeYet, FailureWhenUnwound
  <2> QED BY <2>3, <2>4, <2>5, <2>6, <2>7
<1>3. ASSUME NEW n \in Names, ExternalRemove(n) PROVE StageInv'
  <2>1. /\ parent' = [parent EXCEPT ![n] = Absent]
        /\ \A p \in Calls : ~(pc[p] \in OwnsStage /\ arg[p].stage = n)
        /\ pc' = pc /\ arg' = arg /\ rc' = rc /\ seen' = seen /\ source' = source
    BY <1>3 DEF ExternalRemove
  <2>2. TypeOK' BY <2>1 DEF TypeOK
  <2>3. StageIsOwned' BY <2>1 DEF StageIsOwned, TypeOK
  <2>4. OutputIsTarget' BY <2>1 DEF OutputIsTarget, TypeOK
  <2>5. VerifiedStage' BY <2>1 DEF VerifiedStage, TypeOK
  <2>6. NamesDiffer' /\ NoCodeYet' /\ FailureWhenUnwound'
    BY <2>1 DEF NamesDiffer, NoCodeYet, FailureWhenUnwound
  <2> QED BY <2>2, <2>3, <2>4, <2>5, <2>6
<1> QED BY <1>1, <1>2, <1>3 DEF Environment

\* The invariant is inductive.
LEMMA StageInvInductive == StageInv /\ [Next]_vars => StageInv'
<1> SUFFICES ASSUME StageInv, [Next]_vars PROVE StageInv'
  OBVIOUS
<1>1. CASE UNCHANGED vars
  BY <1>1 DEF vars, StageInv, TypeOK, StageIsOwned, OutputIsTarget, NamesDiffer, VerifiedStage,
              NoCodeYet, FailureWhenUnwound
<1>2. CASE Environment BY <1>2, EnvironmentInv
<1>3. ASSUME NEW p \in Calls, Step(p) PROVE StageInv'
  BY <1>3, QuietStepInv, CreateStageInv, WriteSnapshotInv, PublishInv, DeleteOwnedTreeInv
  DEF Step, QuietStep
<1> QED BY <1>1, <1>2, <1>3 DEF Next

\* The inductive invariant holds in every state of every behaviour.
THEOREM StageInvHolds == Spec => []StageInv
  BY InitStageInv, StageInvInductive, PTL DEF Spec

\* Type correctness.
THEOREM TypeCorrect == Spec => []TypeOK
<1>1. StageInv => TypeOK BY DEF StageInv
<1> QED BY <1>1, StageInvHolds, PTL

\* deleteOwnedTree and the rename only ever address the call's own directory.
THEOREM StageOwnership == Spec => []StageIsOwned
<1>1. StageInv => StageIsOwned BY DEF StageInv
<1> QED BY <1>1, StageInvHolds, PTL

\* No program ever finds an unfinished or unverified tree under an output name.
THEOREM OutputCorrect == Spec => []OutputIsTarget
<1>1. StageInv => OutputIsTarget BY DEF StageInv
<1> QED BY <1>1, StageInvHolds, PTL

-----------------------------------------------------------------------------
(* Action property: the entries a step of a call may touch.                *)

\* A step of a call changes no entry but an absent one or its own.
LEMMA StepTouchesOwn ==
  ASSUME StageInv, NEW p \in Calls, Step(p), NEW n \in Names,
         parent[n] # Absent, parent[n].by # p
  PROVE  parent'[n] = parent[n]
<1> USE DEF StageInv
<1>1. CASE QuietStep(p)
  BY <1>1 DEF QuietStep, Invoke, CheckOutput, BeginWalk, EndWalk, Reconstruct, VerifyStage,
              ReturnReport, FailBeforeStage, FailWithStage, OnAlarm
<1>2. CASE CreateStage(p) BY <1>2 DEF CreateStage, TypeOK
<1>3. CASE WriteSnapshot(p) BY <1>3 DEF WriteSnapshot, TypeOK, StageIsOwned
<1>4. CASE PublishStagingDir(p) BY <1>4 DEF PublishStagingDir, TypeOK, StageIsOwned
<1>5. CASE DeleteOwnedTree(p) BY <1>5 DEF DeleteOwnedTree, TypeOK, StageIsOwned
<1> QED BY <1>1, <1>2, <1>3, <1>4, <1>5 DEF Step, QuietStep

\* No call ever changes or removes an entry of the parent directory that it did
\* not create, however many calls and other programs work there.
THEOREM ForeignEntriesSafe == Spec => ForeignUntouched
<1>1. StageInv => [\A p \in Calls : Step(p) =>
                      \A n \in Names : parent[n] # Absent /\ parent[n].by # p
                                          => parent'[n] = parent[n]]_vars
  BY StepTouchesOwn
<1> QED BY <1>1, StageInvHolds, PTL DEF ForeignUntouched

-----------------------------------------------------------------------------
(* Every entry a call created is at its staging name while it owns one, or *)
(* at its output name after the rename, unless the process was killed.     *)

EntriesAccounted ==
    \A p \in Calls, n \in Names : parent[n] # Absent /\ parent[n].by = p =>
        \/ pc[p] \in OwnsStage /\ n = arg[p].stage
        \/ pc[p] = "published" /\ n = arg[p].output
        \/ pc[p] = "done" /\ rc[p] = "ok" /\ n = arg[p].output
        \/ pc[p] = "killed"

\* Every step of a call keeps account of the entries the call created.
LEMMA StepAccounted ==
  ASSUME ~CleanupFaults, StageInv, EntriesAccounted, NEW p \in Calls, Step(p)
  PROVE  EntriesAccounted'
<1> USE DEF StageInv
<1>1. CASE QuietStep(p)
  <2>1. parent' = parent /\ arg' = arg
    BY <1>1 DEF QuietStep, Invoke, CheckOutput, BeginWalk, EndWalk, Reconstruct, VerifyStage,
                ReturnReport, FailBeforeStage, FailWithStage, OnAlarm
  <2>2. \A q \in Calls : q # p => pc'[q] = pc[q] /\ rc'[q] = rc[q]
    BY <1>1 DEF QuietStep, Invoke, CheckOutput, BeginWalk, EndWalk, Reconstruct, VerifyStage,
                ReturnReport, FailBeforeStage, FailWithStage, OnAlarm, TypeOK
  <2> QED
    BY <1>1, <2>1, <2>2 DEF EntriesAccounted, QuietStep, Invoke, CheckOutput, BeginWalk, EndWalk,
       Reconstruct, VerifyStage, ReturnReport, FailBeforeStage, FailWithStage, OnAlarm, TypeOK
<1>2. CASE CreateStage(p)
  <2>1. CASE parent[arg[p].stage] # Absent
    BY <1>2, <2>1 DEF CreateStage, EntriesAccounted, TypeOK
  <2>2. CASE parent[arg[p].stage] = Absent
    BY <1>2, <2>2 DEF CreateStage, EntriesAccounted, TypeOK
  <2> QED BY <2>1, <2>2
<1>3. CASE WriteSnapshot(p)
  <2>1. parent[arg[p].stage] \in Object BY <1>3 DEF WriteSnapshot, StageIsOwned, TypeOK
  <2>2. \A n \in Names : parent'[n] # Absent =>
            parent[n] # Absent /\ parent'[n].by = parent[n].by
    BY <1>3, <2>1, AbsentAssumption DEF WriteSnapshot, TypeOK
  <2> QED BY <1>3, <2>2 DEF WriteSnapshot, EntriesAccounted, TypeOK
<1>4. CASE PublishStagingDir(p)
  <2>1. CASE parent[arg[p].output] # Absent
    BY <1>4, <2>1 DEF PublishStagingDir, EntriesAccounted, TypeOK
  <2>2. CASE parent[arg[p].output] = Absent
    BY <1>4, <2>2 DEF PublishStagingDir, EntriesAccounted, TypeOK, StageIsOwned
  <2> QED BY <2>1, <2>2
<1>5. CASE DeleteOwnedTree(p)
  <2>1. parent' = [parent EXCEPT ![arg[p].stage] = Absent] BY <1>5 DEF DeleteOwnedTree
  <2> QED BY <1>5, <2>1 DEF DeleteOwnedTree, EntriesAccounted, TypeOK
<1> QED BY <1>1, <1>2, <1>3, <1>4, <1>5 DEF Step, QuietStep

\* When deleteOwnedTree itself does not fail, a call that returned has left its
\* published output or nothing.
THEOREM CleanupComplete ==
  ASSUME ~CleanupFaults
  PROVE  Spec => []NoStageLeft
<1>1. Init => EntriesAccounted
  BY DEF Init, EntriesAccounted
<1>2. StageInv /\ EntriesAccounted /\ [Next]_vars => EntriesAccounted'
  <2> SUFFICES ASSUME StageInv, EntriesAccounted, [Next]_vars PROVE EntriesAccounted'
    OBVIOUS
  <2> USE DEF StageInv
  <2>1. CASE UNCHANGED vars BY <2>1 DEF vars, EntriesAccounted
  <2>2. ASSUME NEW t \in Trees, SourceChange(t) PROVE EntriesAccounted'
    BY <2>2 DEF SourceChange, EntriesAccounted
  <2>3. ASSUME NEW n \in Names, NEW t \in Trees, ExternalCreate(n, t) PROVE EntriesAccounted'
    BY <2>3, StagedApplyAssumption DEF ExternalCreate, EntriesAccounted, TypeOK
  <2>4. ASSUME NEW n \in Names, ExternalRemove(n) PROVE EntriesAccounted'
    BY <2>4 DEF ExternalRemove, EntriesAccounted, TypeOK
  <2>5. ASSUME NEW p \in Calls, Step(p) PROVE EntriesAccounted'
    BY <2>5, StepAccounted
  <2> QED BY <2>1, <2>2, <2>3, <2>4, <2>5 DEF Next, Environment
<1>3. EntriesAccounted => NoStageLeft
  BY DEF EntriesAccounted, NoStageLeft
<1> QED BY <1>1, <1>2, <1>3, StageInvHolds, PTL DEF Spec

-----------------------------------------------------------------------------
(* Refinement.                                                             *)

\* Initial states of the staged apply are initial states of NewEntry.
LEMMA InitRefines == Init => Abstract!Init
  BY DEF Init, Abstract!Init, shownBar, statusBar, StatusOf, IsOutput

\* A step that changes no entry changes nothing other programs can see.
LEMMA ShownUnchanged ==
  ASSUME parent' = parent, arg' = arg
  PROVE  shownBar' = shownBar
  BY DEF shownBar, IsOutput

\* A step of one call moves the abstract status of that call only.
LEMMA StatusMoves ==
  ASSUME TypeOK, NEW p \in Calls, \A q \in Calls : q # p => pc'[q] = pc[q] /\ rc'[q] = rc[q]
  PROVE  statusBar' = [statusBar EXCEPT ![p] = StatusOf(p)']
  BY ZenonT(60) DEF statusBar, StatusOf

\* A step that ends a call without publishing is a failure of the abstract call.
LEMMA StepRefines ==
  ASSUME StageInv, StageInv', NEW p \in Calls, Step(p)
  PROVE  Abstract!Next \/ UNCHANGED Abstract!vars
<1> USE DEF StageInv
<1>0. \A q \in Calls : q # p => pc'[q] = pc[q] /\ rc'[q] = rc[q]
  BY DEF Step, Invoke, CheckOutput, BeginWalk, EndWalk, Reconstruct, CreateStage, WriteSnapshot,
         VerifyStage, PublishStagingDir, ReturnReport, DeleteOwnedTree, FailBeforeStage,
         FailWithStage, OnAlarm, TypeOK
<1>1. statusBar' = [statusBar EXCEPT ![p] = StatusOf(p)'] /\ statusBar[p] = StatusOf(p)
  BY <1>0, StatusMoves DEF statusBar
<1>2. pc[p] \in {"idle"} \cup Running \cup Ended /\ pc'[p] \in {"idle"} \cup Running \cup Ended
  BY DEF TypeOK
<1>3. arg[p].stage \in Names /\ arg[p].output \in Names
  BY DEF TypeOK
<1>4. ASSUME shownBar' = shownBar, StatusOf(p)' = StatusOf(p)
      PROVE  UNCHANGED Abstract!vars
  BY <1>1, <1>4 DEF Abstract!vars, statusBar
<1>5. ASSUME shownBar' = shownBar, StatusOf(p) \in {"idle", "pending"}, StatusOf(p)' = "failed"
      PROVE  Abstract!Next
  BY <1>1, <1>5 DEF Abstract!Next, Abstract!Fail
<1>6. CASE Invoke(p)
  <2>1. shownBar' = shownBar BY <1>6, ShownUnchanged DEF Invoke
  <2>2. StatusOf(p) = "idle" /\ StatusOf(p)' = "pending" BY <1>6 DEF Invoke, StatusOf, TypeOK
  <2> QED BY <1>1, <2>1, <2>2 DEF Abstract!Next, Abstract!Begin
<1>7. CASE CheckOutput(p) \/ BeginWalk(p) \/ EndWalk(p) \/ Reconstruct(p) \/ VerifyStage(p)
           \/ FailWithStage(p) \/ FailBeforeStage(p)
  <2>1. shownBar' = shownBar
    BY <1>7, ShownUnchanged DEF CheckOutput, BeginWalk, EndWalk, Reconstruct, VerifyStage,
       FailWithStage, FailBeforeStage
  <2>2. StatusOf(p) \in {"idle", "pending"}
    BY <1>7 DEF CheckOutput, BeginWalk, EndWalk, Reconstruct, VerifyStage, FailWithStage,
       FailBeforeStage, StatusOf
  <2>3. StatusOf(p)' = StatusOf(p) \/ StatusOf(p)' = "failed"
    BY <1>7 DEF CheckOutput, BeginWalk, EndWalk, Reconstruct, VerifyStage, FailWithStage,
       FailBeforeStage, StatusOf, TypeOK
  <2> QED BY <1>4, <1>5, <2>1, <2>2, <2>3
<1>8. CASE CreateStage(p)
  <2>1. arg[p].output # arg[p].stage BY <1>8 DEF CreateStage, NamesDiffer
  <2>2. shownBar' = shownBar
    BY <1>3, <1>8, <2>1 DEF CreateStage, shownBar, IsOutput, TypeOK
  <2>3. StatusOf(p) = "pending" /\ StatusOf(p)' \in {"pending", "failed"}
    BY <1>8 DEF CreateStage, StatusOf, TypeOK
  <2> QED BY <1>4, <1>5, <2>2, <2>3
<1>9. CASE WriteSnapshot(p)
  <2>1. arg[p].output # arg[p].stage BY <1>9 DEF WriteSnapshot, NamesDiffer
  <2>2. /\ parent[arg[p].stage] \in Object /\ parent[arg[p].stage].by = p
        /\ parent'[arg[p].stage] \in Object /\ parent'[arg[p].stage].by = p
    BY <1>3, <1>9 DEF WriteSnapshot, StageIsOwned, TypeOK
  <2>3. ~IsOutput(arg[p].stage) /\ ~IsOutput(arg[p].stage)'
    BY <1>9, <2>1, <2>2 DEF WriteSnapshot, IsOutput
  <2>4. \A n \in Names : n # arg[p].stage => parent'[n] = parent[n]
    BY <1>9 DEF WriteSnapshot, TypeOK
  <2>5. shownBar' = shownBar
    BY <1>9, <2>3, <2>4, Zenon DEF WriteSnapshot, shownBar, IsOutput
  <2>6. StatusOf(p) = "pending" /\ StatusOf(p)' = "pending"
    BY <1>9 DEF WriteSnapshot, StatusOf, TypeOK
  <2> QED BY <1>4, <2>5, <2>6
<1>10. CASE DeleteOwnedTree(p)
  <2>1. arg[p].output # arg[p].stage BY <1>10 DEF DeleteOwnedTree, NamesDiffer
  <2>2. parent[arg[p].stage] \in Object /\ parent[arg[p].stage].by = p
    BY <1>3, <1>10 DEF DeleteOwnedTree, StageIsOwned, TypeOK
  <2>3. parent'[arg[p].stage] = Absent \/ parent'[arg[p].stage].by = p
    BY <1>3, <1>10, <2>2 DEF DeleteOwnedTree, TypeOK
  <2>4. ~IsOutput(arg[p].stage) /\ ~IsOutput(arg[p].stage)'
    BY <1>10, <2>1, <2>2, <2>3 DEF DeleteOwnedTree, IsOutput
  <2>5. \A n \in Names : n # arg[p].stage => parent'[n] = parent[n]
    BY <1>10 DEF DeleteOwnedTree, TypeOK
  <2>6. shownBar' = shownBar
    BY <1>10, <2>4, <2>5, Zenon DEF DeleteOwnedTree, shownBar, IsOutput
  <2>7. StatusOf(p) = "pending" /\ StatusOf(p)' = "failed"
    BY <1>10 DEF DeleteOwnedTree, StatusOf, TypeOK, FailureWhenUnwound
  <2> QED BY <1>5, <2>6, <2>7
<1>11. CASE PublishStagingDir(p)
  <2>1. CASE parent[arg[p].output] # Absent
    <3>1. shownBar' = shownBar BY <1>11, <2>1, ShownUnchanged DEF PublishStagingDir
    <3>2. StatusOf(p) = "pending" /\ StatusOf(p)' = "pending"
      BY <1>11, <2>1 DEF PublishStagingDir, StatusOf, TypeOK
    <3> QED BY <1>4, <3>1, <3>2
  <2>2. CASE parent[arg[p].output] = Absent
    <3> DEFINE o == arg[p].output
               s == arg[p].stage
    <3>1. o # s BY <1>11 DEF PublishStagingDir, NamesDiffer
    <3>2. parent[s] \in Object /\ parent[s].by = p /\ parent[s].content = arg[p].to
      BY <1>3, <1>11 DEF PublishStagingDir, StageIsOwned, VerifiedStage, TypeOK
    <3>3. parent[s] = [by |-> p, content |-> arg[p].to]
      BY <3>2
    <3>4. parent' = [parent EXCEPT ![o] = parent[s], ![s] = Absent] /\ arg' = arg
      BY <1>11, <2>2 DEF PublishStagingDir
    <3>5. ~IsOutput(s) /\ ~IsOutput(s)'
      BY <1>3, <3>1, <3>2, <3>4 DEF IsOutput, TypeOK
    <3>6. IsOutput(o)' /\ ~IsOutput(o)
      BY <1>3, <2>2, <3>1, <3>2, <3>4, AbsentAssumption DEF IsOutput, TypeOK
    <3>7. parent'[o] = parent[s]
      BY <1>3, <3>1, <3>4 DEF TypeOK
    <3>8. \A n \in Names : n # o /\ n # s => parent'[n] = parent[n]
      BY <3>4 DEF TypeOK
    <3>9. shownBar' = [shownBar EXCEPT ![o] = [by |-> p, content |-> arg[p].to]]
      <4>1. ASSUME NEW n \in Names, n # o PROVE shownBar'[n] = shownBar[n]
        <5>1. CASE n = s BY <1>3, <3>4, <3>5, <5>1 DEF shownBar
        <5>2. CASE n # s
          <6>1. parent'[n] = parent[n] BY <3>8, <4>1, <5>2
          <6>2. IsOutput(n)' <=> IsOutput(n) BY <3>4, <6>1 DEF IsOutput
          <6> QED BY <6>1, <6>2 DEF shownBar
        <5> QED BY <5>1, <5>2
      <4>2. \A n \in Names : n # o => shownBar'[n] = shownBar[n]
        BY <4>1
      <4>3. shownBar'[o] = [by |-> p, content |-> arg[p].to]
        BY <1>3, <3>3, <3>4, <3>6, <3>7 DEF shownBar
      <4>4. DOMAIN shownBar = Names /\ DOMAIN shownBar' = Names
        BY DEF shownBar
      <4> QED BY <4>2, <4>3, <4>4 DEF shownBar
    <3>10. shownBar[o] = Absent BY <1>3, <3>6 DEF shownBar
    <3>11. StatusOf(p) = "pending" /\ StatusOf(p)' = "published"
      BY <1>11, <2>2 DEF PublishStagingDir, StatusOf, TypeOK
    <3>12. arg[p].to \in Trees BY DEF TypeOK
    <3>13. Abstract!Publish(p)
      BY <1>1, <1>3, <3>9, <3>10, <3>11, <3>12 DEF Abstract!Publish
    <3> QED BY <3>13 DEF Abstract!Next
  <2> QED BY <2>1, <2>2
<1>12. CASE ReturnReport(p)
  <2>1. shownBar' = shownBar BY <1>12, ShownUnchanged DEF ReturnReport
  <2>2. StatusOf(p) = "published" /\ StatusOf(p)' = "ok"
    BY <1>12 DEF ReturnReport, StatusOf, TypeOK
  <2> QED BY <1>1, <2>1, <2>2 DEF Abstract!Next, Abstract!Succeed
<1>13. CASE OnAlarm(p)
  <2>1. shownBar' = shownBar BY <1>13, ShownUnchanged DEF OnAlarm
  <2>2. StatusOf(p) \in {"pending", "published"} /\ StatusOf(p)' = "lost"
    BY <1>13 DEF OnAlarm, StatusOf, TypeOK
  <2> QED BY <1>1, <2>1, <2>2 DEF Abstract!Next, Abstract!Lose
<1> QED BY <1>6, <1>7, <1>8, <1>9, <1>10, <1>11, <1>12, <1>13 DEF Step

\* Steps of other programs are steps of NewEntry's External, or stutter.
LEMMA EnvironmentRefines ==
  ASSUME StageInv, Environment
  PROVE  Abstract!Next \/ UNCHANGED Abstract!vars
<1> USE DEF StageInv
<1>1. ASSUME pc' = pc, rc' = rc PROVE statusBar' = statusBar
  BY <1>1 DEF statusBar, StatusOf
<1>2. ASSUME NEW t \in Trees, SourceChange(t) PROVE UNCHANGED Abstract!vars
  BY <1>1, <1>2, ShownUnchanged DEF SourceChange, Abstract!vars
<1>3. ASSUME NEW n \in Names, NEW t \in Trees, ExternalCreate(n, t) PROVE Abstract!Next
  <2>1. /\ parent' = [parent EXCEPT ![n] = [by |-> External, content |-> t]]
        /\ parent[n] = Absent /\ arg' = arg /\ pc' = pc /\ rc' = rc
    BY <1>3 DEF ExternalCreate
  <2>2. [by |-> External, content |-> t] \in Object OBVIOUS
  <2>3. parent'[n] = [by |-> External, content |-> t] BY <2>1 DEF TypeOK
  <2>4. IsOutput(n)' BY <2>1, <2>2, <2>3, AbsentAssumption, StagedApplyAssumption DEF IsOutput
  <2>5. shownBar[n] = Absent BY <2>1 DEF shownBar, IsOutput
  <2>6. shownBar' = [shownBar EXCEPT ![n] = [by |-> External, content |-> t]]
    BY <2>1, <2>3, <2>4 DEF shownBar, IsOutput, TypeOK
  <2> QED BY <1>1, <2>1, <2>5, <2>6 DEF Abstract!Next, Abstract!ExternalCreate
<1>4. ASSUME NEW n \in Names, ExternalRemove(n) PROVE Abstract!Next \/ UNCHANGED Abstract!vars
  <2>1. parent' = [parent EXCEPT ![n] = Absent] /\ arg' = arg /\ pc' = pc /\ rc' = rc
    BY <1>4 DEF ExternalRemove
  <2>2. ~IsOutput(n)' BY <2>1 DEF IsOutput, TypeOK
  <2>3. shownBar' = [shownBar EXCEPT ![n] = Absent]
    BY <2>1, <2>2 DEF shownBar, IsOutput, TypeOK
  <2>4. CASE IsOutput(n)
    <3>1. shownBar[n] # Absent BY <2>4 DEF shownBar, IsOutput
    <3> QED BY <1>1, <2>1, <2>3, <3>1 DEF Abstract!Next, Abstract!ExternalRemove
  <2>5. CASE ~IsOutput(n)
    <3>1. shownBar' = shownBar BY <2>3, <2>5 DEF shownBar
    <3> QED BY <1>1, <2>1, <3>1 DEF Abstract!vars
  <2> QED BY <2>4, <2>5
<1> QED BY <1>2, <1>3, <1>4 DEF Environment

\* Every behaviour of the staged apply is a behaviour of NewEntry: outputs
\* appear whole and in one step, nothing is replaced, and results are truthful.
THEOREM Refinement == Spec => ImplementsNewEntry
<1>1. StageInv /\ StageInv' /\ [Next]_vars => [Abstract!Next]_(Abstract!vars)
  <2> SUFFICES ASSUME StageInv, StageInv', [Next]_vars
               PROVE  Abstract!Next \/ UNCHANGED Abstract!vars
    OBVIOUS
  <2>1. CASE UNCHANGED vars
    BY <2>1 DEF vars, Abstract!vars, shownBar, statusBar, StatusOf, IsOutput
  <2>2. CASE Environment BY <2>2, EnvironmentRefines
  <2>3. ASSUME NEW p \in Calls, Step(p) PROVE Abstract!Next \/ UNCHANGED Abstract!vars
    BY <2>3, StepRefines
  <2> QED BY <2>1, <2>2, <2>3 DEF Next
<1> QED BY <1>1, InitRefines, StageInvHolds, PTL DEF Spec, ImplementsNewEntry, Abstract!Spec
=============================================================================
