---------------------------- MODULE StagedApply ----------------------------
(***************************************************************************)
(* Applying a directory patch: difz_directory_patch (src/src/lib.zig) and  *)
(* applyPatchToNewDir (src/src/directory_fs.zig).  Several calls work in   *)
(* one parent directory, beside a program that creates and removes entries *)
(* there and one that edits the source tree.                               *)
(*                                                                         *)
(* A tree stands for its canonical identity: two trees are equal exactly   *)
(* when treeHashWithRoot gives the same hash.  A patch turns one tree into *)
(* another.  Incomplete is a tree that is not fully written or not fully   *)
(* deleted, Torn a snapshot that mixes two states of the source.           *)
(***************************************************************************)
CONSTANTS
    Calls,          \* invocations
    Names,          \* basenames in the output's parent directory
    Trees,          \* complete logical trees
    Requests,       \* arguments: output name, staging name, patch
    External,       \* the author of entries difz did not create
    Absent, Incomplete, Torn,
    Darwin,         \* publishStagingDir maps EEXIST itself on macOS only
    Faults,         \* may system calls fail, and may the host alter a tree?
    CleanupFaults,  \* may deleteOwnedTree fail?
    WallCeiling     \* is the --max-wall-ms alarm armed?

Request == [output : Names, stage : Names, from : Trees, to : Trees]

ASSUME StagedApplyAssumption ==
    /\ External \notin Calls
    /\ {Absent, Incomplete, Torn} \cap Trees = {}
    /\ Incomplete # Torn
    /\ Requests \subseteq Request
    /\ {Darwin, Faults, CleanupFaults, WallCeiling} \subseteq BOOLEAN

\* Absent is not an entry of a directory.
Object == [by : Calls \cup {External}, content : Trees \cup {Incomplete}]

ASSUME AbsentAssumption == Absent \notin Object

VARIABLES
    parent,     \* parent[n]: the entry called n in the output's parent
    source,     \* the source tree as it is now
    pc,         \* where each call is
    arg,        \* each call's arguments
    seen,       \* states the source went through during a call's walk; then its snapshot
    rc          \* what the call returns

vars == <<parent, source, pc, arg, seen, rc>>

Running == {"check", "options", "walk", "reconstruct", "create", "write",
            "verify", "publish", "cleanup", "published"}
\* Between createDir and publish: owns_stage is true.
OwnsStage == {"write", "verify", "publish", "cleanup"}
Ended == {"done", "killed"}
ReturnCodes == {"none", "ok", "wrong_source", "exists", "failed"}

TypeOK ==
    /\ parent \in [Names -> Object \cup {Absent}]
    /\ source \in Trees
    /\ pc \in [Calls -> {"idle"} \cup Running \cup Ended]
    /\ arg \in [Calls -> Request]
    /\ seen \in [Calls -> SUBSET (Trees \cup {Torn})]
    /\ rc \in [Calls -> ReturnCodes]

Init ==
    /\ parent = [n \in Names |-> Absent]
    /\ source \in Trees
    /\ pc = [p \in Calls |-> "idle"]
    /\ arg \in [Calls -> Requests]
    /\ seen = [p \in Calls |-> {}]
    /\ rc = [p \in Calls |-> "none"]

-----------------------------------------------------------------------------
Goto(p, label) == pc' = [pc EXCEPT ![p] = label]

\* An error return before the stage exists.
Return(p, code) ==
    /\ Goto(p, "done")
    /\ rc' = [rc EXCEPT ![p] = code]

\* An error return while owns_stage is true: the errdefer runs next.
Unwind(p, code) ==
    /\ Goto(p, "cleanup")
    /\ rc' = [rc EXCEPT ![p] = code]

\* Opens the source and the parent and forms the staging name.
Invoke(p) ==
    /\ pc[p] = "idle"
    /\ Goto(p, "check")
    /\ UNCHANGED <<parent, source, arg, seen, rc>>

CheckOutput(p) ==
    /\ pc[p] = "check"
    /\ \/ /\ arg[p].output = arg[p].stage
          /\ Return(p, "failed")
       \/ /\ arg[p].output # arg[p].stage
          /\ parent[arg[p].output] # Absent
          /\ Return(p, "exists")
       \/ /\ arg[p].output # arg[p].stage
          /\ parent[arg[p].output] = Absent
          /\ Goto(p, "options")
          /\ UNCHANGED rc
    /\ UNCHANGED <<parent, source, arg, seen>>

\* readOptions succeeded; snapshotDir starts walking the source.
BeginWalk(p) ==
    /\ pc[p] = "options"
    /\ Goto(p, "walk")
    /\ seen' = [seen EXCEPT ![p] = {source}]
    /\ UNCHANGED <<parent, source, arg, rc>>

\* A walk during which the source stood still sees that source; otherwise the
\* snapshot may be any state the source went through, or a mixture.
EndWalk(p) ==
    /\ pc[p] = "walk"
    /\ Goto(p, "reconstruct")
    /\ \/ /\ seen[p] = {source}
          /\ UNCHANGED seen
       \/ /\ seen[p] # {source}
          /\ \E t \in seen[p] \cup {Torn} : seen' = [seen EXCEPT ![p] = {t}]
    /\ UNCHANGED <<parent, source, arg, rc>>

\* applyPatchRoot compares the source identity before it expands anything.
Reconstruct(p) ==
    /\ pc[p] = "reconstruct"
    /\ \/ /\ seen[p] = {arg[p].from}
          /\ Goto(p, "create")
          /\ UNCHANGED rc
       \/ /\ seen[p] # {arg[p].from}
          /\ Return(p, "wrong_source")
    /\ UNCHANGED <<parent, source, arg, seen>>

\* createDir is exclusive; a collision fails before owns_stage is set.
CreateStage(p) ==
    /\ pc[p] = "create"
    /\ \/ /\ parent[arg[p].stage] = Absent
          /\ parent' = [parent EXCEPT ![arg[p].stage] = [by |-> p, content |-> Incomplete]]
          /\ Goto(p, "write")
          /\ UNCHANGED rc
       \/ /\ parent[arg[p].stage] # Absent
          /\ Return(p, "failed")
          /\ UNCHANGED parent
    /\ UNCHANGED <<source, arg, seen>>

\* What writeSnapshot leaves in the stage.  A host that cannot represent some
\* of the tree stores another one without reporting an error.
WriteSnapshot(p) ==
    /\ pc[p] = "write"
    /\ \E t \in IF Faults THEN Trees ELSE {arg[p].to} :
          parent' = [parent EXCEPT ![arg[p].stage].content = t]
    /\ Goto(p, "verify")
    /\ UNCHANGED <<source, arg, seen, rc>>

\* Fault: the stage is not compared with the expected tree.
VerifyStageSkipped(p) ==
    /\ pc[p] = "verify"
    /\ Goto(p, "publish")
    /\ UNCHANGED <<parent, source, arg, seen, rc>>

\* Fault: the stage is compared with the hash of the source.
VerifyStageAgainstSource(p) ==
    /\ pc[p] = "verify"
    /\ \/ /\ parent[arg[p].stage].content = arg[p].from
          /\ Goto(p, "publish")
          /\ UNCHANGED rc
       \/ /\ parent[arg[p].stage].content # arg[p].from
          /\ Unwind(p, "failed")
    /\ UNCHANGED <<parent, source, arg, seen>>

\* Snapshots the stage again and compares its hash with the expected one.
VerifyStage(p) ==
    /\ pc[p] = "verify"
    /\ \/ /\ parent[arg[p].stage].content = arg[p].to
          /\ Goto(p, "publish")
          /\ UNCHANGED rc
       \/ /\ parent[arg[p].stage].content # arg[p].to
          /\ Unwind(p, "failed")
    /\ UNCHANGED <<parent, source, arg, seen>>

\* Fault: the rename replaces an output that appeared in the meantime.
PublishReplaces(p) ==
    /\ pc[p] = "publish"
    /\ parent' = [parent EXCEPT ![arg[p].output] = parent[arg[p].stage],
                                ![arg[p].stage] = Absent]
    /\ Goto(p, "published")
    /\ UNCHANGED <<source, arg, seen, rc>>

\* Fault: EEXIST is not translated, on macOS either.
PublishUnmapped(p) ==
    /\ pc[p] = "publish"
    /\ \/ /\ parent[arg[p].output] = Absent
          /\ parent' = [parent EXCEPT ![arg[p].output] = parent[arg[p].stage],
                                      ![arg[p].stage] = Absent]
          /\ Goto(p, "published")
          /\ UNCHANGED rc
       \/ /\ parent[arg[p].output] # Absent
          /\ Unwind(p, "failed")
          /\ UNCHANGED parent
    /\ UNCHANGED <<source, arg, seen>>

\* Fault: the call waits until the output name is free.
PublishWaits(p) ==
    /\ pc[p] = "publish"
    /\ parent[arg[p].output] = Absent
    /\ parent' = [parent EXCEPT ![arg[p].output] = parent[arg[p].stage],
                                ![arg[p].stage] = Absent]
    /\ Goto(p, "published")
    /\ UNCHANGED <<source, arg, seen, rc>>

\* The non-replacing rename.
PublishStagingDir(p) ==
    /\ pc[p] = "publish"
    /\ \/ /\ parent[arg[p].output] = Absent
          /\ parent' = [parent EXCEPT ![arg[p].output] = parent[arg[p].stage],
                                      ![arg[p].stage] = Absent]
          /\ Goto(p, "published")
          /\ UNCHANGED rc
       \/ /\ parent[arg[p].output] # Absent
          /\ Unwind(p, IF Darwin THEN "exists" ELSE "failed")
          /\ UNCHANGED parent
    /\ UNCHANGED <<source, arg, seen>>

\* Stores the compromise mask and returns 0.
ReturnReport(p) ==
    /\ pc[p] = "published"
    /\ Return(p, "ok")
    /\ UNCHANGED <<parent, source, arg, seen>>

\* Fault: the cleanup is given the output name.
DeleteOutputTree(p) ==
    /\ pc[p] = "cleanup"
    /\ parent' = [parent EXCEPT ![arg[p].output] = Absent]
    /\ Goto(p, "done")
    /\ UNCHANGED <<source, arg, seen, rc>>

\* deleteOwnedTree; its own errors are swallowed and leave what is left.
DeleteOwnedTree(p) ==
    /\ pc[p] = "cleanup"
    /\ \/ parent' = [parent EXCEPT ![arg[p].stage] = Absent]
       \/ /\ CleanupFaults
          /\ parent' = [parent EXCEPT ![arg[p].stage].content = Incomplete]
    /\ Goto(p, "done")
    /\ UNCHANGED <<source, arg, seen, rc>>

\* Any other error on the way: an unreadable directory, an invalid patch, no
\* memory, no space, a rename the filesystem refuses.
FailBeforeStage(p) ==
    /\ Faults
    /\ pc[p] \in {"idle", "check", "options", "walk", "reconstruct", "create"}
    /\ Return(p, "failed")
    /\ UNCHANGED <<parent, source, arg, seen>>

\* Fault: no errdefer guards the stage.
FailWithoutCleanup(p) ==
    /\ Faults
    /\ pc[p] \in OwnsStage \ {"cleanup"}
    /\ Return(p, "failed")
    /\ UNCHANGED <<parent, source, arg, seen>>

FailWithStage(p) ==
    /\ Faults
    /\ pc[p] \in OwnsStage \ {"cleanup"}
    /\ Unwind(p, "failed")
    /\ UNCHANGED <<parent, source, arg, seen>>

\* difz_on_alarm calls _exit(124): no errdefer runs.
OnAlarm(p) ==
    /\ WallCeiling
    /\ pc[p] \in Running
    /\ Goto(p, "killed")
    /\ UNCHANGED <<parent, source, arg, seen, rc>>

Step(p) ==
    \/ Invoke(p) \/ CheckOutput(p) \/ BeginWalk(p) \/ EndWalk(p) \/ Reconstruct(p)
    \/ CreateStage(p) \/ WriteSnapshot(p) \/ VerifyStage(p) \/ PublishStagingDir(p)
    \/ ReturnReport(p) \/ DeleteOwnedTree(p)
    \/ FailBeforeStage(p) \/ FailWithStage(p) \/ OnAlarm(p)

-----------------------------------------------------------------------------
\* Another program edits the source; every walk in progress may notice.
SourceChange(t) ==
    /\ source' = t
    /\ seen' = [p \in Calls |-> IF pc[p] = "walk" THEN seen[p] \cup {t} ELSE seen[p]]
    /\ UNCHANGED <<parent, pc, arg, rc>>

ExternalCreate(n, t) ==
    /\ parent[n] = Absent
    /\ parent' = [parent EXCEPT ![n] = [by |-> External, content |-> t]]
    /\ UNCHANGED <<source, pc, arg, seen, rc>>

\* Other programs leave the stage of a running call alone, and may remove
\* anything else, what a killed call left behind included.
ExternalRemove(n) ==
    /\ parent[n] # Absent
    /\ \A p \in Calls : ~(pc[p] \in OwnsStage /\ arg[p].stage = n)
    /\ parent' = [parent EXCEPT ![n] = Absent]
    /\ UNCHANGED <<source, pc, arg, seen, rc>>

Environment ==
    \/ \E t \in Trees : SourceChange(t)
    \/ \E n \in Names, t \in Trees : ExternalCreate(n, t)
    \/ \E n \in Names : ExternalRemove(n)

Next == Environment \/ \E p \in Calls : Step(p)

Spec == Init /\ [][Next]_vars

\* A running process is scheduled; nothing is assumed of the environment.
FairSpec == Spec /\ \A p \in Calls : WF_vars(pc[p] \in Running /\ Step(p))

-----------------------------------------------------------------------------
(* Safety.                                                                 *)

\* While owns_stage is true, the staging name holds the directory this call
\* created.  deleteOwnedTree and the rename address it by name, so they would
\* otherwise delete or publish somebody else's tree.
StageIsOwned ==
    \A p \in Calls : pc[p] \in OwnsStage =>
        /\ parent[arg[p].stage] # Absent
        /\ parent[arg[p].stage].by = p

\* What a call leaves under its output name is the whole target of its patch,
\* also while the call still runs, and when it is killed on the way.
OutputIsTarget ==
    \A p \in Calls : LET entry == parent[arg[p].output] IN
        entry # Absent /\ entry.by = p =>
            /\ entry.content = arg[p].to
            /\ pc[p] \in {"published"} \cup Ended
            /\ rc[p] \in {"none", "ok"}

\* No step of a call changes or removes an entry that it did not create.
ForeignUntouched ==
    [][\A p \in Calls : Step(p) =>
          \A n \in Names :
              parent[n] # Absent /\ parent[n].by # p => parent'[n] = parent[n]]_vars

\* A call that returned has left nothing but its output, or, where
\* deleteOwnedTree itself may fail, what that could not remove.
NoStageLeft ==
    \A p \in Calls, n \in Names :
        pc[p] = "done" /\ parent[n] # Absent /\ parent[n].by = p =>
            \/ n = arg[p].output /\ rc[p] = "ok"
            \/ CleanupFaults /\ parent[n].content = Incomplete

\* difz.h on difz_directory_patch: "-3 when output exists", also when the
\* output appeared after the call looked for it.
ExistingOutputReported ==
    [][\A p \in Calls :
          pc[p] = "publish" /\ pc'[p] = "cleanup" /\ parent[arg[p].output] # Absent
              => rc'[p] = "exists"]_vars

-----------------------------------------------------------------------------
(* Liveness.                                                               *)

\* Every call returns: no step waits for another call or for the environment.
EveryCallReturns == \A p \in Calls : pc[p] \in Running ~> pc[p] \in Ended

\* Without faults, once a call has its stage the output name is taken, by this
\* call or by whoever was first: racing calls cannot all fail.
OutputAppears == \A p \in Calls : pc[p] = "write" ~> parent[arg[p].output] # Absent

-----------------------------------------------------------------------------
(* Refinement: hide the staging names.                                     *)

IsOutput(n) ==
    /\ parent[n] # Absent
    /\ parent[n].by \in Calls => arg[parent[n].by].output = n

shownBar ==
    [n \in Names |-> IF IsOutput(n) THEN parent[n] ELSE Absent]

StatusOf(p) ==
    CASE pc[p] = "idle" -> "idle"
      [] pc[p] = "published" -> "published"
      [] pc[p] = "killed" -> "lost"
      [] pc[p] = "done" -> IF rc[p] = "ok" THEN "ok" ELSE "failed"
      [] OTHER -> "pending"

statusBar == [p \in Calls |-> StatusOf(p)]

Abstract == INSTANCE NewEntry WITH Values <- Trees, PowerFails <- FALSE, shown <- shownBar, status <- statusBar

\* The staged apply publishes whole trees in one step and replaces nothing.
ImplementsNewEntry == Abstract!Spec
=============================================================================
