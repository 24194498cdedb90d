----------------------------- MODULE AtomicFile -----------------------------
(***************************************************************************)
(* Committing a patch file: difz_write_new_file_atomic and                 *)
(* writeNewFileAtomic in src/src/lib.zig, which run_directory_diff calls.  *)
(* The data is written to a sibling staging file, synced, and renamed      *)
(* without replacing.  Directory entries reach the disk when the           *)
(* filesystem's journal commits, in the order of the operations; file data *)
(* is only known to be there after sync.                                   *)
(***************************************************************************)
CONSTANTS
    Calls,          \* invocations; also the identity of the file each creates
    Names,          \* basenames in the output's parent directory
    Requests,       \* output and staging names
    External,       \* the author of files difz did not create
    Absent,
    Faults,         \* may system calls fail?
    PowerFails      \* may the machine stop?

Request == {r \in [output : Names, stage : Names] : r.output # r.stage}

ASSUME AtomicFileAssumption ==
    /\ External \notin Calls
    /\ Absent \notin Calls \cup {External}
    /\ Requests \subseteq Request
    /\ {Faults, PowerFails} \subseteq BOOLEAN

VARIABLES
    dir,        \* dir[n]: the author of the file called n, or Absent
    journal,    \* the directory as the disk has it
    data,       \* data[p]: how much of its output p's file holds
    synced,     \* the files whose data is on the disk
    pc, arg, rc

vars == <<dir, journal, data, synced, pc, arg, rc>>

Running == {"create", "write", "sync", "rename", "unlink", "renamed"}
OwnsStage == {"write", "sync", "rename", "unlink"}
Ended == {"done", "killed"}

TypeOK ==
    /\ {dir, journal} \subseteq [Names -> Calls \cup {External, Absent}]
    /\ data \in [Calls -> {"none", "part", "whole"}]
    /\ synced \in SUBSET Calls
    /\ pc \in [Calls -> {"idle"} \cup Running \cup Ended]
    /\ arg \in [Calls -> Request]
    /\ rc \in [Calls -> {"none", "ok", "exists", "failed"}]

Init ==
    /\ dir = [n \in Names |-> Absent]
    /\ journal = dir
    /\ data = [p \in Calls |-> "none"]
    /\ synced = {}
    /\ pc = [p \in Calls |-> "idle"]
    /\ arg \in [Calls -> Requests]
    /\ rc = [p \in Calls |-> "none"]

-----------------------------------------------------------------------------
Goto(p, label) == pc' = [pc EXCEPT ![p] = label]

Result(p, code) == rc' = [rc EXCEPT ![p] = code]

\* Opens the parent directory and forms the staging name.
Invoke(p) ==
    /\ pc[p] = "idle"
    /\ Goto(p, "create")
    /\ UNCHANGED <<dir, journal, data, synced, arg, rc>>

\* createFile is exclusive; PathAlreadyExists is -3 whichever name it is about.
CreateFile(p) ==
    /\ pc[p] = "create"
    /\ \/ /\ dir[arg[p].stage] = Absent
          /\ dir' = [dir EXCEPT ![arg[p].stage] = p]
          /\ Goto(p, "write")
          /\ UNCHANGED rc
       \/ /\ dir[arg[p].stage] # Absent
          /\ Goto(p, "done")
          /\ Result(p, "exists")
          /\ UNCHANGED dir
    /\ UNCHANGED <<journal, data, synced, arg>>

\* writeStreamingAll may stop half way before it reports an error.
WriteStreamingAll(p) ==
    /\ pc[p] = "write"
    /\ \/ /\ data' = [data EXCEPT ![p] = "whole"]
          /\ Goto(p, "sync")
          /\ UNCHANGED rc
       \/ /\ Faults
          /\ data' = [data EXCEPT ![p] = "part"]
          /\ Goto(p, "unlink")
          /\ Result(p, "failed")
    /\ UNCHANGED <<dir, journal, synced, arg>>

\* Fault: the file is closed without a sync.
SyncSkipped(p) ==
    /\ pc[p] = "sync"
    /\ Goto(p, "rename")
    /\ UNCHANGED <<dir, journal, data, synced, arg, rc>>

\* sync, then close.
Sync(p) ==
    /\ pc[p] = "sync"
    /\ \/ /\ synced' = synced \cup {p}
          /\ Goto(p, "rename")
          /\ UNCHANGED rc
       \/ /\ Faults
          /\ Goto(p, "unlink")
          /\ Result(p, "failed")
          /\ UNCHANGED synced
    /\ UNCHANGED <<dir, journal, data, arg>>

RenamePreserve(p) ==
    /\ pc[p] = "rename"
    /\ \/ /\ dir[arg[p].output] = Absent
          /\ dir' = [dir EXCEPT ![arg[p].output] = dir[arg[p].stage],
                                ![arg[p].stage] = Absent]
          /\ Goto(p, "renamed")
          /\ UNCHANGED rc
       \/ /\ dir[arg[p].output] # Absent
          /\ Goto(p, "unlink")
          /\ Result(p, "exists")
          /\ UNCHANGED dir
       \/ /\ Faults
          /\ Goto(p, "unlink")
          /\ Result(p, "failed")
          /\ UNCHANGED dir
    /\ UNCHANGED <<journal, data, synced, arg>>

\* Fault: the success path falls into the default error code.
ReturnFailed(p) ==
    /\ pc[p] = "renamed"
    /\ Goto(p, "done")
    /\ Result(p, "failed")
    /\ UNCHANGED <<dir, journal, data, synced, arg>>

ReturnZero(p) ==
    /\ pc[p] = "renamed"
    /\ Goto(p, "done")
    /\ Result(p, "ok")
    /\ UNCHANGED <<dir, journal, data, synced, arg>>

\* The errdefer; an error of deleteFile is swallowed.
DeleteFile(p) ==
    /\ pc[p] = "unlink"
    /\ \/ dir' = [dir EXCEPT ![arg[p].stage] = Absent]
       \/ Faults /\ UNCHANGED dir
    /\ Goto(p, "done")
    /\ UNCHANGED <<journal, data, synced, arg, rc>>

\* The parent cannot be opened, or the staging file cannot be created.
FailEarly(p) ==
    /\ Faults
    /\ pc[p] \in {"idle", "create"}
    /\ Goto(p, "done")
    /\ Result(p, "failed")
    /\ UNCHANGED <<dir, journal, data, synced, arg>>

\* The --max-wall-ms alarm, or any other way for the process to be killed.
Killed(p) ==
    /\ pc[p] \in Running
    /\ Goto(p, "killed")
    /\ UNCHANGED <<dir, journal, data, synced, arg, rc>>

Step(p) ==
    \/ Invoke(p) \/ CreateFile(p) \/ WriteStreamingAll(p) \/ Sync(p)
    \/ RenamePreserve(p) \/ ReturnZero(p) \/ DeleteFile(p) \/ FailEarly(p) \/ Killed(p)

-----------------------------------------------------------------------------
ExternalCreate(n) ==
    /\ dir[n] = Absent
    /\ dir' = [dir EXCEPT ![n] = External]
    /\ UNCHANGED <<journal, data, synced, pc, arg, rc>>

ExternalRemove(n) ==
    /\ dir[n] # Absent
    /\ \A p \in Calls : ~(pc[p] \in OwnsStage /\ arg[p].stage = n)
    /\ dir' = [dir EXCEPT ![n] = Absent]
    /\ UNCHANGED <<journal, data, synced, pc, arg, rc>>

JournalCommit ==
    /\ PowerFails
    /\ journal' = dir
    /\ UNCHANGED <<dir, data, synced, pc, arg, rc>>

\* Every process ends, the directory is what the journal says, and a file that
\* was not synced may hold nothing or only a part.
PowerLoss ==
    /\ PowerFails
    /\ dir' = journal
    /\ data' \in {d \in [Calls -> {"none", "part", "whole"}] :
                     \A p \in Calls : p \in synced => d[p] = data[p]}
    /\ pc' = [p \in Calls |-> IF pc[p] \in Running THEN "killed" ELSE pc[p]]
    /\ UNCHANGED <<journal, synced, arg, rc>>

Environment ==
    \/ \E n \in Names : ExternalCreate(n) \/ ExternalRemove(n)
    \/ JournalCommit \/ PowerLoss

Next == Environment \/ \E p \in Calls : Step(p)

Spec == Init /\ [][Next]_vars

-----------------------------------------------------------------------------
\* The output name holds the whole patch or is not this call's, at every moment
\* and after a power loss at any moment: sync comes before the rename.
OutputIsWhole ==
    \A p \in Calls : dir[arg[p].output] = p => data[p] = "whole"

\* The staging name is the call's own file for as long as it writes through,
\* renames or deletes it.
StageIsOwned ==
    \A p \in Calls : pc[p] \in OwnsStage => dir[arg[p].stage] = p

\* No call replaces or removes a file that it did not create.
ForeignUntouched ==
    [][\A p \in Calls : Step(p) =>
          \A n \in Names : dir[n] \notin {Absent, p} => dir'[n] = dir[n]]_vars

-----------------------------------------------------------------------------
shownBar ==
    [n \in Names |->
        IF dir[n] = External THEN [by |-> External, content |-> "whole"]
        ELSE IF dir[n] \in Calls /\ arg[dir[n]].output = n
             THEN [by |-> dir[n], content |-> data[dir[n]]]
             ELSE Absent]

StatusOf(p) ==
    CASE pc[p] = "idle" -> "idle"
      [] pc[p] = "renamed" -> "published"
      [] pc[p] = "killed" -> "lost"
      [] pc[p] = "done" -> IF rc[p] = "ok" THEN "ok" ELSE "failed"
      [] OTHER -> "pending"

statusBar == [p \in Calls |-> StatusOf(p)]

Abstract == INSTANCE NewEntry WITH Values <- {"whole"}, shown <- shownBar, status <- statusBar

\* A patch file appears whole, in one step, under a free name, and a power loss
\* may take it away but leaves no part of one.
ImplementsNewEntry == Abstract!Spec
=============================================================================
