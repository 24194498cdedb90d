--------------------------- MODULE HardlinkGroups ---------------------------
(***************************************************************************)
(* Hard link groups during capture: the part of snapshotDir                *)
(* (src/src/directory_fs.zig) that validates the groups kept in            *)
(* difz.hardlink-to attributes, merges them with the host's own hard links *)
(* (assignHardlinks), filters the tree (selectEntries) and gives every     *)
(* group a new first member (rebaseHardlinks).                             *)
(*                                                                         *)
(* Files are numbered in path order.  0 stands for "no reference".  The    *)
(* data of a file stands for its bytes, mode and metadata.                 *)
(***************************************************************************)
EXTENDS Naturals

CONSTANTS N,        \* number of files in the tree
          Data      \* file contents

ASSUME NAssumption == N \in Nat \ {0}

Files == 1..N

VARIABLES
    ino,        \* ino[i]: the inode of file i, named after one of its files
    data,       \* data[i]: what file i holds
    kept,       \* kept[i]: the path in file i's difz.hardlink-to attribute
    pc, i,      \* the loop and its index
    canonical,  \* the loop's map: from an inode, then from a group, to a path
    link,       \* link[j]: entry j's meta.hardlink_to
    selected    \* the entries the filter includes

input == <<ino, data, kept>>
vars == <<ino, data, kept, pc, i, canonical, link, selected>>

\* Hard links share their data and their attributes.
SharedInode ==
    \A a, b \in Files : ino[a] = ino[b] => data[a] = data[b] /\ kept[a] = kept[b]

Init ==
    /\ ino \in [Files -> Files]
    /\ \A a \in Files : ino[a] <= a /\ ino[ino[a]] = ino[a]
    /\ data \in [Files -> Data]
    /\ kept \in [Files -> 0..N]
    /\ SharedInode
    /\ pc = "transported"
    /\ i = 1
    /\ canonical = [f \in Files |-> 0]
    /\ link = kept
    /\ selected = Files

-----------------------------------------------------------------------------
\* validateMetadataRelations: a reference names an earlier entry that has none
\* itself and holds the same.
RelationHolds(a) ==
    link[a] # 0 =>
        /\ link[a] < a
        /\ link[a] \in selected
        /\ link[link[a]] = 0
        /\ data[link[a]] = data[a]

RelationsHold == \A a \in selected : RelationHolds(a)

\* One of the three validations.
Validate(here, next) ==
    /\ pc = here
    /\ pc' = IF RelationsHold THEN next ELSE "rejected"
    /\ UNCHANGED <<ino, data, kept, i, canonical, link, selected>>

\* The loops; the next one starts with an empty map.
Continue(next) ==
    IF i < N THEN i' = i + 1 /\ pc' = pc ELSE i' = 1 /\ pc' = next

\* assignHardlinks, one iteration.  A file whose only link is its own is
\* skipped, which leaves it as it is found here: the first of its inode.
AssignNext ==
    /\ pc = "assign"
    /\ \/ /\ canonical[ino[i]] # 0
          /\ link' = [link EXCEPT ![i] = canonical[ino[i]]]
          /\ UNCHANGED canonical
       \/ /\ canonical[ino[i]] = 0
          /\ canonical' = [canonical EXCEPT ![ino[i]] = IF link[i] # 0 THEN link[i] ELSE i]
          /\ UNCHANGED link
    /\ Continue("assigned")
    /\ UNCHANGED <<ino, data, kept, selected>>

\* selectEntries.
Select(entries) ==
    /\ pc = "select"
    /\ selected' = entries
    /\ canonical' = [f \in Files |-> 0]
    /\ pc' = "rebase"
    /\ UNCHANGED <<ino, data, kept, i, link>>

\* Fault: groups are looked up by the entry's own path.
GroupByPath(a) == a

Group(a) == IF link[a] # 0 THEN link[a] ELSE a

\* Fault: the first member keeps its old reference.
RebaseKeepsReference ==
    /\ pc = "rebase"
    /\ \/ /\ i \notin selected
          /\ UNCHANGED <<canonical, link>>
       \/ /\ i \in selected /\ canonical[Group(i)] # 0
          /\ link' = [link EXCEPT ![i] = canonical[Group(i)]]
          /\ UNCHANGED canonical
       \/ /\ i \in selected /\ canonical[Group(i)] = 0
          /\ canonical' = [canonical EXCEPT ![Group(i)] = i]
          /\ UNCHANGED link
    /\ Continue("rebased")
    /\ UNCHANGED <<ino, data, kept, selected>>

\* rebaseHardlinks, one iteration.
RebaseNext ==
    /\ pc = "rebase"
    /\ \/ /\ i \notin selected
          /\ UNCHANGED <<canonical, link>>
       \/ /\ i \in selected /\ canonical[Group(i)] # 0
          /\ link' = [link EXCEPT ![i] = canonical[Group(i)]]
          /\ UNCHANGED canonical
       \/ /\ i \in selected /\ canonical[Group(i)] = 0
          /\ canonical' = [canonical EXCEPT ![Group(i)] = i]
          /\ link' = [link EXCEPT ![i] = 0]
    /\ Continue("rebased")
    /\ UNCHANGED <<ino, data, kept, selected>>

Stopped == pc \in {"done", "rejected"} /\ UNCHANGED vars

Next ==
    \/ Validate("transported", "assign")
    \/ AssignNext
    \/ Validate("assigned", "select")
    \/ \E entries \in SUBSET Files : Select(entries)
    \/ RebaseNext
    \/ Validate("rebased", "done")
    \/ Stopped

Spec == Init /\ [][Next]_vars

-----------------------------------------------------------------------------
TypeOK ==
    /\ ino \in [Files -> Files]
    /\ data \in [Files -> Data]
    /\ kept \in [Files -> 0..N]
    /\ pc \in {"transported", "assign", "assigned", "select", "rebase", "rebased",
               "done", "rejected"}
    /\ i \in Files
    /\ canonical \in [Files -> 0..N]
    /\ link \in [Files -> 0..N]
    /\ selected \in SUBSET Files

\* Whatever the filter leaves out, the rebased groups are valid references:
\* the last validation of snapshotDir never fails.
RebaseIsValid == pc = "rebased" => RelationsHold

\* What the groups ought to be: files on one inode, and files that were kept
\* as copies of one file, which may itself have links.
Original(a) == IF kept[a] # 0 THEN kept[a] ELSE a
Together(a, b) == ino[Original(a)] = ino[Original(b)]

\* Capture neither splits nor joins groups, and each group refers to its first
\* included member.
GroupsKept ==
    pc = "done" =>
        \A a \in selected :
            LET first == CHOOSE b \in selected :
                            Together(a, b) /\ \A c \in selected : Together(a, c) => b <= c
            IN  link[a] = IF first = a THEN 0 ELSE first
=============================================================================
