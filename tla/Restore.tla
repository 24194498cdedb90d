------------------------------- MODULE Restore -------------------------------
(***************************************************************************)
(* Writing a tree into the stage and reading it back: writeSnapshotWith    *)
(* and the capture functions of src/src/directory_fs.zig.                  *)
(*                                                                         *)
(* Every family of metadata is restored the same way: try the native call, *)
(* read it back, and keep what the host did not store in a difz.* extended *)
(* attribute (the transport).  Capture prefers the transport.  The passes  *)
(* interfere through what they share: hard links share an inode, chmod     *)
(* rewrites a POSIX ACL and a POSIX ACL the mode, an inheritable ACL       *)
(* reaches descendants, an attribute write may move mtime, and attributes  *)
(* can only be written while the inode is writable.                        *)
(*                                                                         *)
(* Entries are numbered in path order; 0 is the root.  Of every family one *)
(* distinguished value "set" is kept besides "none"; the two attributes of *)
(* the ACL family are one, and so are those of the Finder family.          *)
(*                                                                         *)
(* A finished tree lives on: its owner may edit it, and it is captured     *)
(* again with the transports that the restore left in it.                  *)
(***************************************************************************)
EXTENDS Integers, FiniteSetsExt

CONSTANTS Snapshots,    \* trees to restore: entries, root, omitted families
          Hosts,        \* what a host can store
          LinkRoom      \* symlink records that fit in one attribute of 65,536 bytes

\* An attribute or an override is there, as {value}, or it is not.
Missing == {}
Value(optional) == CHOOSE v \in optional : TRUE

Transports == {"hardlink-to", "sparse", "btime", "acl", "finder", "raw", "mtime", "symlinks"}

VARIABLES want, host,   \* chosen at the start
          pass, k,      \* the pass and its cursor
          ino,          \* ino[i]: the inode of entry i
          obj,          \* obj[o]: what the host stores for inode o
          copied,       \* entries written as copies because linking failed
          parents,      \* parents[d][i]: the record of symlink i in directory d
          report,       \* compromises reported
          edit          \* what was done to the tree after the restore

vars == <<want, host, pass, k, ino, obj, copied, parents, report, edit>>

Entries == DOMAIN want.entries
Objects == {0} \cup Entries
Entry(i) == want.entries[i]
Parent(i) == Max(Entry(i).above)
IsLink(i) == Entry(i).kind = "symlink"
Omits(family) == family \in want.omit

-----------------------------------------------------------------------------
(* The host.                                                               *)

Fresh == [mode |-> "work", mtime |-> "now", raw |-> "none", sparse |-> "none",
          finder |-> "none",
          birth |-> IF host.birth = "absent" THEN "none" ELSE "now",
          acl |-> IF host.acl = "inherit" THEN "host" ELSE "none",
          xattr |-> [t \in Transports |-> Missing],
          denied |-> FALSE]     \* a call on this object was refused

Writable(o) == host.privileged \/ o.mode # "ro"

\* xattr_stream.set of a transport.
Put(o, name, value) ==
    IF Writable(o) /\ ~o.denied
    THEN [o EXCEPT !.xattr[name] = {value}, !.mtime = IF host.touches THEN "now" ELSE @]
    ELSE [o EXCEPT !.denied = TRUE]

\* A POSIX chmod changes the owner, mask and other entries of an ACL; the
\* recorded mode is the one that agrees with the recorded ACL.
Chmod(o, mode) ==
    [o EXCEPT !.mode = mode,
              !.acl = IF host.acl = "posix" /\ @ \in {"set", "masked"}
                      THEN IF mode = "work" THEN "masked" ELSE "set"
                      ELSE @]

\* setTimestamps; a coarse host rounds t2.
SetMtime(o, t) ==
    [o EXCEPT !.mtime = IF t = "none" THEN @
                        ELSE IF t = "t2" /\ ~host.fine THEN "rounded" ELSE t]

\* native_acl.restore.  Only POSIX ACLs carry the mode with them, and Windows
\* has no way to store the absence of an ACL.
NativeAcl(o, acl, mode) ==
    CASE host.acl = "posix" /\ acl = "set" -> [o EXCEPT !.acl = "set", !.mode = mode]
      [] host.acl = "inherit" /\ acl = "none" -> o
      [] host.acl = "unsupported" -> o
      [] OTHER -> [o EXCEPT !.acl = acl]

\* Setting an inheritable ACL on directory d reaches what is below it.
Propagate(objects, d, acl) ==
    IF host.acl = "inherit" /\ acl = "set"
    THEN LET below == {ino[i] : i \in {j \in Entries : d \in Entry(j).above}} IN
         [o \in Objects |-> IF o \in below THEN [objects[o] EXCEPT !.acl = "host"]
                                           ELSE objects[o]]
    ELSE objects

-----------------------------------------------------------------------------
(* Restoring one family.                                                   *)

RestoreXattrs(o, meta) ==
    IF meta.raw = "none" THEN o
    ELSE IF host.raw THEN [o EXCEPT !.raw = meta.raw] ELSE Put(o, "raw", meta.raw)

RestoreHardlink(o, i) ==
    IF i \in copied THEN Put(o, "hardlink-to", Entry(i).link) ELSE o

RestoreSparse(o, meta) ==
    LET punched == IF host.sparse THEN [o EXCEPT !.sparse = meta.sparse] ELSE o IN
    IF Omits("sparse") THEN o
    ELSE IF punched.sparse = meta.sparse THEN punched
    ELSE Put(punched, "sparse", meta.sparse)

\* setBirth where the host has it.
SetBirth(o, t) ==
    IF ~Omits("timestamps") /\ host.birth = "settable" /\ t # "none"
    THEN [o EXCEPT !.birth = t] ELSE o

BirthNeedsTransport(o, t) ==
    /\ ~Omits("timestamps")
    /\ IF host.birth = "settable" THEN o.birth # t ELSE t # "none" \/ o.birth # "none"

RestoreBirth(o, meta) ==
    LET tried == SetBirth(o, meta.birth) IN
    IF BirthNeedsTransport(tried, meta.birth)
    THEN Put(tried, "btime", meta.birth) ELSE tried

\* setInfo and setFlags.
SetFinder(o, meta) ==
    IF host.finder /\ ~Omits("finder") THEN [o EXCEPT !.finder = meta.finder] ELSE o

RestoreFinder(o, meta) ==
    IF Omits("finder") \/ o.finder = meta.finder THEN o ELSE Put(o, "finder", meta.finder)

\* restoreAcl, then the object is made writable again.
RestoreAcl(o, meta, mode) ==
    LET tried == NativeAcl(o, meta.acl, mode)
        kept  == IF tried.acl = meta.acl THEN tried ELSE Put(tried, "acl", meta.acl)
    IN  IF Omits("acl") THEN o ELSE Chmod(kept, "work")

\* Fault: the witness is not restored after the attribute write.
RestoreMtimeOnce(o, meta) ==
    LET tried == SetMtime(o, meta.mtime)
    IN  IF Omits("timestamps") THEN o
        ELSE IF tried.mtime = meta.mtime THEN tried
        ELSE Put(tried, "mtime", [original |-> meta.mtime, observed |-> tried.mtime])

\* mtimeNeedsTransport and writeModificationOverride: the override holds for
\* as long as the native mtime is the one observed here.
RestoreMtime(o, meta) ==
    LET tried == SetMtime(o, meta.mtime)
        kept  == Put(tried, "mtime", [original |-> meta.mtime, observed |-> tried.mtime])
    IN  IF Omits("timestamps") THEN o
        ELSE IF tried.mtime = meta.mtime THEN tried
        ELSE [kept EXCEPT !.mtime = tried.mtime]

\* What has to be kept of a symlink in its parent directory.
LinkRecord(o, meta) ==
    [raw |-> IF meta.raw # "none" /\ ~host.raw THEN {meta.raw} ELSE Missing,
     acl |-> IF Omits("acl") \/ o.acl = meta.acl THEN Missing ELSE {meta.acl},
     finder |-> IF Omits("finder") \/ o.finder = meta.finder THEN Missing ELSE {meta.finder},
     birth |-> IF BirthNeedsTransport(o, meta.birth) THEN {meta.birth} ELSE Missing,
     mtime |-> IF Omits("timestamps") \/ o.mtime = meta.mtime THEN Missing ELSE {meta.mtime},
     observed |-> o.mtime]

NothingKept(record) ==
    \A f \in {"raw", "acl", "finder", "birth", "mtime"} : record[f] = Missing

\* The compromise codes are the transports that were written.
Reported(old, new) == {t \in Transports : new.xattr[t] # old.xattr[t]}

-----------------------------------------------------------------------------
(* The passes.                                                             *)

Init ==
    /\ want \in Snapshots
    /\ host \in Hosts
    /\ pass = "create"
    /\ k = 1
    /\ ino = [i \in Objects |-> i]
    /\ obj = [o \in Objects |-> Fresh]
    /\ copied = {}
    /\ parents = [d \in Objects |-> <<>>]
    /\ report = {}
    /\ edit = [kind |-> "none", at |-> 0]

\* The cursor moves on, or the pass ends.
Advance(next) ==
    IF k + 1 \in Entries THEN k' = k + 1 /\ pass' = pass
                         ELSE k' = 1 /\ pass' = next

\* Replaces inode o; a refused call ends the restore.
Update(o, new, step) ==
    /\ obj' = [obj EXCEPT ![o] = new]
    /\ report' = report \cup Reported(obj[o], new)
    /\ IF new.denied THEN pass' = "failed" /\ UNCHANGED k ELSE step

\* Pass 1: directories, files, links and symlinks, parents first.
Create ==
    /\ pass = "create"
    /\ \/ /\ Entry(k).link # 0 /\ host.links
          /\ ino' = [ino EXCEPT ![k] = ino[Entry(k).link]]
          /\ UNCHANGED copied
       \/ /\ Entry(k).link # 0 /\ ~host.links
          /\ copied' = copied \cup {k}
          /\ UNCHANGED ino
       \/ /\ Entry(k).link = 0
          /\ UNCHANGED <<ino, copied>>
    /\ obj' = [obj EXCEPT ![Parent(k)].mtime = "now"]
    /\ Advance("metadata")
    /\ UNCHANGED <<want, host, parents, report>>

\* Pass 2, files and directories.
RestoreMetadata ==
    /\ pass = "metadata" /\ ~IsLink(k)
    /\ LET meta == Entry(k).meta
           o1 == RestoreHardlink(RestoreXattrs(obj[ino[k]], meta), k)
           o2 == IF Entry(k).kind = "file" THEN RestoreSparse(o1, meta) ELSE o1
           o3 == SetFinder(RestoreBirth(o2, meta), meta)
           o4 == RestoreFinder(RestoreAcl(o3, meta, Entry(k).mode), meta)
           all == IF Omits("acl") \/ Entry(k).kind # "directory" THEN obj
                  ELSE Propagate(obj, k, meta.acl)
       IN  /\ obj' = [all EXCEPT ![ino[k]] = o4]
           /\ report' = report \cup Reported(obj[ino[k]], o4)
           /\ IF o4.denied THEN pass' = "failed" /\ UNCHANGED k ELSE Advance("root")
    /\ UNCHANGED <<want, host, ino, copied, parents>>

\* Pass 2, symlinks: native calls on the link itself, the rest in the parent.
RestoreSymlink ==
    /\ pass = "metadata" /\ IsLink(k)
    /\ LET meta == Entry(k).meta
           o1 == IF host.raw THEN [obj[ino[k]] EXCEPT !.raw = meta.raw] ELSE obj[ino[k]]
           o2 == SetFinder(SetBirth(o1, meta.birth), meta)
           o3 == IF Omits("timestamps") THEN o2 ELSE SetMtime(o2, meta.mtime)
           record == LinkRecord(o3, meta)
       IN  /\ obj' = [obj EXCEPT ![ino[k]] = o3]
           /\ parents' = IF NothingKept(record) THEN parents
                         ELSE [parents EXCEPT ![Parent(k)] =
                                  [i \in DOMAIN @ \cup {k} |-> IF i = k THEN record ELSE @[i]]]
    /\ Advance("root")
    /\ UNCHANGED <<want, host, ino, copied, report>>

RestoreRoot ==
    /\ pass = "root"
    /\ LET meta == want.root
           o1 == RestoreAcl(RestoreXattrs(obj[0], meta), meta, want.rootMode)
           o2 == RestoreBirth(RestoreFinder(SetFinder(o1, meta), meta), meta)
           all == IF Omits("acl") THEN obj ELSE Propagate(obj, 0, meta.acl)
       IN  /\ obj' = [all EXCEPT ![0] = o2]
           /\ report' = report \cup Reported(obj[0], o2)
           /\ pass' = IF o2.denied THEN "failed" ELSE "parents"
    /\ UNCHANGED <<want, host, k, ino, copied, parents>>

\* Fault: symlink metadata is kept without a word.
WriteParentsSilently ==
    /\ pass = "parents"
    /\ obj' = [d \in Objects |-> IF DOMAIN parents[d] # {}
                                 THEN Put(obj[d], "symlinks", parents[d]) ELSE obj[d]]
    /\ pass' = "finish"
    /\ k' = Max(Objects)
    /\ UNCHANGED <<want, host, ino, copied, parents, report>>

\* Every directory with symlink records gets them in one attribute, and the
\* restore fails when they do not fit.
WriteParents ==
    /\ pass = "parents"
    /\ LET holders == {d \in Objects : DOMAIN parents[d] # {}}
           fits == \A d \in holders : Cardinality(DOMAIN parents[d]) <= LinkRoom
           new == [d \in Objects |-> IF d \in holders THEN Put(obj[d], "symlinks", parents[d])
                                                      ELSE obj[d]]
       IN  /\ obj' = new
           /\ report' = report \cup (IF holders = {} THEN {} ELSE {"symlinks"})
           /\ pass' = IF ~fits \/ \E d \in holders : new[d].denied THEN "failed" ELSE "finish"
           /\ k' = Max(Objects)
    /\ UNCHANGED <<want, host, ino, copied, parents>>

\* Pass 3, in reverse: modification times while still writable, then modes.
FinishEntry ==
    /\ pass = "finish" /\ k > 0
    /\ \/ IsLink(k) /\ k' = k - 1 /\ UNCHANGED <<obj, report, pass>>
       \/ /\ ~IsLink(k)
          /\ LET timed == RestoreMtime(obj[ino[k]], Entry(k).meta) IN
             Update(ino[k], IF timed.denied THEN timed ELSE Chmod(timed, Entry(k).mode),
                    k' = k - 1 /\ UNCHANGED pass)
    /\ UNCHANGED <<want, host, ino, copied, parents>>

\* Pass 4, parents first: native ACLs again, errors ignored.
FinalRootAcl ==
    /\ pass = "finish" /\ k = 0
    /\ IF Omits("acl") THEN UNCHANGED obj
       ELSE obj' = [Propagate(obj, 0, want.root.acl)
                       EXCEPT ![0] = NativeAcl(@, want.root.acl, want.rootMode)]
    /\ pass' = IF Omits("acl") THEN "rootTime" ELSE "acl"
    /\ k' = 1
    /\ UNCHANGED <<want, host, ino, copied, parents, report>>

FinalAcl ==
    /\ pass = "acl"
    /\ \/ IsLink(k) /\ UNCHANGED obj
       \/ /\ ~IsLink(k)
          /\ obj' = [(IF Entry(k).kind = "directory" THEN Propagate(obj, k, Entry(k).meta.acl)
                                                     ELSE obj)
                        EXCEPT ![ino[k]] = NativeAcl(@, Entry(k).meta.acl, Entry(k).mode)]
    /\ Advance("rootTime")
    /\ UNCHANGED <<want, host, ino, copied, parents, report>>

RootTime ==
    /\ pass = "rootTime"
    /\ Update(0, RestoreMtime(obj[0], want.root), pass' = "done" /\ UNCHANGED k)
    /\ UNCHANGED <<want, host, ino, copied, parents>>

-----------------------------------------------------------------------------
(* Edits of the finished tree: external.                                   *)

Edit(how, i, objects) ==
    /\ pass = "done"
    /\ edit' = [kind |-> how, at |-> i]
    /\ obj' = objects
    /\ pass' = "edited"
    /\ UNCHANGED <<want, host, k, ino, copied, parents, report>>

\* The modification time alone, of a symlink too.
Touch(i) == Edit("touch", i, [obj EXCEPT ![ino[i]].mtime = "later"])

\* New contents without the holes.
Rewrite(i) ==
    /\ Entry(i).kind = "file"
    /\ Edit("rewrite", i, [obj EXCEPT ![ino[i]].mtime = "later", ![ino[i]].sparse = "none"])

\* A symlink is removed, or replaced by another of its name.
Unlink(i) == IsLink(i) /\ Edit("unlink", i, [obj EXCEPT ![Parent(i)].mtime = "later"])
Relink(i) ==
    /\ IsLink(i)
    /\ Edit("relink", i, [obj EXCEPT ![Parent(i)].mtime = "later",
                                     ![ino[i]] = [Fresh EXCEPT !.mtime = "later"]])

EditTree == Touch(0) \/ \E i \in Entries : Touch(i) \/ Rewrite(i) \/ Unlink(i) \/ Relink(i)

Stopped == pass \in {"edited", "failed"} /\ UNCHANGED vars

Next ==
    \/ /\ \/ Create \/ RestoreMetadata \/ RestoreSymlink \/ RestoreRoot \/ WriteParents
          \/ FinishEntry \/ FinalRootAcl \/ FinalAcl \/ RootTime
       /\ UNCHANGED edit
    \/ EditTree
    \/ Stopped

Spec == Init /\ [][Next]_vars

-----------------------------------------------------------------------------
(* Reading the stage back: snapshotDir.                                    *)

Or(optional, native) == IF optional = Missing THEN native ELSE Value(optional)

\* Fault: the override is believed for as long as it is there.
Believed(override, native) == IF override = Missing THEN native ELSE Value(override).original

\* The override counts only while its witness agrees with the native mtime.
Witnessed(override, native) ==
    IF \E v \in override : v.observed = native THEN Value(override).original ELSE native

\* metadataFor, readSparse, readAcl, readFinder, readXattrs.
CaptureObject(o) ==
    [birth |-> Or(o.xattr["btime"], o.birth),
     mtime |-> Witnessed(o.xattr["mtime"], o.mtime),
     acl |-> Or(o.xattr["acl"], o.acl),
     finder |-> Or(o.xattr["finder"], o.finder),
     sparse |-> Or(o.xattr["sparse"], o.sparse),
     raw |-> Or(o.xattr["raw"], o.raw)]

Records(d) == Or(obj[d].xattr["symlinks"], <<>>)

\* mergeSymlinkMetadata.
CaptureSymlink(i) ==
    LET native == CaptureObject(obj[ino[i]])
        records == Records(Parent(i))
        r == records[i]
    IN  IF i \notin DOMAIN records THEN native
        ELSE [native EXCEPT !.raw = Or(r.raw, @), !.acl = Or(r.acl, @),
                            !.finder = Or(r.finder, @), !.birth = Or(r.birth, @),
                            !.mtime = IF @ = r.observed THEN Or(r.mtime, @) ELSE @]

\* Omitted families are not read.
Mask(meta) ==
    [birth |-> IF Omits("timestamps") THEN "none" ELSE meta.birth,
     mtime |-> IF Omits("timestamps") THEN "none" ELSE meta.mtime,
     acl |-> IF Omits("acl") THEN "none" ELSE meta.acl,
     finder |-> IF Omits("finder") THEN "none" ELSE meta.finder,
     sparse |-> IF Omits("sparse") THEN "none" ELSE meta.sparse,
     raw |-> meta.raw]

Capture(i) ==
    IF i = 0 THEN Mask(CaptureObject(obj[0]))
    ELSE IF IsLink(i) THEN Mask(CaptureSymlink(i)) ELSE Mask(CaptureObject(obj[ino[i]]))

\* assignHardlinks, then rebaseHardlinks over the whole tree.
CaptureLink(i) ==
    LET files == {j \in Entries : Entry(j).kind = "file"}
        kept(j) == obj[ino[j]].xattr["hardlink-to"]
        first(j) == Min({l \in files : ino[l] = ino[j]})
        name(j) == Or(kept(first(j)), first(j))
        canonical == Min({l \in files : name(l) = name(i)})
    IN  IF i \notin files \/ canonical = i THEN 0 ELSE canonical

\* readSymlinkTransport: every record names a symlink that is there.
Left == IF edit.kind = "unlink" THEN Entries \ {edit.at} ELSE Entries
LinksExist == \A d \in Objects : DOMAIN Records(d) \subseteq Left

\* validateMetadataRelations: a recorded hole is one in the contents.
HolesHold == \A i \in Left : edit.kind = "rewrite" /\ ino[i] = ino[edit.at] => Capture(i).sparse = "none"

Captured == LinksExist /\ HolesHold

-----------------------------------------------------------------------------
TypeOK ==
    /\ pass \in {"create", "metadata", "root", "parents", "finish", "acl", "rootTime",
                 "done", "edited", "failed"}
    /\ k \in Objects
    /\ ino \in [Objects -> Objects]
    /\ \A o \in Objects :
          /\ obj[o].mode \in {"work", "rw", "ro"}
          /\ obj[o].mtime \in {"now", "t1", "t2", "rounded", "later"}
          /\ obj[o].acl \in {"none", "set", "masked", "host"}
          /\ DOMAIN obj[o].xattr = Transports
    /\ copied \subseteq Entries
    /\ \A d \in Objects : DOMAIN parents[d] \subseteq Entries
    /\ report \subseteq Transports

Given(i) == IF i = 0 THEN want.root ELSE Entry(i).meta

\* The tree a finished restore leaves reads back as the tree it was given:
\* every family, every mode and every hard link group, on every host, natively
\* or through transports, linked or copied.
ReadsBack ==
    pass = "done" =>
        /\ Captured
        /\ \A i \in Objects : Capture(i) = Given(i)
        /\ \A i \in Entries : CaptureLink(i) = Entry(i).link
        /\ \A i \in Entries : ~IsLink(i) => obj[ino[i]].mode = Entry(i).mode

\* directory-format.md: "later native timestamp changes invalidate stale
\* transport".  After an edit the tree is captured with the new times of what
\* was edited, through every hard link and of the directory whose entry was
\* replaced, and with everything else as it was given: no transport hides the
\* edit or leaks to another entry.  Touching or replacing an entry never makes
\* the tree unreadable.
EditShows ==
    LET edited(i) == ino[i] = ino[edit.at]
        dated(i) == edited(i) \/ (edit.kind \in {"unlink", "relink"} /\ i = Parent(edit.at))
        expected(i) == Mask([Given(i) EXCEPT !.mtime = IF dated(i) THEN "later" ELSE @,
                                             !.sparse = IF edit.kind = "rewrite" /\ edited(i)
                                                        THEN "none" ELSE @])
    IN  pass = "edited" =>
            /\ edit.kind \in {"touch", "relink"} => Captured
            /\ Captured => \A i \in {0} \cup Left :
                  IF edit.kind = "relink" /\ i = edit.at
                  THEN Capture(i).mtime = expected(i).mtime ELSE Capture(i) = expected(i)

\* The report names every family that only survives in a transport.
ReportsCompromises ==
    pass = "done" =>
        report = UNION {{t \in Transports : obj[o].xattr[t] # Missing} : o \in Objects}

\* directory-format.md: "Objects remain writable until their metadata and
\* parent transport are stored."  So no transport is ever refused.
NothingDenied == pass # "failed"
=============================================================================
