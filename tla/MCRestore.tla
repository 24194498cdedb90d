------------------------------ MODULE MCRestore ------------------------------
(* Trees of two and three entries on the hosts the code distinguishes.               *)
EXTENDS Restore

Metas == [birth : {"none", "b"}, mtime : {"none", "t1", "t2"}, acl : {"none", "set"},
          finder : {"none", "set"}, sparse : {"none"}, raw : {"none", "set"}]

Bare == [birth |-> "none", mtime |-> "t1", acl |-> "none", finder |-> "none",
         sparse |-> "none", raw |-> "none"]
Full == [birth |-> "b", mtime |-> "t2", acl |-> "set", finder |-> "set",
         sparse |-> "none", raw |-> "set"]

Dir(above, mode, meta) ==
    [kind |-> "directory", above |-> above, mode |-> mode, link |-> 0, meta |-> meta]
Link(above, meta) ==
    [kind |-> "symlink", above |-> above, mode |-> "rw", link |-> 0, meta |-> meta]
Sparse(meta, s) == [meta EXCEPT !.sparse = s]
File(above, mode, link, meta) ==
    [kind |-> "file", above |-> above, mode |-> mode, link |-> link, meta |-> meta]

Modes == {"rw", "ro"}
Rest == {Bare, Full}

\* A directory with a file, a directory with a symlink, a file beside a
\* symlink.
Trees ==
    {<<Dir({0}, m1, d), File({0, 1}, m2, 0, Sparse(f, s))>> :
        m1 \in Modes, m2 \in Modes, d \in Rest, f \in Metas, s \in {"none", "set"}}
    \cup {<<Dir({0}, m1, d), Link({0, 1}, l)>> : m1 \in Modes, d \in Metas, l \in Rest}
    \cup {<<Dir({0}, m1, d), Link({0, 1}, l)>> : m1 \in Modes, d \in Rest, l \in Metas}
    \cup {<<File({0}, m1, 0, f), Link({0}, l)>> : m1 \in Modes, f \in Rest, l \in Metas}

\* A hard link group and a file of its own.
Groups ==
    {<<File({0}, m, 0, f), File({0}, "rw", 0, Bare), File({0}, m, 1, f)>> :
        m \in Modes, f \in Metas}

\* Two symlinks in one directory.
Pairs == {<<Link({0}, l), Link({0}, Full)>> : l \in Rest}

Masked(meta, omit) ==
    [birth |-> IF "timestamps" \in omit THEN "none" ELSE meta.birth,
     mtime |-> IF "timestamps" \in omit THEN "none" ELSE meta.mtime,
     acl |-> IF "acl" \in omit THEN "none" ELSE meta.acl,
     finder |-> IF "finder" \in omit THEN "none" ELSE meta.finder,
     sparse |-> IF "sparse" \in omit THEN "none" ELSE meta.sparse,
     raw |-> meta.raw]

\* What createPatch records: omitted families are gone from the entries.
Recorded(tree, root, mode, omit) ==
    [entries |-> [i \in DOMAIN tree |-> [tree[i] EXCEPT !.meta = Masked(@, omit)]],
     root |-> Masked(root, omit), rootMode |-> mode, omit |-> omit]

Omissions == {{}, {"timestamps", "sparse"}, {"acl", "finder"}}

\* Of a root with a read-only ACL, one that has a modification time to restore.
ReadOnlyRoots ==
    {Recorded(<<File({0}, "rw", 0, Bare)>>, r, "ro", {}) :
        r \in {m \in Metas : m.mtime # "none"}}

AllSnapshots ==
    {Recorded(t, r, "rw", o) : t \in Trees \cup Groups \cup Pairs, r \in Rest, o \in Omissions}
    \cup {Recorded(g, r, "rw", {"timestamps"}) : g \in Groups, r \in Rest}
    \cup ReadOnlyRoots

\* Linux with and without hard links and creation times, macOS, Windows, and a
\* filesystem that stores attributes and nothing else.
AllHosts ==
    {h \in [links : BOOLEAN, fine : BOOLEAN, privileged : {FALSE}, touches : BOOLEAN,
            raw : BOOLEAN, sparse : BOOLEAN, finder : BOOLEAN,
            acl : {"posix", "plain", "inherit", "unsupported"},
            birth : {"fixed", "absent", "settable"}] :
        \/ h.acl = "posix" /\ h.birth \in {"fixed", "absent"} /\ h.raw /\ h.sparse
              /\ ~h.finder /\ ~h.touches
        \/ h.acl = "plain" /\ h.birth = "settable" /\ ~h.raw /\ h.sparse /\ h.finder
              /\ ~h.touches /\ h.fine
        \/ h.acl = "inherit" /\ h.birth = "settable" /\ ~h.raw /\ h.sparse /\ ~h.finder
              /\ h.touches /\ ~h.fine
        \/ h.acl = "unsupported" /\ h.birth = "absent" /\ ~h.raw /\ ~h.sparse
              /\ ~h.finder /\ ~h.touches /\ ~h.links}
=============================================================================
