----------------------------- MODULE MCTreePatch -----------------------------
(***************************************************************************)
(* Instances of TreePatch: the paths a, a/b and c.                         *)
(***************************************************************************)
EXTENDS TreePatch

MCPaths == 1..3
MCParent == [p \in MCPaths |-> IF p = 2 THEN 1 ELSE 0]

File(p, data, meta) == [path |-> p, kind |-> "file", mode |-> 6, data |-> data, meta |-> meta]

\* A file has an attribute or a hole, not both; the one in the directory has neither.
Files(p, datas) ==
    {File(p, d, [attr |-> m = "attr", hole |-> m = "hole", link |-> l]) :
        d \in datas, m \in IF p = 2 THEN {"none"} ELSE {"none", "attr", "hole"}, l \in 0..(p - 1)}

Dir(p) == [path |-> p, kind |-> "dir", mode |-> 7, data |-> <<>>, meta |-> NoMeta]
Link(p, to) == [path |-> p, kind |-> "symlink", mode |-> 7, data |-> to, meta |-> NoMeta]

\* A directory may be a or a/b, a symlink a/b or c.
MaybeEntry(p, datas) ==
    {<<>>} \cup {<<e>> : e \in Files(p, datas)}
    \cup {<<e>> : e \in CASE p = 1 -> {Dir(1)}
                          [] p = 2 -> {Dir(2), Link(2, <<2, 1>>)}
                          [] p = 3 -> {Link(3, <<1>>)}}

Root(a) == [NoMeta EXCEPT !.attr = a]

\* a grows from the sources' one byte; c may keep it.
Trees(datas, roots) ==
    {s \in {[entries |-> x \o y \o z, root |-> Root(r)] :
                x \in MaybeEntry(1, {<<0, 1>>}), y \in MaybeEntry(2, {<<0>>}), z \in MaybeEntry(3, datas),
                r \in roots} : Valid(s)}

\* A small family of sources: nothing, a file, two linked files, a tree, a sparse file.
MCSources ==
    {[entries |-> <<>>, root |-> NoMeta],
     [entries |-> <<File(1, <<0>>, NoMeta), Link(3, <<1>>)>>, root |-> NoMeta],
     [entries |-> <<File(1, <<0>>, [NoMeta EXCEPT !.attr = TRUE]),
                    File(3, <<0>>, [NoMeta EXCEPT !.attr = TRUE, !.link = 1])>>,
      root |-> Root(TRUE)],
     [entries |-> <<Dir(1), File(2, <<1>>, NoMeta), File(3, <<0, 1>>, [NoMeta EXCEPT !.hole = TRUE])>>,
      root |-> NoMeta]}

MCGiven == {[entries |-> <<File(1, <<0>>, NoMeta), File(3, <<0>>, NoMeta)>>, root |-> NoMeta]}
MCTargets == Trees({<<0>>, <<0, 1>>}, {TRUE})
MCOmits == {{}, {"attr"}, {"sparse", "hardlink"}}

\* One rule; a patch of three entries with a delta is too long to be written.
MCRules == <<[action |-> 2, reserved |-> 0, pattern |-> 1, compiles |-> TRUE]>>
MCLimits == [patch |-> 460, rules |-> 2, entries |-> 3, pattern |-> 1, symlink |-> 3]
=============================================================================
