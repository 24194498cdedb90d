----------------------------- MODULE MCFilePatch -----------------------------
(***************************************************************************)
(* Five contents: two that differ only in their bytes, an empty one, one   *)
(* as long as the codec's window and one that is longer.                   *)
(***************************************************************************)
EXTENDS FilePatch

CONSTANTS empty, one, other, full, huge

MCBlobs == {empty, one, other, full, huge}
MCSize == [b \in MCBlobs |-> CASE b = empty -> 0 [] b \in {one, other} -> 3 [] b = full -> 4 [] b = huge -> 5]
MCCeilings == {0, 1, 2, 3}
BothImpls == {"zig", "rust"}
=============================================================================
