---------------------------- MODULE ByteStrings ----------------------------
(***************************************************************************)
(* The few operators on sequences that the metadata modules share.  They   *)
(* mean what SequencesExt means by them; that module has sixty others,     *)
(* and the prover carries every one of them through every step of a proof. *)
(***************************************************************************)
EXTENDS Integers, Sequences, FiniteSetsExt, Functions, Folds, TLC

Last(s) == s[Len(s)]
Front(s) == SubSeq(s, 1, Len(s) - 1)
IsPrefix(s, t) == Len(s) <= Len(t) /\ SubSeq(t, 1, Len(s)) = s

\* op applied from the first element of s to the last, starting with base.
FoldLeft(op(_, _), base, s) ==
    MapThenFoldSet(LAMBDA x, acc : op(acc, x), base, LAMBDA i : s[i], LAMBDA indices : Max(indices), DOMAIN s)

\* The sequences of ss, one after the other.
FlattenSeq(ss) == FoldLeft(LAMBDA joined, s : joined \o s, <<>>, ss)
=============================================================================
