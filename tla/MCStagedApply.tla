--------------------------- MODULE MCStagedApply ---------------------------
(* Two racing calls in a parent directory with three names.                *)
EXTENDS StagedApply, TLC

CONSTANTS p1, p2, n1, n2, n3, t1, t2

MCCalls == {p1, p2}
MCNames == {n1, n2, n3}
MCTrees == {t1, t2}

\* Any output and staging name, equal ones too; the patch is t1 -> t2.
AllRequests == {r \in Request : r.from = t1 /\ r.to = t2}

\* The random suffix keeps the staging names apart from every other name.
FreshStages == {r \in AllRequests : r.output = n1 /\ r.stage \in {n2, n3}}

Symmetry == Permutations(MCCalls) \cup Permutations(MCNames)
=============================================================================
