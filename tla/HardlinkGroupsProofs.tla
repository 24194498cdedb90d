------------------------ MODULE HardlinkGroupsProofs ------------------------
(***************************************************************************)
(* rebaseHardlinks yields valid references, and the groups capture ends    *)
(* with are the ones the tree has, for every number of files and every     *)
(* filter.  The invariants say what a loop has established for the entries *)
(* before the index, what its map holds, and what is still true of the     *)
(* references after the index, which the loop has not touched.             *)
(***************************************************************************)
EXTENDS HardlinkGroups, TLAPS

\* The validations and the start of the loops.
Settled ==
    /\ pc \in {"transported", "assigned", "select"} => i = 1
    /\ pc \in {"transported", "assign", "assigned", "select"} => selected = Files
    /\ pc = "select" => RelationsHold

\* Every group's canonical path is an entry before the index, without a
\* reference, that holds what the group holds.
MapIsValid ==
    \A g \in Files : canonical[g] # 0 =>
        /\ canonical[g] < i
        /\ canonical[g] \in selected
        /\ link[canonical[g]] = 0
        /\ data[canonical[g]] = data[g]

\* References from the index on still name earlier files that hold the same.
RestIsValid ==
    \A a \in Files : a >= i /\ link[a] # 0 => link[a] < a /\ data[link[a]] = data[a]

\* The entries before the index are done.
DoneIsValid == \A a \in selected : a < i => RelationHolds(a)

Rebasing == pc = "rebase" => MapIsValid /\ RestIsValid /\ DoneIsValid

Inv == TypeOK /\ Settled /\ Rebasing /\ RebaseIsValid

\* The invariant holds before the first validation of snapshotDir.
LEMMA InitInv == Init => Inv
  BY NAssumption DEF Init, Inv, TypeOK, Settled, Rebasing, RebaseIsValid, Files

\* The validations of snapshotDir preserve the invariant.
LEMMA ValidateInv ==
  ASSUME Inv,
         \/ Validate("transported", "assign")
         \/ Validate("assigned", "select")
         \/ Validate("rebased", "done")
  PROVE  Inv'
<1>1. UNCHANGED <<ino, data, kept, i, canonical, link, selected>>
  BY DEF Validate
<1>2. RelationsHold' <=> RelationsHold
  BY <1>1 DEF RelationsHold, RelationHolds
<1>3. \/ pc = "transported" /\ pc' \in {"assign", "rejected"}
      \/ pc = "assigned" /\ pc' \in {"select", "rejected"} /\ (pc' = "select" => RelationsHold)
      \/ pc = "rebased" /\ pc' \in {"done", "rejected"}
  BY DEF Validate
<1>4. TypeOK'
  BY <1>1, <1>3 DEF Inv, TypeOK
<1>5. Settled'
  BY <1>1, <1>2, <1>3 DEF Inv, Settled
<1>6. Rebasing' /\ RebaseIsValid'
  BY <1>3 DEF Rebasing, RebaseIsValid
<1>7. QED
  BY <1>4, <1>5, <1>6 DEF Inv

\* assignHardlinks leaves the selection alone and every reference a path.
LEMMA AssignInv == Inv /\ AssignNext => Inv'
<1> SUFFICES ASSUME Inv, AssignNext PROVE Inv'
  OBVIOUS
<1>1. pc = "assign" /\ UNCHANGED <<ino, data, kept, selected>>
  BY DEF AssignNext
<1> TypeOK
  BY DEF Inv
<1>2. /\ i' \in Files
      /\ pc' = "assign" \/ (pc' = "assigned" /\ i' = 1)
  <2>1. i \in 1..N /\ Continue("assigned")
    BY DEF AssignNext, TypeOK, Files
  <2>2. QED
    BY <1>1, <2>1, NAssumption DEF Continue, Files
<1>3. canonical' \in [Files -> 0..N] /\ link' \in [Files -> 0..N]
  <2>1. i \in Files /\ ino[i] \in Files /\ Files \subseteq 0..N
    BY DEF TypeOK, Files
  <2>2. canonical \in [Files -> 0..N] /\ link \in [Files -> 0..N]
    BY DEF TypeOK
  <2>3. CASE canonical[ino[i]] # 0
    BY <2>1, <2>2, <2>3 DEF AssignNext
  <2>4. CASE canonical[ino[i]] = 0
    BY <2>1, <2>2, <2>4 DEF AssignNext
  <2>5. QED
    BY <2>3, <2>4
<1>4. TypeOK'
  BY <1>1, <1>2, <1>3 DEF Inv, TypeOK
<1>5. Settled' /\ Rebasing' /\ RebaseIsValid'
  BY <1>1, <1>2 DEF Inv, Settled, Rebasing, RebaseIsValid
<1>6. QED
  BY <1>4, <1>5 DEF Inv

\* After selectEntries the map is empty and no reference has been touched.
LEMMA SelectInv ==
  ASSUME Inv, NEW entries \in SUBSET Files, Select(entries)
  PROVE  Inv'
<1>1. /\ pc = "select" /\ pc' = "rebase" /\ selected' = entries
      /\ canonical' = [f \in Files |-> 0]
      /\ UNCHANGED <<ino, data, kept, i, link>>
  BY DEF Select
<1>2. TypeOK'
  <2>1. TypeOK
    BY DEF Inv
  <2>2. canonical' \in [Files -> 0..N]
    BY <1>1, NAssumption
  <2>3. QED
    BY <1>1, <2>1, <2>2 DEF TypeOK
<1>3. i = 1 /\ selected = Files /\ RelationsHold
  BY <1>1 DEF Inv, Settled
<1>4. MapIsValid'
  BY <1>1 DEF MapIsValid
<1>5. RestIsValid'
  BY <1>1, <1>3 DEF RestIsValid, RelationsHold, RelationHolds
<1>6. DoneIsValid'
  BY <1>1, <1>3 DEF DoneIsValid, Files
<1>7. Settled' /\ RebaseIsValid'
  BY <1>1 DEF Settled, RebaseIsValid
<1>8. QED
  BY <1>2, <1>4, <1>5, <1>6, <1>7 DEF Inv, Rebasing

\* One iteration of rebaseHardlinks finishes the entry at the index.
LEMMA RebaseInv == Inv /\ RebaseNext => Inv'
<1> SUFFICES ASSUME Inv, RebaseNext PROVE Inv'
  OBVIOUS
<1>1. pc = "rebase" /\ UNCHANGED <<ino, data, kept, selected>>
  BY DEF RebaseNext
<1>2. MapIsValid /\ RestIsValid /\ DoneIsValid /\ TypeOK
  BY <1>1 DEF Inv, Rebasing
<1>3. Group(i) \in Files /\ data[Group(i)] = data[i]
  BY <1>2 DEF Group, RestIsValid, TypeOK, Files
<1>4. canonical' \in [Files -> 0..N] /\ link' \in [Files -> 0..N]
  BY <1>2, <1>3 DEF RebaseNext, TypeOK, Files
<1>5. \A a \in Files : a # i => link'[a] = link[a]
  BY <1>2 DEF RebaseNext, TypeOK
<1>6. \A g \in Files : canonical'[g] # 0 =>
          /\ canonical'[g] <= i
          /\ canonical'[g] \in selected
          /\ link'[canonical'[g]] = 0
          /\ data[canonical'[g]] = data[g]
  <2>1. CASE UNCHANGED canonical
    <3> SUFFICES ASSUME NEW g \in Files, canonical[g] # 0
                 PROVE  /\ canonical[g] <= i
                        /\ canonical[g] \in selected
                        /\ link'[canonical[g]] = 0
                        /\ data[canonical[g]] = data[g]
      BY <2>1
    <3>1. /\ canonical[g] < i /\ canonical[g] \in selected
          /\ link[canonical[g]] = 0 /\ data[canonical[g]] = data[g]
      BY <1>2 DEF MapIsValid
    <3>2. canonical[g] \in Files /\ i \in Files
      BY <3>1, <1>2 DEF TypeOK
    <3>3. QED
      BY <3>1, <3>2, <1>5 DEF Files
  <2>2. CASE /\ i \in selected
             /\ canonical' = [canonical EXCEPT ![Group(i)] = i]
             /\ link' = [link EXCEPT ![i] = 0]
    <3> SUFFICES ASSUME NEW g \in Files, canonical'[g] # 0
                 PROVE  /\ canonical'[g] <= i
                        /\ canonical'[g] \in selected
                        /\ link'[canonical'[g]] = 0
                        /\ data[canonical'[g]] = data[g]
      OBVIOUS
    <3>1. CASE g = Group(i)
      <4>1. canonical'[g] = i /\ link'[i] = 0 /\ i \in Files
        BY <2>2, <3>1, <1>2, <1>3 DEF TypeOK
      <4>2. QED
        BY <4>1, <2>2, <3>1, <1>3 DEF Files
    <3>2. CASE g # Group(i)
      <4>1. canonical'[g] = canonical[g]
        BY <2>2, <3>2, <1>2 DEF TypeOK
      <4>2. /\ canonical[g] < i /\ canonical[g] \in selected
            /\ link[canonical[g]] = 0 /\ data[canonical[g]] = data[g]
        BY <4>1, <1>2 DEF MapIsValid
      <4>3. canonical[g] \in Files /\ i \in Files
        BY <4>2, <1>2 DEF TypeOK
      <4>4. QED
        BY <4>1, <4>2, <4>3, <1>5 DEF Files
    <3>3. QED
      BY <3>1, <3>2
  <2>3. QED
    BY <2>1, <2>2 DEF RebaseNext
<1>7. i \in selected /\ link'[i] # 0 =>
          /\ link'[i] < i /\ link'[i] \in selected
          /\ link'[link'[i]] = 0 /\ data[link'[i]] = data[i]
  <2> SUFFICES ASSUME i \in selected, link'[i] # 0
               PROVE  /\ link'[i] < i /\ link'[i] \in selected
                      /\ link'[link'[i]] = 0 /\ data[link'[i]] = data[i]
    OBVIOUS
  <2>1. canonical[Group(i)] # 0 /\ link'[i] = canonical[Group(i)]
    BY <1>2 DEF RebaseNext, TypeOK
  <2>2. /\ link'[i] < i /\ link'[i] \in selected
        /\ link[link'[i]] = 0 /\ data[link'[i]] = data[i]
    BY <2>1, <1>2, <1>3 DEF MapIsValid
  <2>3. link'[i] \in Files /\ i \in Files
    BY <2>2, <1>2 DEF TypeOK
  <2>4. QED
    BY <2>2, <2>3, <1>5 DEF Files
<1>8. \A a \in selected : a <= i => RelationHolds(a)'
  <2> SUFFICES ASSUME NEW a \in selected, a <= i, link'[a] # 0
               PROVE  /\ link'[a] < a /\ link'[a] \in selected
                      /\ link'[link'[a]] = 0 /\ data[link'[a]] = data[a]
    BY <1>1 DEF RelationHolds
  <2>1. a \in Files /\ i \in Files
    BY <1>2 DEF TypeOK
  <2>2. CASE a = i
    BY <2>2, <1>7
  <2>3. CASE a # i
    <3>1. a < i /\ link'[a] = link[a]
      BY <2>1, <2>3, <1>5 DEF Files
    <3>2. /\ link[a] < a /\ link[a] \in selected
          /\ link[link[a]] = 0 /\ data[link[a]] = data[a]
      BY <3>1, <1>2 DEF DoneIsValid, RelationHolds
    <3>3. link[a] \in Files /\ link[a] # i
      BY <2>1, <3>1, <3>2, <1>2 DEF TypeOK, Files
    <3>4. QED
      BY <3>1, <3>2, <3>3, <1>5
  <2>4. QED
    BY <2>2, <2>3
<1>9. CASE i < N
  <2>1. i' = i + 1 /\ pc' = "rebase" /\ i' \in Files
    BY <1>1, <1>2, <1>9, NAssumption DEF RebaseNext, Continue, TypeOK, Files
  <2>2. TypeOK'
    BY <1>1, <1>2, <1>4, <2>1 DEF TypeOK
  <2>3. MapIsValid'
    <3> SUFFICES ASSUME NEW g \in Files, canonical'[g] # 0
                 PROVE  /\ canonical'[g] < i + 1 /\ canonical'[g] \in selected
                        /\ link'[canonical'[g]] = 0 /\ data[canonical'[g]] = data[g]
      BY <1>1, <2>1 DEF MapIsValid
    <3>1. canonical'[g] \in 0..N /\ i \in 1..N
      BY <1>2, <1>4 DEF TypeOK, Files
    <3>2. QED
      BY <1>6, <3>1
  <2>4. RestIsValid'
    <3> SUFFICES ASSUME NEW a \in Files, a >= i + 1, link'[a] # 0
                 PROVE  link'[a] < a /\ data[link'[a]] = data[a]
      BY <1>1, <2>1 DEF RestIsValid
    <3>1. i \in Files /\ a # i /\ a >= i
      BY <1>2 DEF TypeOK, Files
    <3>2. QED
      BY <3>1, <1>2, <1>5 DEF RestIsValid
  <2>5. DoneIsValid'
    <3> SUFFICES ASSUME NEW a \in selected, a < i + 1 PROVE RelationHolds(a)'
      BY <1>1, <2>1 DEF DoneIsValid
    <3>1. a <= i
      BY <1>2 DEF TypeOK, Files
    <3>2. QED
      BY <3>1, <1>8
  <2>6. Settled' /\ RebaseIsValid'
    BY <2>1 DEF Settled, RebaseIsValid
  <2>7. QED
    BY <2>2, <2>3, <2>4, <2>5, <2>6 DEF Inv, Rebasing
<1>10. CASE ~(i < N)
  <2>1. i' = 1 /\ pc' = "rebased" /\ i' \in Files
    BY <1>1, <1>10, NAssumption DEF RebaseNext, Continue, Files
  <2>2. TypeOK'
    BY <1>1, <1>2, <1>4, <2>1 DEF TypeOK
  <2>3. RelationsHold'
    <3> SUFFICES ASSUME NEW a \in selected PROVE RelationHolds(a)'
      BY <1>1 DEF RelationsHold
    <3>1. a <= i
      BY <1>2, <1>10, NAssumption DEF TypeOK, Files
    <3>2. QED
      BY <3>1, <1>8
  <2>4. Settled' /\ Rebasing' /\ RebaseIsValid'
    BY <2>1, <2>3 DEF Settled, Rebasing, RebaseIsValid
  <2>5. QED
    BY <2>2, <2>4 DEF Inv
<1>11. QED
  BY <1>9, <1>10

\* The invariant holds throughout capture.
THEOREM InvHolds == Spec => []Inv
<1>1. Init => Inv
  BY InitInv
<1>2. Inv /\ [Next]_vars => Inv'
  <2> SUFFICES ASSUME Inv, [Next]_vars PROVE Inv'
    OBVIOUS
  <2>1. CASE AssignNext
    BY <2>1, AssignInv
  <2>2. CASE \E entries \in SUBSET Files : Select(entries)
    BY <2>2, SelectInv
  <2>3. CASE RebaseNext
    BY <2>3, RebaseInv
  <2>4. CASE \/ Validate("transported", "assign")
             \/ Validate("assigned", "select")
             \/ Validate("rebased", "done")
    BY <2>4, ValidateInv
  <2>5. CASE UNCHANGED vars
    BY <2>5 DEF vars, Inv, TypeOK, Settled, Rebasing, RebaseIsValid, MapIsValid,
                RestIsValid, DoneIsValid, RelationsHold, RelationHolds
  <2>6. QED
    BY <2>1, <2>2, <2>3, <2>4, <2>5 DEF Next, Stopped
<1>3. QED
  BY <1>1, <1>2, PTL DEF Spec

\* Whatever rules filter the tree, the references rebaseHardlinks leaves are
\* valid, so capture never fails after filtering because of hard links.
THEOREM RebaseCorrect == Spec => []RebaseIsValid
<1>1. Inv => RebaseIsValid
  BY DEF Inv
<1>2. QED
  BY <1>1, InvHolds, PTL

-----------------------------------------------------------------------------
(* The groups.  After assignHardlinks and the second validation an entry's *)
(* group is the first file of the inode its original is on (Root); the     *)
(* rebase gives each group its first included member.                      *)

Root(a) == ino[Original(a)]

InputHolds ==
    /\ \A a \in Files : ino[a] <= a /\ ino[ino[a]] = ino[a]
    /\ SharedInode

\* What assignHardlinks makes of a reference.
Assigned(a) == link[a] = IF kept[a] # 0 \/ ino[a] = a THEN kept[a] ELSE ino[a]

Assigning ==
    /\ \A a \in Files : IF a < i THEN Assigned(a) ELSE link[a] = kept[a]
    /\ \A g \in Files : canonical[g] = IF g < i /\ ino[g] = g THEN Original(g) ELSE 0

\* f is the first included entry of group g.
IsFirst(f, g) ==
    f \in selected /\ Root(f) = g /\ \A c \in selected : Root(c) = g => f <= c

\* The references of the entries before the index name the first of their group.
Regrouping ==
    /\ \A a \in Files : a >= i => Group(a) = Root(a)
    /\ \A g \in Files :
          IF canonical[g] # 0 THEN IsFirst(canonical[g], g)
          ELSE \A c \in selected : c < i => Root(c) # g
    /\ \A a \in selected : a < i =>
          link[a] = IF canonical[Root(a)] = a THEN 0 ELSE canonical[Root(a)]

Regrouped ==
    \A a \in selected : \E f \in selected : IsFirst(f, Root(a)) /\ link[a] = IF f = a THEN 0 ELSE f

GroupInv ==
    /\ InputHolds
    /\ pc = "transported" => link = kept /\ canonical = [f \in Files |-> 0]
    /\ pc = "assign" => Assigning
    /\ pc \in {"assigned", "select"} => \A a \in Files : Assigned(a)
    /\ pc = "rebase" => Regrouping
    /\ pc \in {"rebased", "done"} => Regrouped

\* The second validation rejects a reference to a file that is itself a later link,
\* so that what it accepts is grouped by the inode of the original.
LEMMA GroupIsRoot ==
  ASSUME TypeOK, InputHolds, RelationsHold, selected = Files, \A a \in Files : Assigned(a)
  PROVE  \A a \in Files : Group(a) = Root(a)
<1> SUFFICES ASSUME NEW a \in Files PROVE Group(a) = Root(a)
  OBVIOUS
<1>0. /\ ino[a] \in Files /\ kept[a] \in 0..N /\ Assigned(a) /\ RelationHolds(a)
      /\ \A b \in Files : b # 0
  BY DEF TypeOK, RelationsHold, Files
<1>1. CASE kept[a] = 0
  BY <1>0, <1>1 DEF Group, Root, Original, Assigned
<1>2. CASE kept[a] # 0
  <2>1. link[a] = kept[a] /\ kept[a] \in Files /\ link[kept[a]] = 0
    BY <1>0, <1>2 DEF Assigned, RelationHolds, Files
  <2>2. Assigned(kept[a]) /\ ino[kept[a]] \in Files /\ ino[kept[a]] # 0
    BY <1>0, <2>1 DEF TypeOK
  <2>3. ino[kept[a]] = kept[a]
    BY <2>1, <2>2 DEF Assigned
  <2> QED BY <1>2, <2>1, <2>3 DEF Group, Root, Original
<1> QED BY <1>1, <1>2

\* Before the first validation.
LEMMA InitGroup == Init => GroupInv
  BY DEF Init, GroupInv, InputHolds

\* The validations keep the groups.
LEMMA ValidateGroup ==
  ASSUME Inv, GroupInv,
         \/ Validate("transported", "assign")
         \/ Validate("assigned", "select")
         \/ Validate("rebased", "done")
  PROVE  GroupInv'
<1>1. UNCHANGED <<ino, data, kept, i, canonical, link, selected>>
  BY DEF Validate
<1>2. \/ pc = "transported" /\ pc' \in {"assign", "rejected"}
      \/ pc = "assigned" /\ pc' \in {"select", "rejected"}
      \/ pc = "rebased" /\ pc' \in {"done", "rejected"}
  BY DEF Validate
<1>3. InputHolds' BY <1>1 DEF GroupInv, InputHolds, SharedInode
<1>4. CASE pc = "transported"
  <2>1. i = 1 /\ link = kept /\ canonical = [f \in Files |-> 0] /\ \A a \in Files : ~(a < 1)
    BY <1>4, NAssumption DEF Inv, Settled, GroupInv, Files
  <2>2. Assigning' BY <1>1, <2>1 DEF Assigning
  <2> QED BY <1>2, <1>3, <1>4, <2>2 DEF GroupInv
<1>5. CASE pc = "assigned"
  <2>1. (\A a \in Files : Assigned(a))' BY <1>1, <1>5 DEF GroupInv, Assigned
  <2> QED BY <1>2, <1>3, <1>5, <2>1 DEF GroupInv
<1>6. CASE pc = "rebased"
  <2>1. Regrouped' BY <1>1, <1>6 DEF GroupInv, Regrouped, IsFirst, Root, Original
  <2> QED BY <1>2, <1>3, <1>6, <2>1 DEF GroupInv
<1> QED BY <1>2, <1>4, <1>5, <1>6

\* An iteration of assignHardlinks gives the entry at the index the group of its
\* inode's first file.
LEMMA AssignGroup ==
  ASSUME Inv, GroupInv, AssignNext
  PROVE  GroupInv'
<1>1. pc = "assign" /\ UNCHANGED <<ino, data, kept, selected>> /\ Continue("assigned")
  BY DEF AssignNext
<1>2. TypeOK /\ InputHolds /\ Assigning BY <1>1 DEF Inv, GroupInv
<1>3. /\ i \in Files /\ ino[i] \in Files /\ ino[i] <= i /\ ino[ino[i]] = ino[i] /\ kept[ino[i]] = kept[i]
      /\ link[i] = kept[i] /\ kept[i] \in 0..N
  BY <1>2 DEF TypeOK, InputHolds, SharedInode, Assigning, Files
<1>4. \A a \in Files : a # 0 BY DEF Files
<1>5. /\ \A a \in Files : a # i => link'[a] = link[a]
      /\ link'[i] = IF kept[i] # 0 \/ ino[i] = i THEN kept[i] ELSE ino[i]
      /\ \A g \in Files : g # i => canonical'[g] = canonical[g]
      /\ canonical'[i] = IF ino[i] = i THEN Original(i) ELSE 0
  <2>0. canonical[i] = 0 BY <1>2, <1>3 DEF Assigning, Files
  <2>1. CASE ino[i] = i
    <3>1. link' = link /\ canonical' = [canonical EXCEPT ![i] = IF link[i] # 0 THEN link[i] ELSE i]
      BY <2>0, <2>1 DEF AssignNext
    <3> QED BY <1>2, <1>3, <2>1, <3>1 DEF TypeOK, Original
  <2>2. CASE ino[i] # i
    <3>1. ino[i] < i BY <1>3, <2>2 DEF Files
    <3>2. canonical[ino[i]] = Original(ino[i]) BY <1>2, <1>3, <3>1 DEF Assigning
    <3>3. Original(ino[i]) = IF kept[i] # 0 THEN kept[i] ELSE ino[i] BY <1>3 DEF Original
    <3>4. canonical[ino[i]] # 0 BY <1>3, <1>4, <3>2, <3>3
    <3>5. link' = [link EXCEPT ![i] = canonical[ino[i]]] /\ canonical' = canonical
      BY <3>4 DEF AssignNext
    <3> QED BY <1>2, <1>3, <2>0, <2>2, <3>2, <3>3, <3>5 DEF TypeOK
  <2> QED BY <2>1, <2>2
<1>6. \A a \in Files : a <= i => Assigned(a)'
  <2> SUFFICES ASSUME NEW a \in Files, a <= i PROVE Assigned(a)'
    OBVIOUS
  <2>1. CASE a = i BY <1>1, <1>5, <2>1 DEF Assigned
  <2>2. CASE a # i
    <3>1. a < i BY <1>3, <2>2 DEF Files
    <3>2. Assigned(a) BY <1>2, <3>1 DEF Assigning
    <3> QED BY <1>1, <1>5, <2>2, <3>2 DEF Assigned
  <2> QED BY <2>1, <2>2
<1>7. InputHolds' BY <1>1, <1>2 DEF InputHolds, SharedInode
<1>8. CASE i < N
  <2>1. i' = i + 1 /\ pc' = "assign" BY <1>1, <1>8 DEF Continue
  <2>2. ASSUME NEW a \in Files PROVE (IF a < i THEN Assigned(a) ELSE link[a] = kept[a])'
    <3>1. CASE a <= i
      <4>1. a < i + 1 BY <1>3, <3>1 DEF Files
      <4> QED BY <1>6, <2>1, <3>1, <4>1
    <3>2. CASE ~(a <= i)
      <4>1. ~(a < i + 1) /\ ~(a < i) /\ a # i BY <1>3, <3>2 DEF Files
      <4>2. link[a] = kept[a] BY <1>2, <4>1 DEF Assigning
      <4> QED BY <1>1, <1>5, <2>1, <4>1, <4>2
    <3> QED BY <3>1, <3>2
  <2>3. ASSUME NEW g \in Files
        PROVE  canonical'[g] = IF g < i + 1 /\ ino[g] = g THEN Original(g) ELSE 0
    <3>1. CASE g = i
      <4>1. i < i + 1 BY <1>3 DEF Files
      <4> QED BY <1>5, <3>1, <4>1
    <3>2. CASE g # i
      <4>1. (g < i + 1) <=> (g < i) BY <1>3, <3>2 DEF Files
      <4>2. canonical[g] = IF g < i /\ ino[g] = g THEN Original(g) ELSE 0 BY <1>2 DEF Assigning
      <4> QED BY <1>5, <3>2, <4>1, <4>2
    <3> QED BY <3>1, <3>2
  <2>4. Assigning' BY <1>1, <2>1, <2>2, <2>3 DEF Assigning, Original
  <2> QED BY <1>7, <2>1, <2>4 DEF GroupInv
<1>9. CASE ~(i < N)
  <2>1. pc' = "assigned" BY <1>1, <1>9 DEF Continue
  <2>2. \A a \in Files : a <= i BY <1>3, <1>9, NAssumption DEF Files
  <2>3. (\A a \in Files : Assigned(a))' BY <1>6, <2>2
  <2> QED BY <1>7, <2>1, <2>3 DEF GroupInv
<1> QED BY <1>8, <1>9

\* selectEntries starts the rebase with the groups of the validated references.
LEMMA SelectGroup ==
  ASSUME Inv, GroupInv, NEW entries \in SUBSET Files, Select(entries)
  PROVE  GroupInv'
<1>1. /\ pc = "select" /\ pc' = "rebase" /\ selected' = entries
      /\ canonical' = [f \in Files |-> 0]
      /\ UNCHANGED <<ino, data, kept, i, link>>
  BY DEF Select
<1>2. /\ TypeOK /\ InputHolds /\ i = 1 /\ selected = Files /\ RelationsHold
      /\ \A a \in Files : Assigned(a)
  BY <1>1 DEF Inv, Settled, GroupInv
<1>3. \A a \in Files : Group(a) = Root(a) BY <1>2, GroupIsRoot
<1>4. \A c \in entries : ~(c < 1) BY DEF Files
<1>5. Regrouping' BY <1>1, <1>2, <1>3, <1>4 DEF Regrouping, Group, Root, Original
<1>6. InputHolds' BY <1>1, <1>2 DEF InputHolds, SharedInode
<1> QED BY <1>1, <1>5, <1>6 DEF GroupInv

\* One iteration of rebaseHardlinks names the first member of the entry's group.
LEMMA RebaseGroup ==
  ASSUME Inv, GroupInv, RebaseNext
  PROVE  GroupInv'
<1>1. pc = "rebase" /\ UNCHANGED <<ino, data, kept, selected>> /\ Continue("rebased")
  BY DEF RebaseNext
<1>2. TypeOK /\ InputHolds /\ Regrouping BY <1>1 DEF Inv, GroupInv
<1>3. i \in Files /\ Group(i) = Root(i)
  BY <1>2 DEF TypeOK, Regrouping, Files
<1>4. \A a \in Files : Root(a) \in Files /\ Root(a)' = Root(a)
  <2> SUFFICES ASSUME NEW a \in Files PROVE Root(a) \in Files /\ Root(a)' = Root(a)
    OBVIOUS
  <2>1. Original(a) \in Files BY <1>2 DEF TypeOK, Original, Files
  <2> QED BY <1>1, <1>2, <2>1 DEF TypeOK, Root, Original
<1>5. \A c \in selected : c \in Files BY <1>2 DEF TypeOK
<1>6. \A f, g : IsFirst(f, g)' <=> IsFirst(f, g)
  BY <1>1, <1>4, <1>5 DEF IsFirst
<1>7. \A a \in Files : a # i => link'[a] = link[a]
  BY <1>2 DEF RebaseNext, TypeOK
<1>8. \A g \in Files : IF canonical'[g] # 0 THEN IsFirst(canonical'[g], g)
                       ELSE \A c \in selected : c <= i => Root(c) # g
  <2> SUFFICES ASSUME NEW g \in Files
               PROVE  IF canonical'[g] # 0 THEN IsFirst(canonical'[g], g)
                      ELSE \A c \in selected : c <= i => Root(c) # g
    OBVIOUS
  <2>1. IF canonical[g] # 0 THEN IsFirst(canonical[g], g)
        ELSE \A c \in selected : c < i => Root(c) # g
    BY <1>2 DEF Regrouping
  <2>2. \A c \in selected : c <= i => c < i \/ c = i BY <1>3, <1>5 DEF Files
  <2>3. CASE i \in selected /\ canonical[Root(i)] = 0 /\ g = Root(i)
    <3>0. canonical' = [canonical EXCEPT ![g] = i] BY <1>3, <2>3 DEF RebaseNext
    <3>1. canonical'[g] = i /\ i # 0 BY <1>2, <1>3, <3>0 DEF TypeOK, Files
    <3>2. \A c \in selected : Root(c) = g => i <= c
      BY <1>3, <1>5, <2>1, <2>3 DEF Files
    <3> QED BY <2>3, <3>1, <3>2 DEF IsFirst
  <2>4. CASE i \in selected /\ canonical[Root(i)] = 0 /\ g # Root(i)
    <3>1. canonical'[g] = canonical[g] BY <1>2, <1>3, <2>4 DEF RebaseNext, TypeOK
    <3> QED BY <2>1, <2>2, <2>4, <3>1
  <2>5. CASE i \in selected /\ canonical[Root(i)] # 0
    <3>1. canonical' = canonical BY <1>3, <2>5 DEF RebaseNext
    <3> QED BY <2>1, <2>2, <2>5, <3>1
  <2>6. CASE i \notin selected
    <3>1. canonical' = canonical BY <2>6 DEF RebaseNext
    <3> QED BY <2>1, <2>2, <2>6, <3>1
  <2> QED BY <2>3, <2>4, <2>5, <2>6
<1>9. \A a \in selected : a <= i =>
          link'[a] = IF canonical'[Root(a)] = a THEN 0 ELSE canonical'[Root(a)]
  <2> SUFFICES ASSUME NEW a \in selected, a <= i
               PROVE  link'[a] = IF canonical'[Root(a)] = a THEN 0 ELSE canonical'[Root(a)]
    OBVIOUS
  <2>1. a \in Files /\ Root(a) \in Files BY <1>4, <1>5
  <2>2. CASE a = i /\ canonical[Root(i)] = 0
    BY <1>2, <1>3, <1>4, <2>2 DEF RebaseNext, TypeOK
  <2>3. CASE a = i /\ canonical[Root(i)] # 0
    <3>1. canonical' = canonical /\ link' = [link EXCEPT ![i] = canonical[Root(i)]]
      BY <1>3, <2>3 DEF RebaseNext
    <3>2. link'[i] = canonical[Root(i)] BY <1>2, <1>3, <3>1 DEF TypeOK
    <3>3. canonical[Root(i)] # i
      BY <1>1, <1>2, <1>3, <1>4, <2>3 DEF Inv, Rebasing, MapIsValid, Files
    <3> QED BY <2>3, <3>1, <3>2, <3>3
  <2>4. CASE a # i
    <3>1. a < i BY <1>3, <2>1, <2>4 DEF Files
    <3>2. link[a] = IF canonical[Root(a)] = a THEN 0 ELSE canonical[Root(a)]
      BY <1>2, <3>1 DEF Regrouping
    <3>3. canonical[Root(a)] # 0 BY <1>2, <2>1, <3>1 DEF Regrouping
    <3>4. canonical'[Root(a)] = canonical[Root(a)]
      <4>1. CASE canonical' = canonical BY <4>1
      <4>2. CASE canonical[Root(i)] = 0 /\ canonical' = [canonical EXCEPT ![Root(i)] = i]
        BY <1>2, <2>1, <3>3, <4>2 DEF TypeOK
      <4> QED BY <1>3, <4>1, <4>2 DEF RebaseNext
    <3> QED BY <1>7, <2>1, <2>4, <3>2, <3>4
  <2> QED BY <2>2, <2>3, <2>4
<1>10. InputHolds' BY <1>1, <1>2 DEF InputHolds, SharedInode
<1>11. CASE i < N
  <2>1. i' = i + 1 /\ pc' = "rebase" BY <1>1, <1>11 DEF Continue
  <2>2. \A a \in Files : (a < i + 1) <=> (a <= i) BY <1>3 DEF Files
  <2>3. (\A a \in Files : a >= i => Group(a) = Root(a))'
    <3> SUFFICES ASSUME NEW a \in Files, a >= i + 1 PROVE Group(a)' = Root(a)'
      BY <2>1
    <3>1. a >= i /\ a # i BY <1>3 DEF Files
    <3>2. Group(a) = Root(a) BY <1>2, <3>1 DEF Regrouping
    <3> QED BY <1>4, <1>7, <3>1, <3>2 DEF Group
  <2>4. (\A g \in Files : IF canonical[g] # 0 THEN IsFirst(canonical[g], g)
                          ELSE \A c \in selected : c < i => Root(c) # g)'
    <3> SUFFICES ASSUME NEW g \in Files
                 PROVE  (IF canonical[g] # 0 THEN IsFirst(canonical[g], g)
                         ELSE \A c \in selected : c < i => Root(c) # g)'
      OBVIOUS
    <3>1. CASE canonical'[g] # 0
      <4>1. IsFirst(canonical'[g], g) BY <1>8, <3>1
      <4>2. IsFirst(canonical[g], g)' BY <1>1, <1>4, <1>5, <4>1 DEF IsFirst
      <4> QED BY <3>1, <4>2
    <3>2. CASE canonical'[g] = 0 BY <1>1, <1>4, <1>5, <1>8, <2>1, <2>2, <3>2
    <3> QED BY <3>1, <3>2
  <2>5. (\A a \in selected : a < i =>
             link[a] = IF canonical[Root(a)] = a THEN 0 ELSE canonical[Root(a)])'
    BY <1>1, <1>4, <1>5, <1>9, <2>1, <2>2
  <2>6. Regrouping' BY <2>3, <2>4, <2>5 DEF Regrouping
  <2> QED BY <1>10, <2>1, <2>6 DEF GroupInv
<1>12. CASE ~(i < N)
  <2>1. pc' = "rebased" BY <1>1, <1>12 DEF Continue
  <2>2. \A a \in Files : a <= i BY <1>3, <1>12, NAssumption DEF Files
  <2>3. ASSUME NEW a \in selected
        PROVE  \E f \in selected : IsFirst(f, Root(a)) /\ link'[a] = IF f = a THEN 0 ELSE f
    <3>1. canonical'[Root(a)] # 0 BY <1>4, <1>5, <1>8, <2>2
    <3>2. IsFirst(canonical'[Root(a)], Root(a)) BY <1>4, <1>5, <1>8, <3>1
    <3>3. canonical'[Root(a)] \in selected BY <3>2 DEF IsFirst
    <3> QED BY <1>5, <1>9, <2>2, <3>2, <3>3
  <2>4. Regrouped' BY <1>1, <1>4, <1>5, <1>6, <2>3 DEF Regrouped
  <2> QED BY <1>10, <2>1, <2>4 DEF GroupInv
<1> QED BY <1>11, <1>12

\* The groups hold together over the whole of snapshotDir.
THEOREM GroupInvHolds == Spec => []GroupInv
<1>1. Init => GroupInv BY InitGroup
<1>2. Inv /\ GroupInv /\ [Next]_vars => GroupInv'
  <2> SUFFICES ASSUME Inv, GroupInv, [Next]_vars PROVE GroupInv'
    OBVIOUS
  <2>1. CASE \/ Validate("transported", "assign")
             \/ Validate("assigned", "select")
             \/ Validate("rebased", "done")
    BY <2>1, ValidateGroup
  <2>2. CASE AssignNext BY <2>2, AssignGroup
  <2>3. ASSUME NEW entries \in SUBSET Files, Select(entries) PROVE GroupInv'
    BY <2>3, SelectGroup
  <2>4. CASE RebaseNext BY <2>4, RebaseGroup
  <2>5. CASE UNCHANGED vars
    BY <2>5 DEF vars, GroupInv, InputHolds, SharedInode, Assigning, Assigned, Regrouping,
                Regrouped, IsFirst, Root, Original, Group
  <2> QED BY <2>1, <2>2, <2>3, <2>4, <2>5 DEF Next, Stopped
<1> QED BY <1>1, <1>2, InvHolds, PTL DEF Spec

\* For every number of files, every sharing of inodes, every kept references and
\* every filter, snapshotDir neither splits nor joins hard-link groups, and each
\* group refers to its first included member.
THEOREM GroupsStayTogether == Spec => []GroupsKept
<1>1. Inv /\ GroupInv => GroupsKept
  <2> SUFFICES ASSUME Inv, GroupInv, pc = "done", NEW a \in selected
               PROVE  LET first == CHOOSE b \in selected :
                                     Together(a, b) /\ \A c \in selected : Together(a, c) => b <= c
                      IN  link[a] = IF first = a THEN 0 ELSE first
    BY DEF GroupsKept
  <2>1. PICK f \in selected : IsFirst(f, Root(a)) /\ link[a] = IF f = a THEN 0 ELSE f
    BY DEF GroupInv, Regrouped
  <2>2. \A b \in selected : b \in Nat BY DEF Inv, TypeOK, Files
  <2>3. \A b : Together(a, b) <=> Root(b) = Root(a) BY DEF Together, Root
  <2> DEFINE First(b) == Together(a, b) /\ \A c \in selected : Together(a, c) => b <= c
             first == CHOOSE b \in selected : First(b)
  <2>4. First(f) BY <2>1, <2>3 DEF IsFirst
  <2>5. first \in selected /\ First(first) BY <2>4
  <2>6. first = f
    <3>1. f <= first /\ first <= f BY <2>1, <2>4, <2>5
    <3> QED BY <2>1, <2>2, <2>5, <3>1
  <2> QED BY <2>1, <2>6
<1> QED BY <1>1, InvHolds, GroupInvHolds, PTL
=============================================================================
