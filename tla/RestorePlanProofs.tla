-------------------------- MODULE RestorePlanProofs --------------------------
(***************************************************************************)
(* Proofs about the restore plan, for any records and any capabilities:    *)
(* the port, which plans one family after another, plans what the          *)
(* reference plans or refuses what it refuses, and loses no part silently. *)
(***************************************************************************)
EXTENDS EntryMetadata, TLAPS

Acts(applied, kept) == {Native(n) : n \in applied} \cup {Sidecar(n) : n \in Range(kept)}

\* What may be kept.
Parts == {"raw", "native", "portable", "btime", "flags", "info", "holes", "hardlink"}

\* What the reference keeps of the families that come before one.
KeptXattrs(m, c) == KeptIf(RawBad(m, c), "raw")
KeptPortable(m, c) == KeptIf(m.aces # <<>> /\ ~NativeHere(m, c) /\ "portable" \notin c.able, "portable")
KeptAcl(m, c) == KeptXattrs(m, c) \o KeptIf(NativeElsewhere(m, c), "native") \o KeptPortable(m, c)
KeptOf(m, c, i) == KeptIf(Simple(m)[i].here /\ Simple(m)[i].name \notin c.able, Simple(m)[i].name)
KeptBtime(m, c) == KeptAcl(m, c) \o KeptOf(m, c, 1)
KeptFlags(m, c) == KeptBtime(m, c) \o KeptOf(m, c, 2)
KeptInfo(m, c) == KeptFlags(m, c) \o KeptOf(m, c, 3)
KeptHoles(m, c) == KeptInfo(m, c) \o KeptOf(m, c, 4)

\* What a plan p holds once the families with these names have been planned.
Holds(p, m, c, names, kept) ==
    /\ p.actions = Acts(Applied(m, c) \cap names, kept)
    /\ p.compromises = kept

Possible(m, c, kept) == "transport" \in c.able \/ (~Logical(m) /\ kept = <<>>)

UpToXattrs == {"logical", "raw"}
Acls == {"native", "portable"}
UpToAcl == UpToXattrs \cup Acls
UpToTimes == UpToAcl \cup {"times"}
UpToBtime == UpToTimes \cup {"btime"}
UpToFlags == UpToBtime \cup {"flags"}
UpToInfo == UpToFlags \cup {"info"}
UpToHoles == UpToInfo \cup {"holes"}
UpToAll == UpToHoles \cup {"hardlink"}

\* A plan that has come as far as its next family.
SoFar(p, m, c) ==
    /\ p.next = "xattrs" => Holds(p, m, c, {}, <<>>)
    /\ p.next = "acl" => Holds(p, m, c, UpToXattrs, KeptXattrs(m, c)) /\ Possible(m, c, KeptXattrs(m, c))
    /\ p.next = "times" => Holds(p, m, c, UpToAcl, KeptAcl(m, c)) /\ Possible(m, c, KeptAcl(m, c))
    /\ p.next = "btime" => Holds(p, m, c, UpToTimes, KeptAcl(m, c)) /\ Possible(m, c, KeptAcl(m, c))
    /\ p.next = "flags" => Holds(p, m, c, UpToBtime, KeptBtime(m, c)) /\ Possible(m, c, KeptBtime(m, c))
    /\ p.next = "info" => Holds(p, m, c, UpToFlags, KeptFlags(m, c)) /\ Possible(m, c, KeptFlags(m, c))
    /\ p.next = "holes" => Holds(p, m, c, UpToInfo, KeptInfo(m, c)) /\ Possible(m, c, KeptInfo(m, c))
    /\ p.next = "hardlink" => Holds(p, m, c, UpToHoles, KeptHoles(m, c)) /\ Possible(m, c, KeptHoles(m, c))
    /\ p.next = "done" => Holds(p, m, c, UpToAll, Kept(m, c)) /\ Possible(m, c, Kept(m, c))

\* The inductive invariant: a plan holds what the reference plans for the families
\* before its next one, and was given up only where the reference gives up.
PlanInv ==
    /\ caps = NoCaps => pc \notin {"plan", "planned"}
    /\ caps # NoCaps =>
          /\ pc \in {"plan", "planned", "failed"}
          /\ pc = "failed" => PlanRestore(meta, caps).impossible
          /\ pc = "planned" => plan.next = "done"
          /\ pc # "failed" => SoFar(plan, meta, caps)

-----------------------------------------------------------------------------
(* Lists of what is kept.                                                  *)

LEMMA RangeOfOne ==
    ASSUME NEW name \in Parts
    PROVE  Range(<<name>>) = {name} /\ Range(<<>>) = {}
  <1>1. DOMAIN <<name>> = {1} /\ <<name>>[1] = name
    OBVIOUS
  <1>2. ASSUME NEW f, DOMAIN f = {1}, f[1] = name PROVE Range(f) = {name}
    BY <1>2 DEF Range
  <1>3. Range(<<name>>) = {name}
    BY <1>1, <1>2, Zenon
  <1>4. Range(<<>>) = {}
    BY DEF Range
  <1>q. QED
    BY <1>3, <1>4

LEMMA OfOne ==
    ASSUME NEW name \in Parts
    PROVE  <<name>> \in Seq(Parts) /\ Len(<<name>>) = 1 /\ Len(<<name>>) <= 1 /\ <<name>> # <<>>
  <1>1. ASSUME NEW S, NEW x \in S PROVE <<x>> \in Seq(S)
    OBVIOUS
  <1>2. Len(<<name>>) = 1 /\ Len(<<name>>) <= 1
    OBVIOUS
  <1>3. <<name>> \in Seq(Parts)
    BY <1>1, Zenon
  <1>4. <<name>> # <<>>
    OBVIOUS
  <1>q. QED
    BY <1>2, <1>3, <1>4, Zenon

LEMMA KeptIfIs ==
    ASSUME NEW here \in BOOLEAN, NEW name \in Parts
    PROVE  /\ KeptIf(here, name) \in Seq(Parts)
           /\ Len(KeptIf(here, name)) <= 1
           /\ Range(KeptIf(here, name)) = (IF here THEN {name} ELSE {})
           /\ KeptIf(here, name) = <<>> <=> ~here
  <1>1. CASE here
    <2>1. KeptIf(here, name) = <<name>>
      BY <1>1 DEF KeptIf
    <2>q. QED
      BY <1>1, <2>1, OfOne, RangeOfOne, Zenon
  <1>2. CASE ~here
    <2>1. KeptIf(here, name) = <<>>
      BY <1>2 DEF KeptIf
    <2>2. <<>> \in Seq(Parts) /\ Len(<<>>) <= 1
      OBVIOUS
    <2>q. QED
      BY <1>2, <2>1, <2>2, RangeOfOne
  <1>q. QED
    BY <1>1, <1>2

LEMMA RangeConcat ==
    ASSUME NEW j \in Seq(Parts), NEW k \in Seq(Parts)
    PROVE  /\ j \o k \in Seq(Parts)
           /\ Range(j \o k) = Range(j) \cup Range(k)
           /\ Len(j \o k) = Len(j) + Len(k)
           /\ j \o k = <<>> <=> j = <<>> /\ k = <<>>
  <1>1. j \o k \in Seq(Parts) /\ Len(j \o k) = Len(j) + Len(k) /\ Len(j) \in Nat /\ Len(k) \in Nat
    OBVIOUS
  <1>2. ASSUME NEW x PROVE x \in Range(j \o k) <=> x \in Range(j) \cup Range(k)
    <2>1. ASSUME x \in Range(j \o k) PROVE x \in Range(j) \cup Range(k)
      <3>1. PICK i \in 1..(Len(j) + Len(k)) : (j \o k)[i] = x
        BY <1>1, <2>1 DEF Range
      <3>2. CASE i <= Len(j)
        BY <3>1, <3>2 DEF Range
      <3>3. CASE i > Len(j)
        BY <3>1, <3>3, i - Len(j) \in 1..Len(k), (j \o k)[i] = k[i - Len(j)] DEF Range
      <3>q. QED
        BY <1>1, <3>2, <3>3
    <2>2. ASSUME x \in Range(j) PROVE x \in Range(j \o k)
      BY <2>2, <1>1 DEF Range
    <2>3. ASSUME x \in Range(k) PROVE x \in Range(j \o k)
      <3>1. PICK i \in 1..Len(k) : k[i] = x
        BY <1>1, <2>3 DEF Range
      <3>2. i + Len(j) \in 1..(Len(j) + Len(k)) /\ (j \o k)[i + Len(j)] = k[i]
        BY <1>1, <3>1
      <3>q. QED
        BY <1>1, <3>1, <3>2 DEF Range
    <2>q. QED
      BY <2>1, <2>2, <2>3
  <1>3. j \o k = <<>> <=> j = <<>> /\ k = <<>>
    BY <1>1
  <1>q. QED
    BY <1>1, <1>2, <1>3

LEMMA SimpleIs ==
    ASSUME NEW m
    PROVE  /\ Simple(m)[1].name = "btime" /\ (Simple(m)[1].here <=> m.btime # {})
           /\ Simple(m)[2].name = "flags" /\ (Simple(m)[2].here <=> m.flags # 0)
           /\ Simple(m)[3].name = "info" /\ (Simple(m)[3].here <=> m.info # {})
           /\ Simple(m)[4].name = "holes" /\ (Simple(m)[4].here <=> m.holes # <<>>)
           /\ Simple(m)[5].name = "hardlink" /\ (Simple(m)[5].here <=> m.link # {})
           /\ Range(Simple(m)) = {Simple(m)[1], Simple(m)[2], Simple(m)[3], Simple(m)[4], Simple(m)[5]}
  <1>1. DOMAIN Simple(m) = 1..5
    BY DEF Simple
  <1>2. 1..5 = {1, 2, 3, 4, 5}
    OBVIOUS
  <1>3. Range(Simple(m)) = {Simple(m)[1], Simple(m)[2], Simple(m)[3], Simple(m)[4], Simple(m)[5]}
    BY <1>1, <1>2 DEF Range
  <1>4. Simple(m)[1].name = "btime" /\ (Simple(m)[1].here <=> m.btime # {})
    BY DEF Simple
  <1>5. Simple(m)[2].name = "flags" /\ (Simple(m)[2].here <=> m.flags # 0)
    BY DEF Simple
  <1>6. Simple(m)[3].name = "info" /\ (Simple(m)[3].here <=> m.info # {})
    BY DEF Simple
  <1>7. Simple(m)[4].name = "holes" /\ (Simple(m)[4].here <=> m.holes # <<>>)
    BY DEF Simple
  <1>8. Simple(m)[5].name = "hardlink" /\ (Simple(m)[5].here <=> m.link # {})
    BY DEF Simple
  <1>q. QED
    BY <1>3, <1>4, <1>5, <1>6, <1>7, <1>8

LEMMA XattrsAndAclPieces ==
    ASSUME NEW m, NEW c
    PROVE  /\ KeptXattrs(m, c) \in Seq(Parts) /\ Len(KeptXattrs(m, c)) <= 1
           /\ Range(KeptXattrs(m, c)) = (IF RawBad(m, c) THEN {"raw"} ELSE {})
           /\ KeptXattrs(m, c) = <<>> <=> ~RawBad(m, c)
           /\ KeptIf(NativeElsewhere(m, c), "native") \in Seq(Parts)
           /\ Len(KeptIf(NativeElsewhere(m, c), "native")) <= 1
           /\ Range(KeptIf(NativeElsewhere(m, c), "native")) = (IF NativeElsewhere(m, c) THEN {"native"} ELSE {})
           /\ KeptIf(NativeElsewhere(m, c), "native") = <<>> <=> ~NativeElsewhere(m, c)
           /\ KeptPortable(m, c) \in Seq(Parts) /\ Len(KeptPortable(m, c)) <= 1
           /\ Range(KeptPortable(m, c))
                = (IF m.aces # <<>> /\ ~NativeHere(m, c) /\ "portable" \notin c.able THEN {"portable"} ELSE {})
           /\ KeptPortable(m, c) = <<>> <=> ~(m.aces # <<>> /\ ~NativeHere(m, c) /\ "portable" \notin c.able)
  <1>1. RawBad(m, c) \in BOOLEAN /\ NativeElsewhere(m, c) \in BOOLEAN
    BY DEF RawBad, NativeElsewhere
  <1>2. (m.aces # <<>> /\ ~NativeHere(m, c) /\ "portable" \notin c.able) \in BOOLEAN
    OBVIOUS
  <1>3. "raw" \in Parts /\ "native" \in Parts /\ "portable" \in Parts
    BY DEF Parts
  <1>4. /\ KeptXattrs(m, c) \in Seq(Parts) /\ Len(KeptXattrs(m, c)) <= 1
        /\ Range(KeptXattrs(m, c)) = (IF RawBad(m, c) THEN {"raw"} ELSE {})
        /\ KeptXattrs(m, c) = <<>> <=> ~RawBad(m, c)
    BY <1>1, <1>3, KeptIfIs, Zenon DEF KeptXattrs
  <1>5. /\ KeptIf(NativeElsewhere(m, c), "native") \in Seq(Parts)
        /\ Len(KeptIf(NativeElsewhere(m, c), "native")) <= 1
        /\ Range(KeptIf(NativeElsewhere(m, c), "native")) = (IF NativeElsewhere(m, c) THEN {"native"} ELSE {})
        /\ KeptIf(NativeElsewhere(m, c), "native") = <<>> <=> ~NativeElsewhere(m, c)
    BY <1>1, <1>3, KeptIfIs, Zenon
  <1>6. /\ KeptPortable(m, c) \in Seq(Parts) /\ Len(KeptPortable(m, c)) <= 1
        /\ Range(KeptPortable(m, c))
             = (IF m.aces # <<>> /\ ~NativeHere(m, c) /\ "portable" \notin c.able THEN {"portable"} ELSE {})
        /\ KeptPortable(m, c) = <<>> <=> ~(m.aces # <<>> /\ ~NativeHere(m, c) /\ "portable" \notin c.able)
    BY <1>2, <1>3, KeptIfIs, Zenon DEF KeptPortable
  <1>q. QED
    BY <1>4, <1>5, <1>6, Zenon

LEMMA SimplePieces ==
    ASSUME NEW m, NEW c, NEW i \in 1..5
    PROVE  /\ KeptOf(m, c, i) \in Seq(Parts) /\ Len(KeptOf(m, c, i)) <= 1
           /\ Range(KeptOf(m, c, i))
                = (IF Simple(m)[i].here /\ Simple(m)[i].name \notin c.able THEN {Simple(m)[i].name} ELSE {})
           /\ KeptOf(m, c, i) = <<>> <=> ~(Simple(m)[i].here /\ Simple(m)[i].name \notin c.able)
  <1>1. Simple(m)[i].name \in Parts
    <2>1. i \in {1, 2, 3, 4, 5}
      OBVIOUS
    <2>q. QED
      BY <2>1, SimpleIs, Zenon DEF Parts
  <1>2. (Simple(m)[i].here /\ Simple(m)[i].name \notin c.able) \in BOOLEAN
    OBVIOUS
  <1>q. QED
    BY <1>1, <1>2, KeptIfIs, Zenon DEF KeptOf

\* There is room for all that is kept, and what comes first stays a part of it.
LEMMA KeptSizes ==
    ASSUME NEW m, NEW c
    PROVE  /\ KeptAcl(m, c) \in Seq(Parts) /\ Len(KeptAcl(m, c)) <= 3
           /\ KeptBtime(m, c) \in Seq(Parts) /\ Len(KeptBtime(m, c)) <= 4
           /\ KeptFlags(m, c) \in Seq(Parts) /\ Len(KeptFlags(m, c)) <= 5
           /\ KeptInfo(m, c) \in Seq(Parts) /\ Len(KeptInfo(m, c)) <= 6
           /\ KeptHoles(m, c) \in Seq(Parts) /\ Len(KeptHoles(m, c)) <= 7
           /\ Kept(m, c) = KeptHoles(m, c) \o KeptOf(m, c, 5)
           /\ Kept(m, c) \in Seq(Parts) /\ Len(Kept(m, c)) <= 8
  <1>1. ASSUME NEW j \in Seq(Parts), NEW k \in Seq(Parts), NEW n \in Nat, Len(j) <= n, Len(k) <= 1
        PROVE  j \o k \in Seq(Parts) /\ Len(j \o k) <= n + 1
    BY <1>1
  <1>2. KeptAcl(m, c) \in Seq(Parts) /\ Len(KeptAcl(m, c)) <= 3
    <2> DEFINE first == KeptXattrs(m, c) \o KeptIf(NativeElsewhere(m, c), "native")
    <2>1. first \in Seq(Parts) /\ Len(first) <= 1 + 1
      BY XattrsAndAclPieces, <1>1
    <2>2. KeptAcl(m, c) = first \o KeptPortable(m, c)
      BY DEF KeptAcl
    <2> HIDE DEF first
    <2>3. KeptAcl(m, c) \in Seq(Parts) /\ Len(KeptAcl(m, c)) <= 2 + 1
      BY <2>1, <2>2, XattrsAndAclPieces, <1>1
    <2>q. QED
      BY <2>3
  <1>3. KeptBtime(m, c) \in Seq(Parts) /\ Len(KeptBtime(m, c)) <= 3 + 1
    BY <1>2, <1>1, SimplePieces DEF KeptBtime
  <1>4. KeptFlags(m, c) \in Seq(Parts) /\ Len(KeptFlags(m, c)) <= 4 + 1
    BY <1>3, <1>1, SimplePieces DEF KeptFlags
  <1>5. KeptInfo(m, c) \in Seq(Parts) /\ Len(KeptInfo(m, c)) <= 5 + 1
    BY <1>4, <1>1, SimplePieces DEF KeptInfo
  <1>6. KeptHoles(m, c) \in Seq(Parts) /\ Len(KeptHoles(m, c)) <= 6 + 1
    BY <1>5, <1>1, SimplePieces DEF KeptHoles
  <1>7. Kept(m, c) = KeptHoles(m, c) \o KeptOf(m, c, 5)
    BY Zenon DEF Kept, KeptHoles, KeptInfo, KeptFlags, KeptBtime, KeptAcl, KeptXattrs, KeptPortable, KeptOf
  <1>8. Kept(m, c) \in Seq(Parts) /\ Len(Kept(m, c)) <= 7 + 1
    BY <1>6, <1>7, <1>1, SimplePieces
  <1>q. QED
    BY <1>2, <1>3, <1>4, <1>5, <1>6, <1>7, <1>8

\* What is kept, as a set, and when there is something before each family.
LEMMA KeptRange ==
    ASSUME NEW m, NEW c
    PROVE  Range(Kept(m, c)) = Range(KeptXattrs(m, c)) \cup Range(KeptIf(NativeElsewhere(m, c), "native"))
                               \cup Range(KeptPortable(m, c)) \cup Range(KeptOf(m, c, 1)) \cup Range(KeptOf(m, c, 2))
                               \cup Range(KeptOf(m, c, 3)) \cup Range(KeptOf(m, c, 4)) \cup Range(KeptOf(m, c, 5))
  <1>1. /\ KeptOf(m, c, 1) \in Seq(Parts) /\ KeptOf(m, c, 2) \in Seq(Parts) /\ KeptOf(m, c, 3) \in Seq(Parts)
        /\ KeptOf(m, c, 4) \in Seq(Parts) /\ KeptOf(m, c, 5) \in Seq(Parts)
    BY SimplePieces
  <1>2. Range(KeptAcl(m, c)) = Range(KeptXattrs(m, c)) \cup Range(KeptIf(NativeElsewhere(m, c), "native"))
                               \cup Range(KeptPortable(m, c))
    <2>1. KeptXattrs(m, c) \in Seq(Parts) /\ KeptIf(NativeElsewhere(m, c), "native") \in Seq(Parts)
          /\ KeptPortable(m, c) \in Seq(Parts)
      BY XattrsAndAclPieces, Zenon
    <2>2. /\ KeptXattrs(m, c) \o KeptIf(NativeElsewhere(m, c), "native") \in Seq(Parts)
          /\ Range(KeptXattrs(m, c) \o KeptIf(NativeElsewhere(m, c), "native"))
               = Range(KeptXattrs(m, c)) \cup Range(KeptIf(NativeElsewhere(m, c), "native"))
      BY <2>1, RangeConcat, Zenon
    <2>3. Range(KeptAcl(m, c)) = Range(KeptXattrs(m, c) \o KeptIf(NativeElsewhere(m, c), "native"))
                                 \cup Range(KeptPortable(m, c))
      BY <2>1, <2>2, RangeConcat, Zenon DEF KeptAcl
    <2>q. QED
      BY <2>2, <2>3, Zenon
  <1>3. Range(KeptBtime(m, c)) = Range(KeptAcl(m, c)) \cup Range(KeptOf(m, c, 1))
    BY <1>1, KeptSizes, RangeConcat, Zenon DEF KeptBtime
  <1>4. Range(KeptFlags(m, c)) = Range(KeptBtime(m, c)) \cup Range(KeptOf(m, c, 2))
    BY <1>1, KeptSizes, RangeConcat, Zenon DEF KeptFlags
  <1>5. Range(KeptInfo(m, c)) = Range(KeptFlags(m, c)) \cup Range(KeptOf(m, c, 3))
    BY <1>1, KeptSizes, RangeConcat, Zenon DEF KeptInfo
  <1>6. Range(KeptHoles(m, c)) = Range(KeptInfo(m, c)) \cup Range(KeptOf(m, c, 4))
    BY <1>1, KeptSizes, RangeConcat, Zenon DEF KeptHoles
  <1>7. Range(Kept(m, c)) = Range(KeptHoles(m, c)) \cup Range(KeptOf(m, c, 5))
    BY <1>1, KeptSizes, RangeConcat, Zenon
  <1>q. QED
    BY <1>2, <1>3, <1>4, <1>5, <1>6, <1>7, Zenon

LEMMA NoneKept ==
    ASSUME NEW m, NEW c, Kept(m, c) = <<>>
    PROVE  /\ ~RawBad(m, c) /\ ~NativeElsewhere(m, c)
           /\ ~(m.aces # <<>> /\ ~NativeHere(m, c) /\ "portable" \notin c.able)
           /\ \A i \in 1..5 : ~(Simple(m)[i].here /\ Simple(m)[i].name \notin c.able)
  <1>1. Range(Kept(m, c)) = {}
    BY DEF Range
  <1>2. /\ Range(KeptXattrs(m, c)) = {} /\ Range(KeptIf(NativeElsewhere(m, c), "native")) = {}
        /\ Range(KeptPortable(m, c)) = {}
    BY <1>1, KeptRange, Zenon
  <1>3. ~RawBad(m, c) /\ ~NativeElsewhere(m, c)
    BY <1>2, XattrsAndAclPieces
  <1>4. ~(m.aces # <<>> /\ ~NativeHere(m, c) /\ "portable" \notin c.able)
    BY <1>2, XattrsAndAclPieces
  <1>5. ASSUME NEW i \in 1..5 PROVE ~(Simple(m)[i].here /\ Simple(m)[i].name \notin c.able)
    <2>1. i \in {1, 2, 3, 4, 5}
      OBVIOUS
    <2>2. Range(KeptOf(m, c, i)) \subseteq Range(Kept(m, c))
      BY <2>1, KeptRange, ZenonT(90)
    <2>q. QED
      BY <1>1, <2>2, SimplePieces, Zenon
  <1>q. QED
    BY <1>3, <1>4, <1>5, Zenon

-----------------------------------------------------------------------------
(* What is applied.                                                        *)

LEMMA AppliedIs ==
    ASSUME NEW m, NEW c
    PROVE  /\ "logical" \in Applied(m, c) <=> Logical(m)
           /\ "raw" \in Applied(m, c) <=> RawGood(m, c)
           /\ "native" \in Applied(m, c) <=> NativeHere(m, c)
           /\ "portable" \in Applied(m, c) <=> m.aces # <<>> /\ ~NativeHere(m, c) /\ "portable" \in c.able
           /\ "times" \in Applied(m, c) <=> m.mtime # {} \/ m.atime # {}
           /\ \A i \in 1..5 :
                 Simple(m)[i].name \in Applied(m, c) <=> Simple(m)[i].here /\ Simple(m)[i].name \in c.able
           /\ Applied(m, c) \subseteq UpToAll
  <1>1. /\ "logical" \in Applied(m, c) <=> Logical(m)
        /\ "raw" \in Applied(m, c) <=> RawGood(m, c)
        /\ "native" \in Applied(m, c) <=> NativeHere(m, c)
        /\ "portable" \in Applied(m, c) <=> m.aces # <<>> /\ ~NativeHere(m, c) /\ "portable" \in c.able
        /\ "times" \in Applied(m, c) <=> m.mtime # {} \/ m.atime # {}
    BY DEF Applied
  <1>2. ASSUME NEW n \in {"btime", "flags", "info", "holes", "hardlink"}
        PROVE  n \in Applied(m, c) <=> n \in c.able /\ \E f \in Range(Simple(m)) : f.name = n /\ f.here
    BY DEF Applied
  <1>3. ASSUME NEW i \in 1..5
        PROVE  Simple(m)[i].name \in Applied(m, c) <=> Simple(m)[i].here /\ Simple(m)[i].name \in c.able
    <2>1. i \in {1, 2, 3, 4, 5}
      OBVIOUS
    <2>2. Simple(m)[i].name \in {"btime", "flags", "info", "holes", "hardlink"}
      BY <2>1, SimpleIs
    <2>3. (\E f \in Range(Simple(m)) : f.name = "btime" /\ f.here) <=> Simple(m)[1].here
      BY SimpleIs, Simple(m)[1] \in Range(Simple(m))
    <2>4. (\E f \in Range(Simple(m)) : f.name = "flags" /\ f.here) <=> Simple(m)[2].here
      BY SimpleIs, Simple(m)[2] \in Range(Simple(m))
    <2>5. (\E f \in Range(Simple(m)) : f.name = "info" /\ f.here) <=> Simple(m)[3].here
      BY SimpleIs, Simple(m)[3] \in Range(Simple(m))
    <2>6. (\E f \in Range(Simple(m)) : f.name = "holes" /\ f.here) <=> Simple(m)[4].here
      BY SimpleIs, Simple(m)[4] \in Range(Simple(m))
    <2>7. (\E f \in Range(Simple(m)) : f.name = "hardlink" /\ f.here) <=> Simple(m)[5].here
      BY SimpleIs, Simple(m)[5] \in Range(Simple(m))
    <2>q. QED
      BY <1>2, <2>1, <2>2, <2>3, <2>4, <2>5, <2>6, <2>7, SimpleIs, ZenonT(90)
  <1>4. Applied(m, c) \subseteq UpToAll
    BY DEF Applied, UpToAll, UpToHoles, UpToInfo, UpToFlags, UpToBtime, UpToTimes, UpToAcl, Acls, UpToXattrs
  <1>q. QED
    BY <1>1, <1>3, <1>4, Zenon

-----------------------------------------------------------------------------
(* The port's steps.                                                       *)

\* What is added for one more family is what the reference has for it.
LEMMA Grown ==
    ASSUME NEW names, NEW new, NEW all, NEW native, NEW kept, NEW more, NEW total,
           Holds(plan, meta, caps, names, kept), all = names \cup new, native = Applied(meta, caps) \cap new,
           kept \in Seq(Parts), more \in Seq(Parts), total = kept \o more,
           plan'.actions = plan.actions \cup Acts(native, more), plan'.compromises = plan.compromises \o more
    PROVE  Holds(plan', meta, caps, all, total)
  <1>1. plan.actions = Acts(Applied(meta, caps) \cap names, kept) /\ plan.compromises = kept
    BY Zenon DEF Holds
  <1>2. Applied(meta, caps) \cap all = (Applied(meta, caps) \cap names) \cup native
    OBVIOUS
  <1>3. Range(total) = Range(kept) \cup Range(more)
    BY RangeConcat, Zenon
  <1>4. Acts((Applied(meta, caps) \cap names) \cup native, total)
          = Acts(Applied(meta, caps) \cap names, kept) \cup Acts(native, more)
    BY <1>3, Zenon DEF Acts
  <1>q. QED
    BY <1>1, <1>2, <1>4, Zenon DEF Holds

\* A plan that is given up, or comes to its next family, keeps the invariant.
LEMMA Advanced ==
    ASSUME PlanInv, pc = "plan", meta' = meta, caps' = caps,
           \/ pc' = "failed" /\ PlanRestore(meta, caps).impossible
           \/ pc' = "plan" /\ SoFar(plan', meta, caps)
           \/ pc' = "planned" /\ plan'.next = "done" /\ SoFar(plan', meta, caps)
    PROVE  PlanInv'
  <1>1. caps # NoCaps
    BY DEF PlanInv
  <1>q. QED
    BY <1>1, Zenon DEF PlanInv

LEMMA Refused ==
    ASSUME NEW m, NEW c, "transport" \notin c.able,
           \/ Logical(m) \/ RawBad(m, c) \/ NativeElsewhere(m, c)
           \/ m.aces # <<>> /\ ~NativeHere(m, c) /\ "portable" \notin c.able
           \/ \E i \in 1..5 : Simple(m)[i].here /\ Simple(m)[i].name \notin c.able
    PROVE  PlanRestore(m, c).impossible
  <1>1. Logical(m) \/ Kept(m, c) # <<>>
    BY NoneKept, Zenon
  <1>q. QED
    BY <1>1 DEF PlanRestore

LEMMA XattrsStep ==
    ASSUME PlanInv, PlanXattrs
    PROVE  PlanInv'
  <1> DEFINE native == (IF Logical(meta) THEN {"logical"} ELSE {}) \cup (IF RawGood(meta, caps) THEN {"raw"} ELSE {})
             needed == Logical(meta) \/ RawBad(meta, caps)
  <1>1. /\ pc = "plan" /\ plan.next = "xattrs" /\ meta' = meta /\ caps' = caps
        /\ Extend(native, KeptXattrs(meta, caps), needed, "acl")
    BY Zenon DEF PlanXattrs, MetaUnchanged, KeptXattrs, KeptIf
  <1>2. Holds(plan, meta, caps, {}, <<>>)
    BY <1>1 DEF PlanInv, SoFar
  <1>3. native = Applied(meta, caps) \cap UpToXattrs
    BY AppliedIs DEF UpToXattrs
  <1>4. needed \in BOOLEAN
    BY DEF Logical, RawBad
  <1>5. /\ KeptXattrs(meta, caps) \in Seq(Parts) /\ Len(KeptXattrs(meta, caps)) <= 1
        /\ KeptXattrs(meta, caps) = <<>> <=> ~RawBad(meta, caps)
    BY XattrsAndAclPieces, Zenon
  <1>6. /\ <<>> \in Seq(Parts) /\ Len(<<>>) + Len(KeptXattrs(meta, caps)) <= 8
        /\ KeptXattrs(meta, caps) = <<>> \o KeptXattrs(meta, caps) /\ UpToXattrs = {} \cup UpToXattrs
    BY <1>5
  <1> HIDE DEF native
  <1>7. \/ pc' = "failed" /\ needed /\ "transport" \notin caps.able
        \/ /\ ~needed \/ "transport" \in caps.able
           /\ pc' = "plan" /\ plan'.next = "acl"
           /\ Holds(plan', meta, caps, UpToXattrs, KeptXattrs(meta, caps))
    <2>1. plan.compromises \in Seq(Parts) /\ Len(plan.compromises) + Len(KeptXattrs(meta, caps)) <= 8
      BY <1>2, <1>6, Zenon DEF Holds
    <2>2. \/ pc' = "failed" /\ needed /\ "transport" \notin caps.able
          \/ /\ ~needed \/ "transport" \in caps.able
             /\ pc' = "plan" /\ plan'.next = "acl"
             /\ plan'.actions = plan.actions \cup Acts(native, KeptXattrs(meta, caps))
             /\ plan'.compromises = plan.compromises \o KeptXattrs(meta, caps)
      BY <1>1, <1>4, <1>5, <2>1, RoomAssumption DEF Extend, Acts
    <2>q. QED
      BY <1>2, <1>3, <1>5, <1>6, <2>2, Grown, Zenon
  <1>8. CASE pc' = "failed" /\ needed /\ "transport" \notin caps.able
    <2>1. PlanRestore(meta, caps).impossible
      BY <1>8, Refused, Zenon
    <2>q. QED
      BY <1>1, <1>8, <2>1, Advanced, Zenon
  <1>9. CASE /\ ~needed \/ "transport" \in caps.able
             /\ pc' = "plan" /\ plan'.next = "acl"
             /\ Holds(plan', meta, caps, UpToXattrs, KeptXattrs(meta, caps))
    <2>1. Possible(meta, caps, KeptXattrs(meta, caps))
      BY <1>5, <1>9, Zenon DEF Possible
    <2>2. SoFar(plan', meta, caps)
      BY <1>9, <2>1 DEF SoFar
    <2>q. QED
      BY <1>1, <1>9, <2>2, Advanced, Zenon
  <1>q. QED
    BY <1>7, <1>8, <1>9

\* What the port keeps of the two kinds of ACL.
AclMore(m, c) == KeptIf(NativeElsewhere(m, c), "native") \o KeptPortable(m, c)

LEMMA AclMoreIs ==
    ASSUME NEW m, NEW c
    PROVE  /\ AclMore(m, c) \in Seq(Parts)
           /\ KeptAcl(m, c) = KeptXattrs(m, c) \o AclMore(m, c)
           /\ Len(KeptXattrs(m, c)) + Len(AclMore(m, c)) <= 8
           /\ KeptXattrs(m, c) \in Seq(Parts)
           /\ AclMore(m, c) = <<>> <=> KeptIf(NativeElsewhere(m, c), "native") = <<>> /\ KeptPortable(m, c) = <<>>
  <1>1. /\ KeptXattrs(m, c) \in Seq(Parts) /\ KeptIf(NativeElsewhere(m, c), "native") \in Seq(Parts)
        /\ KeptPortable(m, c) \in Seq(Parts)
        /\ Len(KeptXattrs(m, c)) <= 1 /\ Len(KeptIf(NativeElsewhere(m, c), "native")) <= 1
        /\ Len(KeptPortable(m, c)) <= 1
    BY XattrsAndAclPieces, Zenon
  <1> HIDE DEF KeptXattrs, KeptPortable, KeptIf
  <1>2. \A j, k, l \in Seq(Parts) : j \o k \o l = j \o (k \o l)
    OBVIOUS
  <1>3. KeptAcl(m, c) = KeptXattrs(m, c) \o AclMore(m, c)
    BY <1>1, <1>2, Zenon DEF KeptAcl, AclMore
  <1>4. AclMore(m, c) \in Seq(Parts)
        /\ Len(AclMore(m, c)) = Len(KeptIf(NativeElsewhere(m, c), "native")) + Len(KeptPortable(m, c))
        /\ (AclMore(m, c) = <<>> <=> KeptIf(NativeElsewhere(m, c), "native") = <<>> /\ KeptPortable(m, c) = <<>>)
    BY <1>1, RangeConcat, Zenon DEF AclMore
  <1>q. QED
    BY <1>1, <1>3, <1>4

LEMMA AclAdvance ==
    ASSUME PlanInv, pc = "plan", plan.next = "acl", meta' = meta, caps' = caps,
           \/ /\ pc' = "failed" /\ "transport" \notin caps.able
              /\ \/ NativeElsewhere(meta, caps)
                 \/ meta.aces # <<>> /\ ~NativeHere(meta, caps) /\ "portable" \notin caps.able
           \/ /\ AclMore(meta, caps) = <<>> \/ "transport" \in caps.able
              /\ pc' = "plan" /\ plan'.next = "times"
              /\ Holds(plan', meta, caps, UpToAcl, KeptAcl(meta, caps))
    PROVE  PlanInv'
  <1>1. CASE /\ pc' = "failed" /\ "transport" \notin caps.able
             /\ \/ NativeElsewhere(meta, caps)
                \/ meta.aces # <<>> /\ ~NativeHere(meta, caps) /\ "portable" \notin caps.able
    <2>1. PlanRestore(meta, caps).impossible
      BY <1>1, Refused, Zenon
    <2>q. QED
      BY <1>1, <2>1, Advanced, Zenon
  <1>2. CASE /\ AclMore(meta, caps) = <<>> \/ "transport" \in caps.able
             /\ pc' = "plan" /\ plan'.next = "times"
             /\ Holds(plan', meta, caps, UpToAcl, KeptAcl(meta, caps))
    <2>1. ASSUME "transport" \notin caps.able PROVE ~Logical(meta) /\ KeptAcl(meta, caps) = <<>>
      <3>1. Possible(meta, caps, KeptXattrs(meta, caps))
        <4>1. caps # NoCaps /\ SoFar(plan, meta, caps)
          BY DEF PlanInv
        <4>q. QED
          BY <4>1 DEF SoFar
      <3>2. ~Logical(meta) /\ KeptXattrs(meta, caps) = <<>> /\ AclMore(meta, caps) = <<>>
        BY <1>2, <2>1, <3>1, Zenon DEF Possible
      <3>3. KeptAcl(meta, caps) = KeptXattrs(meta, caps) \o AclMore(meta, caps)
        BY AclMoreIs, Zenon
      <3>q. QED
        BY <3>2, <3>3
    <2>2. SoFar(plan', meta, caps)
      BY <1>2, <2>1 DEF SoFar, Possible
    <2>q. QED
      BY <1>2, <2>2, Advanced, Zenon
  <1>q. QED
    BY <1>1, <1>2, Zenon

LEMMA AclStep ==
    ASSUME PlanInv, PlanAcl
    PROVE  PlanInv'
  <1> DEFINE apply == IF meta.aces # <<>> /\ "portable" \in caps.able THEN {"portable"} ELSE {}
             keep == IF meta.aces # <<>> /\ "portable" \notin caps.able THEN <<"portable">> ELSE <<>>
  <1>1. pc = "plan" /\ plan.next = "acl" /\ meta' = meta /\ caps' = caps
    BY DEF PlanAcl, MetaUnchanged
  <1>2. Holds(plan, meta, caps, UpToXattrs, KeptXattrs(meta, caps))
    BY <1>1 DEF PlanInv, SoFar
  <1>3. /\ KeptXattrs(meta, caps) \in Seq(Parts) /\ AclMore(meta, caps) \in Seq(Parts)
        /\ KeptAcl(meta, caps) = KeptXattrs(meta, caps) \o AclMore(meta, caps)
        /\ Len(KeptXattrs(meta, caps)) + Len(AclMore(meta, caps)) <= 8
    BY AclMoreIs, Zenon
  <1>k. /\ plan.compromises \in Seq(Parts) /\ Len(plan.compromises) + Len(AclMore(meta, caps)) <= 8
        /\ AclMore(meta, caps) \in Seq(Parts)
    BY <1>2, <1>3, Zenon DEF Holds
  <1>4. UpToAcl = UpToXattrs \cup Acls
    BY DEF UpToAcl
  <1>5. CASE NativeHere(meta, caps)
    <2>1. {"native"} = Applied(meta, caps) \cap Acls
      BY <1>5, AppliedIs DEF Acls
    <2>2. AclMore(meta, caps) = <<>>
      BY <1>5, AclMoreIs, XattrsAndAclPieces, Zenon DEF NativeElsewhere
    <2>3. Extend({"native"}, AclMore(meta, caps), FALSE, "times")
      BY <1>5, <2>2, Zenon DEF PlanAcl
    <2>4. /\ pc' = "plan" /\ plan'.next = "times"
          /\ plan'.actions = plan.actions \cup Acts({"native"}, AclMore(meta, caps))
          /\ plan'.compromises = plan.compromises \o AclMore(meta, caps)
      BY <1>1, <1>k, <2>3, RoomAssumption, SMTT(60) DEF Extend, Acts
    <2>5. Holds(plan', meta, caps, UpToAcl, KeptAcl(meta, caps))
      BY <1>2, <1>3, <1>4, <2>1, <2>4, Grown, Zenon
    <2>q. QED
      BY <1>1, <2>2, <2>4, <2>5, AclAdvance, Zenon
  <1>6. CASE ~NativeHere(meta, caps)
    <2>1. apply = Applied(meta, caps) \cap Acls
      BY <1>6, AppliedIs DEF Acls
    <2>2. keep = KeptPortable(meta, caps)
      BY <1>6 DEF KeptPortable, KeptIf
    <2>3. CASE meta.acl # {}
      <3>1. NativeElsewhere(meta, caps) /\ <<"native">> \o keep = AclMore(meta, caps)
        BY <1>6, <2>2, <2>3, Zenon DEF NativeElsewhere, AclMore, KeptIf
      <3>2. Extend(apply, AclMore(meta, caps), TRUE, "times")
        BY <1>6, <2>3, <3>1, Zenon DEF PlanAcl
      <3> HIDE DEF apply, keep
      <3>3. \/ pc' = "failed" /\ "transport" \notin caps.able
            \/ /\ "transport" \in caps.able /\ pc' = "plan" /\ plan'.next = "times"
               /\ plan'.actions = plan.actions \cup Acts(apply, AclMore(meta, caps))
               /\ plan'.compromises = plan.compromises \o AclMore(meta, caps)
        BY <1>1, <1>k, <3>2, RoomAssumption DEF Extend, Acts
      <3>4. \/ pc' = "failed" /\ "transport" \notin caps.able
            \/ /\ "transport" \in caps.able /\ pc' = "plan" /\ plan'.next = "times"
               /\ Holds(plan', meta, caps, UpToAcl, KeptAcl(meta, caps))
        BY <1>2, <1>3, <1>4, <2>1, <3>3, Grown, Zenon
      <3>q. QED
        BY <1>1, <3>1, <3>4, AclAdvance, Zenon
    <2>4. CASE meta.acl = {}
      <3>1. Extend(apply, keep, keep # <<>>, "times")
        BY <1>6, <2>4, Zenon DEF PlanAcl
      <3>2. KeptIf(NativeElsewhere(meta, caps), "native") = <<>>
        BY <2>4, Zenon DEF NativeElsewhere, KeptIf
      <3>3. KeptPortable(meta, caps) \in Seq(Parts)
        BY XattrsAndAclPieces, Zenon
      <3>4. <<>> \o KeptPortable(meta, caps) = KeptPortable(meta, caps)
        BY <3>3
      <3>5. keep = AclMore(meta, caps)
        BY <2>2, <3>2, <3>4, Zenon DEF AclMore
      <3>6. keep # <<>> => meta.aces # <<>> /\ ~NativeHere(meta, caps) /\ "portable" \notin caps.able
        BY <1>6, Zenon
      <3>7. Extend(apply, AclMore(meta, caps), AclMore(meta, caps) # <<>>, "times")
        BY <3>1, <3>5, Zenon
      <3> HIDE DEF apply, keep
      <3>8. \/ pc' = "failed" /\ "transport" \notin caps.able /\ AclMore(meta, caps) # <<>>
            \/ /\ AclMore(meta, caps) = <<>> \/ "transport" \in caps.able
               /\ pc' = "plan" /\ plan'.next = "times"
               /\ plan'.actions = plan.actions \cup Acts(apply, AclMore(meta, caps))
               /\ plan'.compromises = plan.compromises \o AclMore(meta, caps)
        BY <1>1, <1>k, <3>7, RoomAssumption DEF Extend, Acts
      <3>9. \/ pc' = "failed" /\ "transport" \notin caps.able /\ AclMore(meta, caps) # <<>>
            \/ /\ AclMore(meta, caps) = <<>> \/ "transport" \in caps.able
               /\ pc' = "plan" /\ plan'.next = "times"
               /\ Holds(plan', meta, caps, UpToAcl, KeptAcl(meta, caps))
        BY <1>2, <1>3, <1>4, <2>1, <3>8, Grown, Zenon
      <3>q. QED
        BY <1>1, <3>5, <3>6, <3>9, AclAdvance, Zenon
    <2>q. QED
      BY <2>3, <2>4
  <1>q. QED
    BY <1>5, <1>6

LEMMA TimesStep ==
    ASSUME PlanInv, PlanTimes
    PROVE  PlanInv'
  <1> DEFINE native == IF meta.mtime # {} \/ meta.atime # {} THEN {"times"} ELSE {}
  <1>1. /\ pc = "plan" /\ plan.next = "times" /\ meta' = meta /\ caps' = caps
        /\ Extend(native, <<>>, FALSE, "btime")
    BY Zenon DEF PlanTimes, MetaUnchanged
  <1>2. Holds(plan, meta, caps, UpToAcl, KeptAcl(meta, caps)) /\ Possible(meta, caps, KeptAcl(meta, caps))
    BY <1>1 DEF PlanInv, SoFar
  <1>3. native = Applied(meta, caps) \cap {"times"}
    BY AppliedIs
  <1>4. KeptAcl(meta, caps) \in Seq(Parts) /\ Len(KeptAcl(meta, caps)) <= 3
    BY KeptSizes, Zenon
  <1>5. /\ <<>> \in Seq(Parts) /\ Len(KeptAcl(meta, caps)) + Len(<<>>) <= 8
        /\ KeptAcl(meta, caps) = KeptAcl(meta, caps) \o <<>> /\ UpToTimes = UpToAcl \cup {"times"}
    BY <1>4 DEF UpToTimes
  <1> HIDE DEF native
  <1>6. plan.compromises \in Seq(Parts) /\ Len(plan.compromises) + Len(<<>>) <= 8 /\ <<>> \in Seq(Parts)
    BY <1>2, <1>4, <1>5, Zenon DEF Holds
  <1>7. /\ pc' = "plan" /\ plan'.next = "btime"
        /\ plan'.actions = plan.actions \cup Acts(native, <<>>) /\ plan'.compromises = plan.compromises \o <<>>
    BY <1>1, <1>6, RoomAssumption DEF Extend, Acts
  <1>8. Holds(plan', meta, caps, UpToTimes, KeptAcl(meta, caps))
    BY <1>2, <1>3, <1>4, <1>5, <1>7, Grown, Zenon
  <1>9. SoFar(plan', meta, caps)
    BY <1>2, <1>7, <1>8 DEF SoFar
  <1>q. QED
    BY <1>1, <1>7, <1>9, Advanced, Zenon

\* A family that is applied or kept as a whole joins the plan.
SimpleExtends(i, label) ==
    Extend(IF Simple(meta)[i].here /\ Simple(meta)[i].name \in caps.able THEN {Simple(meta)[i].name} ELSE {},
           IF Simple(meta)[i].here /\ Simple(meta)[i].name \notin caps.able THEN <<Simple(meta)[i].name>> ELSE <<>>,
           Simple(meta)[i].here /\ Simple(meta)[i].name \notin caps.able, label)

LEMMA SimpleGrows ==
    ASSUME pc = "plan", NEW i \in 1..5, NEW label, SimpleExtends(i, label),
           plan.compromises \in Seq(Parts), Len(plan.compromises) <= 7, Possible(meta, caps, plan.compromises)
    PROVE  \/ pc' = "failed" /\ PlanRestore(meta, caps).impossible
           \/ /\ pc' = (IF label = "done" THEN "planned" ELSE "plan") /\ plan'.next = label
              /\ plan'.actions
                   = plan.actions \cup Acts(Applied(meta, caps) \cap {Simple(meta)[i].name}, KeptOf(meta, caps, i))
              /\ plan'.compromises = plan.compromises \o KeptOf(meta, caps, i)
              /\ Possible(meta, caps, plan'.compromises)
  <1> DEFINE native == IF Simple(meta)[i].here /\ Simple(meta)[i].name \in caps.able THEN {Simple(meta)[i].name} ELSE {}
             unable == Simple(meta)[i].here /\ Simple(meta)[i].name \notin caps.able
  <1>1. Extend(native, KeptOf(meta, caps, i), unable, label)
    BY Zenon DEF SimpleExtends, KeptOf, KeptIf
  <1>2. /\ KeptOf(meta, caps, i) \in Seq(Parts) /\ Len(KeptOf(meta, caps, i)) <= 1
        /\ KeptOf(meta, caps, i) = <<>> <=> ~unable
    BY SimplePieces, Zenon
  <1>3. native = Applied(meta, caps) \cap {Simple(meta)[i].name}
    <2>1. Simple(meta)[i].name \in Applied(meta, caps) <=> Simple(meta)[i].here /\ Simple(meta)[i].name \in caps.able
      BY AppliedIs, Zenon
    <2>q. QED
      BY <2>1, Zenon
  <1>4. CASE unable /\ "transport" \notin caps.able
    <2>1. pc' = "failed"
      BY <1>1, <1>4, Zenon DEF Extend
    <2>2. PlanRestore(meta, caps).impossible
      BY <1>4, Refused, Zenon
    <2>q. QED
      BY <2>1, <2>2
  <1>5. CASE ~(unable /\ "transport" \notin caps.able)
    <2>1. ~(Len(plan.compromises) + Len(KeptOf(meta, caps, i)) > MaxCompromises)
      BY <1>2, RoomAssumption
    <2> HIDE DEF native, unable
    <2>2. /\ plan' = [next |-> label,
                      actions |-> plan.actions \cup {Native(n) : n \in native}
                                  \cup {Sidecar(n) : n \in Range(KeptOf(meta, caps, i))},
                      compromises |-> plan.compromises \o KeptOf(meta, caps, i)]
          /\ pc' = (IF label = "done" THEN "planned" ELSE pc)
      BY <1>1, <1>5, <2>1, Zenon DEF Extend
    <2>3. /\ plan'.next = label /\ plan'.compromises = plan.compromises \o KeptOf(meta, caps, i)
          /\ plan'.actions = plan.actions \cup {Native(n) : n \in native}
                             \cup {Sidecar(n) : n \in Range(KeptOf(meta, caps, i))}
      BY <2>2, Zenon
    <2>4. plan'.actions = plan.actions \cup Acts(native, KeptOf(meta, caps, i))
      BY <2>3, Zenon DEF Acts
    <2>5. Possible(meta, caps, plan'.compromises)
      <3>1. CASE "transport" \in caps.able
        BY <3>1, Zenon DEF Possible
      <3>2. CASE "transport" \notin caps.able
        <4>1. plan.compromises = <<>> /\ KeptOf(meta, caps, i) = <<>> /\ ~Logical(meta)
          BY <1>2, <1>5, <3>2, Zenon DEF Possible
        <4>2. plan.compromises \o KeptOf(meta, caps, i) = <<>>
          BY <4>1
        <4>q. QED
          BY <2>3, <4>1, <4>2, Zenon DEF Possible
      <3>q. QED
        BY <3>1, <3>2, Zenon
    <2>q. QED
      BY <1>3, <2>2, <2>3, <2>4, <2>5, Zenon
  <1>q. QED
    BY <1>4, <1>5, Zenon

LEMMA SimpleStep ==
    ASSUME PlanInv, PlanSimple
    PROVE  PlanInv'
  <1>1. PICK i \in 1..5 :
           /\ pc = "plan" /\ meta' = meta /\ caps' = caps
           /\ Simple(meta)[i].name = plan.next
           /\ SimpleExtends(i, IF i = 5 THEN "done" ELSE Simple(meta)[i + 1].name)
    BY Zenon DEF PlanSimple, SimpleExtends, MetaUnchanged
  <1>2. CASE i = 1
    <2>1. Simple(meta)[1].name = "btime" /\ Simple(meta)[2].name = "flags"
      BY SimpleIs, Zenon
    <2>2. Holds(plan, meta, caps, UpToTimes, KeptAcl(meta, caps)) /\ Possible(meta, caps, KeptAcl(meta, caps))
      BY <1>1, <1>2, <2>1, Zenon DEF PlanInv, SoFar
    <2>3. /\ KeptAcl(meta, caps) \in Seq(Parts) /\ Len(KeptAcl(meta, caps)) <= 7
          /\ UpToBtime = UpToTimes \cup {Simple(meta)[1].name} /\ KeptBtime(meta, caps) = KeptAcl(meta, caps) \o KeptOf(meta, caps, 1)
      BY <2>1, KeptSizes, SMTT(60) DEF UpToBtime, KeptBtime
    <2>4. \/ pc' = "failed" /\ PlanRestore(meta, caps).impossible
          \/ /\ pc' = (IF "flags" = "done" THEN "planned" ELSE "plan") /\ plan'.next = "flags"
             /\ Holds(plan', meta, caps, UpToBtime, KeptBtime(meta, caps)) /\ Possible(meta, caps, KeptBtime(meta, caps))
      <3>1. (IF i = 5 THEN "done" ELSE Simple(meta)[i + 1].name) = "flags"
        BY <1>2, <2>1
      <3>2. SimpleExtends(1, "flags") /\ pc = "plan" /\ 1 \in 1..5
        BY <1>1, <1>2, <3>1, Zenon
      <3>3. plan.compromises = KeptAcl(meta, caps)
        BY <2>2, Zenon DEF Holds
      <3>4. plan.compromises \in Seq(Parts) /\ Len(plan.compromises) <= 7 /\ Possible(meta, caps, plan.compromises)
        BY <2>2, <2>3, <3>3, Zenon
      <3>5. KeptOf(meta, caps, 1) \in Seq(Parts)
        BY <3>2, SimplePieces, Zenon
      <3>6. \/ pc' = "failed" /\ PlanRestore(meta, caps).impossible
            \/ /\ pc' = (IF "flags" = "done" THEN "planned" ELSE "plan") /\ plan'.next = "flags"
               /\ plan'.actions
                    = plan.actions \cup Acts(Applied(meta, caps) \cap {Simple(meta)[1].name}, KeptOf(meta, caps, 1))
               /\ plan'.compromises = plan.compromises \o KeptOf(meta, caps, 1)
               /\ Possible(meta, caps, plan'.compromises)
        BY <3>2, <3>4, SimpleGrows, Zenon
      <3>q. QED
        BY <2>2, <2>3, <3>3, <3>5, <3>6, Grown, Zenon
    <2>5. (pc' = "failed" \/ SoFar(plan', meta, caps))
      BY <2>4 DEF SoFar
    <2>q. QED
      BY <1>1, <2>4, <2>5, Advanced
  <1>3. CASE i = 2
    <2>1. Simple(meta)[2].name = "flags" /\ Simple(meta)[3].name = "info"
      BY SimpleIs, Zenon
    <2>2. Holds(plan, meta, caps, UpToBtime, KeptBtime(meta, caps)) /\ Possible(meta, caps, KeptBtime(meta, caps))
      BY <1>1, <1>3, <2>1, Zenon DEF PlanInv, SoFar
    <2>3. /\ KeptBtime(meta, caps) \in Seq(Parts) /\ Len(KeptBtime(meta, caps)) <= 7
          /\ UpToFlags = UpToBtime \cup {Simple(meta)[2].name} /\ KeptFlags(meta, caps) = KeptBtime(meta, caps) \o KeptOf(meta, caps, 2)
      BY <2>1, KeptSizes, SMTT(60) DEF UpToFlags, KeptFlags
    <2>4. \/ pc' = "failed" /\ PlanRestore(meta, caps).impossible
          \/ /\ pc' = (IF "info" = "done" THEN "planned" ELSE "plan") /\ plan'.next = "info"
             /\ Holds(plan', meta, caps, UpToFlags, KeptFlags(meta, caps)) /\ Possible(meta, caps, KeptFlags(meta, caps))
      <3>1. (IF i = 5 THEN "done" ELSE Simple(meta)[i + 1].name) = "info"
        BY <1>3, <2>1
      <3>2. SimpleExtends(2, "info") /\ pc = "plan" /\ 2 \in 1..5
        BY <1>1, <1>3, <3>1, Zenon
      <3>3. plan.compromises = KeptBtime(meta, caps)
        BY <2>2, Zenon DEF Holds
      <3>4. plan.compromises \in Seq(Parts) /\ Len(plan.compromises) <= 7 /\ Possible(meta, caps, plan.compromises)
        BY <2>2, <2>3, <3>3, Zenon
      <3>5. KeptOf(meta, caps, 2) \in Seq(Parts)
        BY <3>2, SimplePieces, Zenon
      <3>6. \/ pc' = "failed" /\ PlanRestore(meta, caps).impossible
            \/ /\ pc' = (IF "info" = "done" THEN "planned" ELSE "plan") /\ plan'.next = "info"
               /\ plan'.actions
                    = plan.actions \cup Acts(Applied(meta, caps) \cap {Simple(meta)[2].name}, KeptOf(meta, caps, 2))
               /\ plan'.compromises = plan.compromises \o KeptOf(meta, caps, 2)
               /\ Possible(meta, caps, plan'.compromises)
        BY <3>2, <3>4, SimpleGrows, Zenon
      <3>q. QED
        BY <2>2, <2>3, <3>3, <3>5, <3>6, Grown, Zenon
    <2>5. (pc' = "failed" \/ SoFar(plan', meta, caps))
      BY <2>4 DEF SoFar
    <2>q. QED
      BY <1>1, <2>4, <2>5, Advanced, Zenon
  <1>4. CASE i = 3
    <2>1. Simple(meta)[3].name = "info" /\ Simple(meta)[4].name = "holes"
      BY SimpleIs, Zenon
    <2>2. Holds(plan, meta, caps, UpToFlags, KeptFlags(meta, caps)) /\ Possible(meta, caps, KeptFlags(meta, caps))
      BY <1>1, <1>4, <2>1, Zenon DEF PlanInv, SoFar
    <2>3. /\ KeptFlags(meta, caps) \in Seq(Parts) /\ Len(KeptFlags(meta, caps)) <= 7
          /\ UpToInfo = UpToFlags \cup {Simple(meta)[3].name} /\ KeptInfo(meta, caps) = KeptFlags(meta, caps) \o KeptOf(meta, caps, 3)
      BY <2>1, KeptSizes, SMTT(60) DEF UpToInfo, KeptInfo
    <2>4. \/ pc' = "failed" /\ PlanRestore(meta, caps).impossible
          \/ /\ pc' = (IF "holes" = "done" THEN "planned" ELSE "plan") /\ plan'.next = "holes"
             /\ Holds(plan', meta, caps, UpToInfo, KeptInfo(meta, caps)) /\ Possible(meta, caps, KeptInfo(meta, caps))
      <3>1. (IF i = 5 THEN "done" ELSE Simple(meta)[i + 1].name) = "holes"
        BY <1>4, <2>1
      <3>2. SimpleExtends(3, "holes") /\ pc = "plan" /\ 3 \in 1..5
        BY <1>1, <1>4, <3>1, Zenon
      <3>3. plan.compromises = KeptFlags(meta, caps)
        BY <2>2, Zenon DEF Holds
      <3>4. plan.compromises \in Seq(Parts) /\ Len(plan.compromises) <= 7 /\ Possible(meta, caps, plan.compromises)
        BY <2>2, <2>3, <3>3, Zenon
      <3>5. KeptOf(meta, caps, 3) \in Seq(Parts)
        BY <3>2, SimplePieces, Zenon
      <3>6. \/ pc' = "failed" /\ PlanRestore(meta, caps).impossible
            \/ /\ pc' = (IF "holes" = "done" THEN "planned" ELSE "plan") /\ plan'.next = "holes"
               /\ plan'.actions
                    = plan.actions \cup Acts(Applied(meta, caps) \cap {Simple(meta)[3].name}, KeptOf(meta, caps, 3))
               /\ plan'.compromises = plan.compromises \o KeptOf(meta, caps, 3)
               /\ Possible(meta, caps, plan'.compromises)
        BY <3>2, <3>4, SimpleGrows, Zenon
      <3>q. QED
        BY <2>2, <2>3, <3>3, <3>5, <3>6, Grown, Zenon
    <2>5. (pc' = "failed" \/ SoFar(plan', meta, caps))
      BY <2>4 DEF SoFar
    <2>q. QED
      BY <1>1, <2>4, <2>5, Advanced
  <1>5. CASE i = 4
    <2>1. Simple(meta)[4].name = "holes" /\ Simple(meta)[5].name = "hardlink"
      BY SimpleIs, Zenon
    <2>2. Holds(plan, meta, caps, UpToInfo, KeptInfo(meta, caps)) /\ Possible(meta, caps, KeptInfo(meta, caps))
      BY <1>1, <1>5, <2>1, Zenon DEF PlanInv, SoFar
    <2>3. /\ KeptInfo(meta, caps) \in Seq(Parts) /\ Len(KeptInfo(meta, caps)) <= 7
          /\ UpToHoles = UpToInfo \cup {Simple(meta)[4].name} /\ KeptHoles(meta, caps) = KeptInfo(meta, caps) \o KeptOf(meta, caps, 4)
      BY <2>1, KeptSizes, SMTT(60) DEF UpToHoles, KeptHoles
    <2>4. \/ pc' = "failed" /\ PlanRestore(meta, caps).impossible
          \/ /\ pc' = (IF "hardlink" = "done" THEN "planned" ELSE "plan") /\ plan'.next = "hardlink"
             /\ Holds(plan', meta, caps, UpToHoles, KeptHoles(meta, caps)) /\ Possible(meta, caps, KeptHoles(meta, caps))
      <3>1. (IF i = 5 THEN "done" ELSE Simple(meta)[i + 1].name) = "hardlink"
        BY <1>5, <2>1
      <3>2. SimpleExtends(4, "hardlink") /\ pc = "plan" /\ 4 \in 1..5
        BY <1>1, <1>5, <3>1, Zenon
      <3>3. plan.compromises = KeptInfo(meta, caps)
        BY <2>2, Zenon DEF Holds
      <3>4. plan.compromises \in Seq(Parts) /\ Len(plan.compromises) <= 7 /\ Possible(meta, caps, plan.compromises)
        BY <2>2, <2>3, <3>3, Zenon
      <3>5. KeptOf(meta, caps, 4) \in Seq(Parts)
        BY <3>2, SimplePieces, Zenon
      <3>6. \/ pc' = "failed" /\ PlanRestore(meta, caps).impossible
            \/ /\ pc' = (IF "hardlink" = "done" THEN "planned" ELSE "plan") /\ plan'.next = "hardlink"
               /\ plan'.actions
                    = plan.actions \cup Acts(Applied(meta, caps) \cap {Simple(meta)[4].name}, KeptOf(meta, caps, 4))
               /\ plan'.compromises = plan.compromises \o KeptOf(meta, caps, 4)
               /\ Possible(meta, caps, plan'.compromises)
        BY <3>2, <3>4, SimpleGrows, Zenon
      <3>q. QED
        BY <2>2, <2>3, <3>3, <3>5, <3>6, Grown, Zenon
    <2>5. (pc' = "failed" \/ SoFar(plan', meta, caps))
      BY <2>4 DEF SoFar
    <2>q. QED
      BY <1>1, <2>4, <2>5, Advanced, Zenon
  <1>6. CASE i = 5
    <2>1. Simple(meta)[5].name = "hardlink"
      BY SimpleIs, Zenon
    <2>2. Holds(plan, meta, caps, UpToHoles, KeptHoles(meta, caps)) /\ Possible(meta, caps, KeptHoles(meta, caps))
      BY <1>1, <1>6, <2>1, Zenon DEF PlanInv, SoFar
    <2>3. /\ KeptHoles(meta, caps) \in Seq(Parts) /\ Len(KeptHoles(meta, caps)) <= 7
          /\ UpToAll = UpToHoles \cup {Simple(meta)[5].name} /\ Kept(meta, caps) = KeptHoles(meta, caps) \o KeptOf(meta, caps, 5)
      BY <2>1, KeptSizes, SMTT(60) DEF UpToAll
    <2>4. \/ pc' = "failed" /\ PlanRestore(meta, caps).impossible
          \/ /\ pc' = (IF "done" = "done" THEN "planned" ELSE "plan") /\ plan'.next = "done"
             /\ Holds(plan', meta, caps, UpToAll, Kept(meta, caps)) /\ Possible(meta, caps, Kept(meta, caps))
      <3>1. (IF i = 5 THEN "done" ELSE Simple(meta)[i + 1].name) = "done"
        BY <1>6, <2>1
      <3>2. SimpleExtends(5, "done") /\ pc = "plan" /\ 5 \in 1..5
        BY <1>1, <1>6, <3>1, Zenon
      <3>3. plan.compromises = KeptHoles(meta, caps)
        BY <2>2, Zenon DEF Holds
      <3>4. plan.compromises \in Seq(Parts) /\ Len(plan.compromises) <= 7 /\ Possible(meta, caps, plan.compromises)
        BY <2>2, <2>3, <3>3, Zenon
      <3>5. KeptOf(meta, caps, 5) \in Seq(Parts)
        BY <3>2, SimplePieces, Zenon
      <3>6. \/ pc' = "failed" /\ PlanRestore(meta, caps).impossible
            \/ /\ pc' = (IF "done" = "done" THEN "planned" ELSE "plan") /\ plan'.next = "done"
               /\ plan'.actions
                    = plan.actions \cup Acts(Applied(meta, caps) \cap {Simple(meta)[5].name}, KeptOf(meta, caps, 5))
               /\ plan'.compromises = plan.compromises \o KeptOf(meta, caps, 5)
               /\ Possible(meta, caps, plan'.compromises)
        BY <3>2, <3>4, SimpleGrows, Zenon
      <3>q. QED
        BY <2>2, <2>3, <3>3, <3>5, <3>6, Grown, Zenon
    <2>5. (pc' = "failed" \/ SoFar(plan', meta, caps))
      BY <2>4 DEF SoFar
    <2>q. QED
      BY <1>1, <2>4, <2>5, Advanced
  <1>q. QED
    BY <1>2, <1>3, <1>4, <1>5, <1>6

LEMMA StartStep ==
    ASSUME PlanInv, StartPlan
    PROVE  PlanInv'
  <1>1. caps' \in Capabilities /\ pc' = "plan" /\ meta' = meta
    BY DEF StartPlan
  <1>2. caps' # NoCaps
    BY <1>1, SystemsAssumption DEF NoCaps
  <1>3. plan'.next = "xattrs" /\ plan'.actions = {} /\ plan'.compromises = <<>>
    BY DEF StartPlan, NoPlan
  <1>4. Range(<<>>) = {}
    BY DEF Range
  <1>5. Holds(plan', meta', caps', {}, <<>>)
    BY <1>3, <1>4, Zenon DEF Holds, Acts
  <1>6. SoFar(plan', meta', caps')
    BY <1>3, <1>5 DEF SoFar
  <1>q. QED
    BY <1>1, <1>2, <1>6, Zenon DEF PlanInv

\* No step before the plan begins or changes one.
Planning == {"plan", "planned"}

LEMMA MetadataStep ==
    ASSUME MetadataNext
    PROVE  pc \notin Planning \cup {"failed"} /\ pc' \notin Planning
  <1> USE DEF Planning
  <1>1. CASE Omit
    BY <1>1 DEF Omit, Goto
  <1>2. CASE NormalizeXattrs
    BY <1>2 DEF NormalizeXattrs, Check, Goto, Fail
  <1>3. CASE NormalizeAces
    BY <1>3 DEF NormalizeAces, Check, Goto, Fail
  <1>4. CASE NormalizeFields
    BY <1>4, Zenon DEF NormalizeFields, Check, Goto, Fail
  <1>5. CASE MergeHole
    BY <1>5 DEF MergeHole
  <1>6. CASE Validate
    BY <1>6 DEF Validate, Check, Goto, Fail
  <1>7. CASE Encode
    BY <1>7 DEF Encode, Goto
  <1>8. CASE ReadCounts
    BY <1>8 DEF ReadCounts, ReadCount, Following, Goto, Fail
  <1>9. CASE ReadXattr
    BY <1>9 DEF ReadXattr, ReadRecord, Following, Goto, Fail
  <1>10. CASE ReadAce
    BY <1>10 DEF ReadAce, ReadRecord, Following, Goto, Fail
  <1>11. CASE ReadHole
    BY <1>11 DEF ReadHole, ReadRecord, Following, Goto, Fail
  <1>12. CASE ReadAcl
    <2>1. pc = "acl" /\ (pc' = "failed" \/ pc' = "times" \/ pc' = "")
      BY <1>12, Zenon DEF ReadAcl, ReadField, Fail, Goto
    <2>q. QED
      BY <2>1
  <1>13. CASE ReadTimes
    <2>1. pc = "times" /\ (pc' = "failed" \/ pc' = "finder" \/ pc' = "")
      BY <1>13, Zenon DEF ReadTimes, ReadField, Fail, Goto
    <2>q. QED
      BY <2>1
  <1>14. CASE ReadFinder
    <2>1. pc = "finder" /\ (pc' = "failed" \/ pc' = "hole count" \/ pc' = "")
      BY <1>14, Zenon DEF ReadFinder, ReadField, Fail, Goto
    <2>q. QED
      BY <2>1
  <1>15. CASE ReadLink
    <2>1. pc = "link" /\ (pc' = "failed" \/ pc' = "end" \/ pc' = "")
      BY <1>15, Zenon DEF ReadLink, ReadField, Fail, Goto
    <2>q. QED
      BY <2>1
  <1>16. CASE ReadEnd
    <2>1. pc = "end" /\ (pc' = "failed" \/ pc' = "decoded")
      BY <1>16, Zenon DEF ReadEnd, ReadField, Fail, Goto
    <2>q. QED
      BY <2>1
  <1>17. CASE BorrowOmitting
    BY <1>17 DEF BorrowOmitting, Check, Goto, Fail
  <1>q. QED
    BY <1>1, <1>2, <1>3, <1>4, <1>5, <1>6, <1>7, <1>8, <1>9, <1>10, <1>11, <1>12, <1>13, <1>14, <1>15, <1>16, <1>17,
       Zenon DEF MetadataNext, Normalize, Decode

LEMMA PlanInvNext == PlanInv /\ [EntryNext]_<<recordVars, transportVars>> => PlanInv'
  <1> SUFFICES ASSUME PlanInv, [EntryNext]_<<recordVars, transportVars>> PROVE PlanInv'
    OBVIOUS
  <1>1. CASE MetadataNext /\ UNCHANGED planVars
    <2>1. pc \notin Planning \cup {"failed"} /\ pc' \notin Planning /\ caps' = caps
      BY <1>1, MetadataStep, Zenon DEF planVars
    <2>q. QED
      BY <2>1 DEF PlanInv, Planning
  <1>2. CASE StartPlan \/ PlanXattrs \/ PlanAcl \/ PlanTimes \/ PlanSimple
    BY <1>2, StartStep, XattrsStep, AclStep, TimesStep, SimpleStep, Zenon
  <1>3. CASE UNCHANGED allVars
    <2>1. caps' = caps /\ pc' = pc /\ meta' = meta /\ plan' = plan
      BY <1>3, Zenon DEF allVars, vars, planVars
    <2>q. QED
      BY <2>1, Zenon DEF PlanInv
  <1>4. CASE CaptureAcl
    <2>1. pc = "kernel" /\ (pc' = "acl refused" \/ pc' = "omit") /\ caps' = caps
      BY <1>4, Zenon DEF CaptureAcl, RefuseAcl, Goto, planVars
    <2>q. QED
      BY <2>1 DEF PlanInv
  <1>5. CASE RestoreAcl
    <2>1. pc = "canonical" /\ (pc' = "acl refused" \/ pc' = "acl restored") /\ caps' = caps
      BY <1>5, Zenon DEF RestoreAcl, RefuseAcl, Goto, planVars
    <2>q. QED
      BY <2>1 DEF PlanInv
  <1>q. QED
    BY <1>1, <1>2, <1>3, <1>4, <1>5, Zenon
       DEF EntryNext, AclNext, PlanNext, Terminated, AclEnded, recordVars

LEMMA PlanInvInit == EntryInit => PlanInv
  BY DEF EntryInit, AclInit, PlanInit, RecordIdle, Init, Start, PlanInv

LEMMA PlanInvHolds == Spec => []PlanInv
  BY PlanInvInit, PlanInvNext, PTL DEF Spec

-----------------------------------------------------------------------------
(* What a finished plan is.                                                *)

LEMMA Finished ==
    ASSUME PlanInv, pc = "planned"
    PROVE  /\ plan.actions = Acts(Applied(meta, caps), Kept(meta, caps))
           /\ plan.compromises = Kept(meta, caps)
           /\ Possible(meta, caps, Kept(meta, caps))
  <1>1. Holds(plan, meta, caps, UpToAll, Kept(meta, caps)) /\ Possible(meta, caps, Kept(meta, caps))
    BY DEF PlanInv, SoFar
  <1>2. Applied(meta, caps) \cap UpToAll = Applied(meta, caps)
    BY AppliedIs, Zenon
  <1>q. QED
    BY <1>1, <1>2, Zenon DEF Holds

\* The port's RestorePlan::new, which goes through the families one by one and
\* gives up at the first it can neither apply nor keep, ends with the actions and
\* compromises of the reference's planRestore, or gives up where it does.
THEOREM PlansAlike == Spec => []PlansAgree
  <1>1. PlanInv => PlansAgree
    <2> SUFFICES ASSUME PlanInv, caps # NoCaps
                 PROVE  /\ pc = "planned" => /\ ~PlanRestore(meta, caps).impossible
                                             /\ plan.actions = PlanRestore(meta, caps).actions
                                             /\ plan.compromises = PlanRestore(meta, caps).compromises
                        /\ pc = "failed" => PlanRestore(meta, caps).impossible
      BY Zenon DEF PlansAgree
    <2>1. ASSUME pc = "planned"
          PROVE  /\ ~PlanRestore(meta, caps).impossible
                 /\ plan.actions = PlanRestore(meta, caps).actions
                 /\ plan.compromises = PlanRestore(meta, caps).compromises
      <3>1. PlanRestore(meta, caps).actions = Acts(Applied(meta, caps), Kept(meta, caps))
        BY Zenon DEF PlanRestore, Acts
      <3>2. PlanRestore(meta, caps).compromises = Kept(meta, caps)
        BY Zenon DEF PlanRestore
      <3>3. ~PlanRestore(meta, caps).impossible
        BY <2>1, Finished DEF PlanRestore, Possible
      <3>q. QED
        BY <2>1, <3>1, <3>2, <3>3, Finished, Zenon
    <2>2. pc = "failed" => PlanRestore(meta, caps).impossible
      BY Zenon DEF PlanInv
    <2>q. QED
      BY <2>1, <2>2, Zenon
  <1>q. QED
    BY <1>1, PlanInvHolds, PTL

LEMMA ActFields ==
    ASSUME NEW n
    PROVE  /\ Native(n).name = n /\ ~Native(n).sidecar
           /\ Sidecar(n).name = n /\ Sidecar(n).sidecar
  BY DEF Native, Sidecar

LEMMA ActsMembers ==
    ASSUME NEW applied, NEW kept, NEW n
    PROVE  /\ Native(n) \in Acts(applied, kept) <=> n \in applied
           /\ Sidecar(n) \in Acts(applied, kept) <=> n \in Range(kept)
  <1>1. \A j, k : Native(j) # Sidecar(k)
    BY ActFields, Zenon
  <1>2. \A j, k : (Native(j) = Native(k) => j = k) /\ (Sidecar(j) = Sidecar(k) => j = k)
    BY ActFields
  <1>q. QED
    BY <1>1, <1>2, Zenon DEF Acts

LEMMA KeptMembers ==
    ASSUME NEW m, NEW c
    PROVE  /\ "raw" \in Range(Kept(m, c)) <=> RawBad(m, c)
           /\ "native" \in Range(Kept(m, c)) <=> NativeElsewhere(m, c)
           /\ "portable" \in Range(Kept(m, c)) <=> m.aces # <<>> /\ ~NativeHere(m, c) /\ "portable" \notin c.able
           /\ \A i \in 1..5 :
                 Simple(m)[i].name \in Range(Kept(m, c)) <=> Simple(m)[i].here /\ Simple(m)[i].name \notin c.able
  <1> DEFINE portable == m.aces # <<>> /\ ~NativeHere(m, c) /\ "portable" \notin c.able
             r1 == Range(KeptXattrs(m, c))
             r2 == Range(KeptIf(NativeElsewhere(m, c), "native"))
             r3 == Range(KeptPortable(m, c))
             s(i) == Range(KeptOf(m, c, i))
  <1>1. Range(Kept(m, c)) = r1 \cup r2 \cup r3 \cup s(1) \cup s(2) \cup s(3) \cup s(4) \cup s(5)
    BY KeptRange, Zenon
  <1>2. /\ r1 \subseteq {"raw"} /\ ("raw" \in r1 <=> RawBad(m, c))
        /\ r2 \subseteq {"native"} /\ ("native" \in r2 <=> NativeElsewhere(m, c))
        /\ r3 \subseteq {"portable"} /\ ("portable" \in r3 <=> portable)
    <2>1. r1 \subseteq {"raw"} /\ ("raw" \in r1 <=> RawBad(m, c))
      BY XattrsAndAclPieces
    <2>2. r2 \subseteq {"native"} /\ ("native" \in r2 <=> NativeElsewhere(m, c))
      BY XattrsAndAclPieces
    <2>3. r3 \subseteq {"portable"} /\ ("portable" \in r3 <=> portable)
      BY XattrsAndAclPieces
    <2>q. QED
      BY <2>1, <2>2, <2>3, Zenon
  <1>3. ASSUME NEW i \in 1..5
        PROVE  /\ s(i) \subseteq {Simple(m)[i].name}
               /\ Simple(m)[i].name \in s(i) <=> Simple(m)[i].here /\ Simple(m)[i].name \notin c.able
    BY SimplePieces
  <1>n. 1 \in 1..5 /\ 2 \in 1..5 /\ 3 \in 1..5 /\ 4 \in 1..5 /\ 5 \in 1..5
    BY SMTT(60)
  <1>4. /\ s(1) \subseteq {"btime"} /\ s(2) \subseteq {"flags"} /\ s(3) \subseteq {"info"} /\ s(4) \subseteq {"holes"}
        /\ s(5) \subseteq {"hardlink"}
    BY <1>3, <1>n, SimpleIs, Zenon
  <1> HIDE DEF portable, r1, r2, r3, s
  <1>5. /\ "raw" \in Range(Kept(m, c)) <=> "raw" \in r1
        /\ "native" \in Range(Kept(m, c)) <=> "native" \in r2
        /\ "portable" \in Range(Kept(m, c)) <=> "portable" \in r3
    BY <1>1, <1>2, <1>4
  <1>6. ASSUME NEW i \in 1..5
        PROVE  Simple(m)[i].name \in Range(Kept(m, c)) <=> Simple(m)[i].name \in s(i)
    <2>1. i \in {1, 2, 3, 4, 5}
      OBVIOUS
    <2>2. /\ "btime" \in Range(Kept(m, c)) <=> "btime" \in s(1)
          /\ "flags" \in Range(Kept(m, c)) <=> "flags" \in s(2)
          /\ "info" \in Range(Kept(m, c)) <=> "info" \in s(3)
          /\ "holes" \in Range(Kept(m, c)) <=> "holes" \in s(4)
          /\ "hardlink" \in Range(Kept(m, c)) <=> "hardlink" \in s(5)
      BY <1>1, <1>2, <1>4
    <2>3. /\ Simple(m)[1].name = "btime" /\ Simple(m)[2].name = "flags" /\ Simple(m)[3].name = "info"
          /\ Simple(m)[4].name = "holes" /\ Simple(m)[5].name = "hardlink"
      BY SimpleIs, Zenon
    <2>q. QED
      BY <2>1, <2>2, <2>3
  <1>q. QED
    BY <1>2, <1>3, <1>5, <1>6, Zenon DEF portable

\* Every part of the record is applied or kept in a sidecar, and what is kept is
\* what the compromises report: planning loses nothing silently, for any record
\* and any capabilities (RestorePlan::new).
THEOREM LosesNothing == Spec => []NothingLost
  <1>1. PlanInv => NothingLost
    <2> SUFFICES ASSUME PlanInv, pc = "planned" PROVE NothingLost
      BY Zenon DEF NothingLost
    <2> DEFINE A == Applied(meta, caps)
               K == Range(Kept(meta, caps))
               somewhere(n) == n \in A \/ n \in K
    <2>1. plan.actions = Acts(A, Kept(meta, caps)) /\ plan.compromises = Kept(meta, caps)
      BY Finished, Zenon
    <2>2. \A n : (Native(n) \in plan.actions <=> n \in A) /\ (Sidecar(n) \in plan.actions <=> n \in K)
      BY <2>1, ActsMembers, Zenon
    <2>3. ASSUME NEW x \in Range(meta.xattrs)
          PROVE  /\ x.class = 1 => Native("logical") \in plan.actions
                 /\ x.class = 2 => (IF RawAccepted(caps.os, x.name) THEN Native("raw") ELSE Sidecar("raw"))
                                     \in plan.actions
      <3>1. x.class = 1 => "logical" \in A
        BY AppliedIs, Zenon DEF Logical
      <3>2. x.class = 2 /\ RawAccepted(caps.os, x.name) => "raw" \in A
        BY AppliedIs, Zenon DEF RawGood
      <3>3. x.class = 2 /\ ~RawAccepted(caps.os, x.name) => "raw" \in K
        BY KeptMembers, Zenon DEF RawBad
      <3> HIDE DEF A, K
      <3>q. QED
        BY <2>2, <3>1, <3>2, <3>3, Zenon
    <2>4. meta.acl # {} => somewhere("native")
      BY AppliedIs, KeptMembers, Zenon DEF NativeElsewhere
    <2>5. meta.aces # <<>> => somewhere("portable") \/ "native" \in A
      BY AppliedIs, KeptMembers, Zenon
    <2>6. ASSUME NEW i \in 1..5 PROVE Simple(meta)[i].here <=> somewhere(Simple(meta)[i].name)
      BY AppliedIs, KeptMembers, Zenon
    <2>7. ASSUME NEW f \in Range(Simple(meta)) PROVE f.here <=> somewhere(f.name)
      <3>1. PICK i \in 1..5 : f = Simple(meta)[i]
        BY SimpleIs, 1 \in 1..5, 2 \in 1..5, 3 \in 1..5, 4 \in 1..5, 5 \in 1..5
      <3>q. QED
        BY <2>6, <3>1, Zenon
    <2> HIDE DEF A, K
    <2>8. {a.name : a \in {b \in plan.actions : b.sidecar}} = K
      <3>1. ASSUME NEW a \in plan.actions, a.sidecar PROVE a.name \in K
        <4>1. (\E n : a = Native(n)) \/ (\E n \in K : a = Sidecar(n))
          BY <2>1, Zenon DEF Acts, K
        <4>q. QED
          BY <3>1, <4>1, ActFields
      <3>2. ASSUME NEW n \in K PROVE Sidecar(n) \in plan.actions /\ Sidecar(n).sidecar /\ Sidecar(n).name = n
        BY <2>2, ActFields, Zenon
      <3>q. QED
        BY <3>1, <3>2, Zenon
    <2>q. QED
      BY <2>1, <2>2, <2>3, <2>4, <2>5, <2>7, <2>8, Zenon DEF NothingLost, K
  <1>q. QED
    BY <1>1, PlanInvHolds, PTL
=============================================================================
