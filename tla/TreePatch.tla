------------------------------ MODULE TreePatch ------------------------------
(***************************************************************************)
(* Directory patches (DIFZTREE v2): createPatch and applyPatchRoot of      *)
(* directory_patch.zig with the validation of directory.zig, and their     *)
(* Rust ports.  A patch is made from a source and a target snapshot, may   *)
(* be rewritten by another program that recomputes its checksum, and is    *)
(* applied by both implementations to some source under some output limit. *)
(*                                                                         *)
(* Paths are numbers in byte order; a name is one letter.  A symlink's     *)
(* target is its components: 0 holds a NUL byte, 2 is "..", the others     *)
(* are names.  The hash of a snapshot stands for the snapshot.  The        *)
(* metadata families without a meaning for the tree (xattr, acl,           *)
(* timestamps, finder) are one family, "attr".                             *)
(***************************************************************************)
EXTENDS Integers, Sequences, Functions

CONSTANTS
    Paths, Parent,      \* path numbers; Parent[p] is 0 at the top level
    Sources, Targets,   \* snapshots patches are made from
    Given,              \* snapshots patches are applied to
    Omits,              \* metadata omission masks
    Rules,              \* the filter's rules, which a patch carries
    Limits,             \* [patch, rules, entries, pattern, symlink]
    Outputs,            \* values of max_output_bytes
    Resealed            \* may another program rewrite the patch?

Families == {"attr", "sparse", "hardlink"}

Meta == [attr : BOOLEAN, hole : BOOLEAN, link : Paths \cup {0}]
Entry == [path : Paths, kind : {"file", "dir", "symlink"}, mode : Nat, data : Seq(Nat), meta : Meta]
Rule == [action : Nat, reserved : Nat, pattern : Nat, compiles : BOOLEAN]
Snapshot == [entries : Seq(Entry), root : Meta]

\* A directory precedes what it holds, in byte order.
ASSUME TreePatchAssumption ==
    /\ Paths \subseteq Nat \ {0}
    /\ Parent \in [Paths -> Paths \cup {0}] /\ \A p \in Paths : Parent[p] < p
    /\ Sources \subseteq Snapshot /\ Targets \subseteq Snapshot /\ Given \subseteq Snapshot
    /\ Omits \subseteq SUBSET Families /\ Rules \in Seq(Rule)
    /\ Limits \in [patch : Nat, rules : Nat, entries : Nat, pattern : Nat, symlink : Nat]
    /\ Outputs \subseteq Nat /\ Resealed \in BOOLEAN

NoMeta == [attr |-> FALSE, hole |-> FALSE, link |-> 0]

VARIABLES
    source, target, omit,   \* what the patch was asked for
    patch,                  \* {} or {the patch}
    edited,                 \* was it rewritten?
    given, maxOutput,       \* what it is applied to, and the limit
    pc, out, used, peak, error  \* per implementation

vars == <<source, target, omit, patch, edited, given, maxOutput, pc, out, used, peak, error>>

Impls == {"zig", "rust"}

The(S) == CHOOSE x \in S : TRUE

-----------------------------------------------------------------------------
(* Snapshots: [entries, root].                                             *)

\* findPath and findEntry: {} or {the entry}.
Find(entries, path) == {e \in Range(entries) : e.path = path}

ParentIsDirectory(entries, i) ==
    LET above == Parent[entries[i].path]
    IN  above = 0 \/ \E j \in 1..(i - 1) : entries[j].path = above /\ entries[j].kind = "dir"

Depth[p \in Paths] == IF Parent[p] = 0 THEN 0 ELSE 1 + Depth[Parent[p]]

\* validateSymlinkTarget: the depth never falls below the root.
TargetIsValid(path, components) ==
    LET depth[n \in 0..Len(components)] ==
            IF n = 0 THEN Depth[path]
            ELSE IF depth[n - 1] < 0 THEN depth[n - 1]
            ELSE IF components[n] = 2 THEN depth[n - 1] - 1 ELSE depth[n - 1] + 1
    IN  components # <<>> /\ 0 \notin Range(components) /\ depth[Len(components)] >= 0

EntryIsValid(entries, i) ==
    LET e == entries[i]
    IN  /\ e.mode \in {6, 7}
        /\ e.kind = "dir" => e.data = <<>>
        /\ e.kind = "symlink" => e.mode = 7 /\ TargetIsValid(e.path, e.data)
        /\ i > 1 => entries[i - 1].path < e.path
        /\ ParentIsDirectory(entries, i)

ValidSnapshot(entries) == \A i \in 1..Len(entries) : EntryIsValid(entries, i)

\* The hole is the first byte of the file.
HoleHolds(e) == e.meta.hole => e.kind = "file" /\ Len(e.data) >= 1 /\ e.data[1] = 0

LinkHolds(entries, i) ==
    LET e == entries[i]
    IN  e.meta.link # 0 =>
          /\ e.kind = "file"
          /\ \E j \in 1..(i - 1) :
                /\ entries[j].path = e.meta.link /\ entries[j].kind = "file"
                /\ entries[j].meta = [e.meta EXCEPT !.link = 0]
                /\ entries[j].mode = e.mode /\ entries[j].data = e.data

ValidRelations(entries) ==
    \A i \in 1..Len(entries) : HoleHolds(entries[i]) /\ LinkHolds(entries, i)

ValidRoot(root) == ~root.hole /\ root.link = 0

Valid(s) == ValidSnapshot(s.entries) /\ ValidRelations(s.entries) /\ ValidRoot(s.root)

\* createPatch refuses other trees, and rules that are not a filter's.
ASSUME CreatedFromAssumption ==
    /\ \A s \in Sources \cup Targets : Valid(s)
    /\ \A r \in Range(Rules) : r.action \in {1, 2} /\ r.reserved = 0 /\ r.compiles

\* canonicalize drops the omitted families.
Masked(meta, o) ==
    [attr |-> meta.attr /\ "attr" \notin o,
     hole |-> meta.hole /\ "sparse" \notin o,
     link |-> IF "hardlink" \in o THEN 0 ELSE meta.link]

HasOmitted(meta, o) ==
    \/ "attr" \in o /\ meta.attr
    \/ "sparse" \in o /\ meta.hole
    \/ "hardlink" \in o /\ meta.link # 0

Mask(s, o) ==
    [entries |-> [i \in 1..Len(s.entries) |->
                    [s.entries[i] EXCEPT !.meta = Masked(s.entries[i].meta, o)]],
     root |-> Masked(s.root, o)]

\* The sums of the first n numbers.
Sums(numbers) ==
    LET sum[n \in 0..Len(numbers)] == IF n = 0 THEN 0 ELSE sum[n - 1] + numbers[n] IN sum

Total(numbers) == Sums(numbers)[Len(numbers)]

OutputSize(entries) == Total([i \in DOMAIN entries |-> Len(entries[i].data)])

-----------------------------------------------------------------------------
(* Patches: the fields of the header, the rules, the entries and the       *)
(* root's metadata.  An encoded entry's payload is bytes, a path (ref) or  *)
(* a file patch (delta).                                                   *)

Encoded(e, op, bytes, ref, delta) ==
    [op |-> op, reserved |-> 0, mode |-> e.mode, path |-> e.path, bytes |-> bytes, ref |-> ref,
     delta |-> delta, meta |-> e.meta]

\* Fault: a hard link to a file that is in the source is copied from there.
EncodeEntryCopiesLinks(e, entries) ==
    LET old == Find(entries, e.path)
    IN  CASE e.kind = "dir" -> Encoded(e, "directory", <<>>, 0, {})
          [] e.kind = "symlink" -> Encoded(e, "symlink", e.data, 0, {})
          [] e.kind = "file" /\ old # {} /\ The(old).kind = "file" ->
                IF The(old).data = e.data THEN Encoded(e, "copy", <<>>, 0, {})
                ELSE Encoded(e, "delta", <<>>, 0, {[from |-> The(old).data, to |-> e.data,
                                                   sound |-> TRUE]})
          [] OTHER -> Encoded(e, "raw", e.data, 0, {})

\* createPatch's choice of an operation.
EncodeEntry(e, entries) ==
    LET old == Find(entries, e.path)
    IN  CASE e.kind = "dir" -> Encoded(e, "directory", <<>>, 0, {})
          [] e.kind = "symlink" -> Encoded(e, "symlink", e.data, 0, {})
          [] e.kind = "file" /\ e.meta.link # 0 -> Encoded(e, "hardlink", <<>>, e.meta.link, {})
          [] e.kind = "file" /\ e.meta.link = 0 /\ old # {} /\ The(old).kind = "file" ->
                IF The(old).data = e.data THEN Encoded(e, "copy", <<>>, 0, {})
                ELSE Encoded(e, "delta", <<>>, 0, {[from |-> The(old).data, to |-> e.data,
                                                   sound |-> TRUE]})
          [] OTHER -> Encoded(e, "raw", e.data, 0, {})

\* Both snapshots are valid.  What others may add: bytes after the body, or the
\* body without its last byte (cut).
CreatePatch(s, t, o) ==
    LET from == Mask(s, o)
        to == Mask(t, o)
    IN  [seal |-> "good", version |-> 2, needed |-> 2, unknown |-> FALSE,
         ruleCount |-> Len(Rules), entryCount |-> Len(to.entries), rules |-> Rules,
         omit |-> o, source |-> from, target |-> to, rooted |-> to.root # NoMeta, root |-> to.root,
         entries |-> [i \in 1..Len(to.entries) |-> EncodeEntry(to.entries[i], from.entries)],
         extra |-> 0, cut |-> FALSE]

(* Bytes.  A file patch is its header of 85 and a frame.                   *)

HeaderLength == 120
MinRule == 9
MinEntry == 41

\* The length of a path; 0 is the empty one.
PathBytes(p) == IF p = 0 THEN 0 ELSE 1 + 2 * Depth[p]
PayloadBytes(e) ==
    IF e.delta # {} THEN 85 + 9 + Len(The(e.delta).to)
    ELSE IF e.ref # 0 THEN PathBytes(e.ref)
    ELSE IF e.op = "symlink" /\ e.bytes # <<>> THEN 2 * Len(e.bytes) - 1 ELSE Len(e.bytes)
MetaBytes(m) ==
    20 + (IF m.attr THEN 12 ELSE 0) + (IF m.hole THEN 16 ELSE 0) + (IF m.link = 0 THEN 0 ELSE 4 + PathBytes(m.link))

BodyBytes(p) ==
    Total([i \in DOMAIN p.rules |-> 8 + p.rules[i].pattern])
    + Total([i \in DOMAIN p.entries |->
               LET e == p.entries[i] IN 16 + PathBytes(e.path) + PayloadBytes(e) + 4 + MetaBytes(e.meta)])
    + (IF p.rooted THEN 4 + MetaBytes(p.root) ELSE 0) + p.extra - (IF p.cut THEN 1 ELSE 0)

\* What createPatch writes.
IsWritten(p) ==
    /\ Len(p.rules) <= Limits.rules /\ Len(p.entries) <= Limits.entries
    /\ \A r \in Range(p.rules) : r.pattern \in 1..Limits.pattern
    /\ \A e \in Range(p.entries) : e.op = "symlink" => PayloadBytes(e) <= Limits.symlink
    /\ HeaderLength + BodyBytes(p) <= Limits.patch

Create ==
    /\ patch = {} /\ pc["zig"] = "decode"
    /\ LET p == CreatePatch(source, target, omit)
       IN  IF IsWritten(p) THEN patch' = {p} /\ UNCHANGED <<pc, error>>
           ELSE /\ pc' = [i \in Impls |-> "done"] /\ error' = [i \in Impls |-> "LimitExceeded"]
                /\ UNCHANGED patch
    /\ UNCHANGED <<source, target, omit, edited, given, maxOutput, out, used, peak>>

\* One field of a patch changed, and its checksum recomputed.
EntryEdits(e) ==
    {[e EXCEPT !.op = o] : o \in {"directory", "symlink", "copy", "raw", "delta", "hardlink", "unknown"}}
    \cup {[e EXCEPT !.mode = m] : m \in {6, 7, 8}}
    \cup {[e EXCEPT !.path = p] : p \in Paths \cup {0}}
    \cup {[e EXCEPT !.bytes = b] : b \in IF e.delta = {} THEN {<<>>, <<0>>, <<2, 1>>, <<1, 2, 2>>} ELSE {}}
    \cup {[e EXCEPT !.reserved = 1]}
    \cup {[e EXCEPT !.delta = {[d EXCEPT !.from = <<1, 1, 1>>] : d \in e.delta}]}
    \cup {[e EXCEPT !.delta = {[d EXCEPT !.sound = FALSE] : d \in e.delta}],
          [e EXCEPT !.delta = {[d EXCEPT !.to = <<1, 1, 1>>] : d \in e.delta}]}
    \cup {[e EXCEPT !.meta.attr = ~@], [e EXCEPT !.meta.hole = ~@]}
    \cup {[e EXCEPT !.meta.link = p] : p \in Paths \cup {0}}
    \cup {[e EXCEPT !.meta.link = p, !.ref = p] : p \in Paths}

RecordEdits(p) ==
    UNION {{[p EXCEPT !.entries = [@ EXCEPT ![i] = e]] : e \in EntryEdits(p.entries[i])} :
              i \in 1..Len(p.entries)}

RuleEdits(p) ==
    UNION {{[p EXCEPT !.rules[i].action = 3], [p EXCEPT !.rules[i].reserved = 1],
            [p EXCEPT !.rules[i].pattern = 0], [p EXCEPT !.rules[i].pattern = Limits.pattern + 1],
            [p EXCEPT !.rules[i].compiles = FALSE]} : i \in DOMAIN p.rules}

RootEdits ==
    {NoMeta, [NoMeta EXCEPT !.attr = TRUE], [NoMeta EXCEPT !.hole = TRUE]}
    \cup {[NoMeta EXCEPT !.link = p] : p \in Paths}

Edits(p) ==
    RecordEdits(p) \cup RuleEdits(p)
    \cup {[p EXCEPT !.entries = SubSeq(@, 1, i - 1) \o SubSeq(@, i + 1, Len(@))] : i \in 1..Len(p.entries)}
    \cup {[p EXCEPT !.entries = [i \in DOMAIN @ |-> @[Len(@) + 1 - i]]]}
    \cup {[p EXCEPT !.omit = o] : o \in SUBSET Families}
    \cup {[p EXCEPT !.rooted = TRUE, !.root = r] : r \in RootEdits}
    \cup {[p EXCEPT !.seal = x] : x \in {"bad", "short", "magic"}}
    \cup {[p EXCEPT !.version = 3], [p EXCEPT !.needed = 3], [p EXCEPT !.needed = 1], [p EXCEPT !.unknown = TRUE],
          [p EXCEPT !.extra = 1], [p EXCEPT !.extra = Limits.patch], [p EXCEPT !.cut = TRUE]}
    \cup {[p EXCEPT !.ruleCount = n] : n \in 0..(Limits.rules + 1)}
    \cup {[p EXCEPT !.entryCount = n] : n \in 0..(Limits.entries + 1)}

Reseal ==
    /\ Resealed /\ patch # {} /\ ~edited /\ pc["zig"] = "decode"
    /\ \E p \in Edits(The(patch)) : patch' = {p} /\ edited' = (p # The(patch))
    /\ UNCHANGED <<source, target, omit, given, maxOutput, pc, out, used, peak, error>>

-----------------------------------------------------------------------------
(* Decoding.                                                               *)

NoPayload(e) == e.bytes = <<>> /\ e.ref = 0 /\ e.delta = {}

\* A path or a file patch read as contents; a file patch holds NUL bytes.
Payload(e) == IF e.delta # {} THEN <<9, 0>> ELSE IF e.ref # 0 THEN <<9>> ELSE e.bytes

KindOf(op) ==
    CASE op = "directory" -> "dir" [] op = "symlink" -> "symlink" [] OTHER -> "file"

\* The view decodePatch validates: file contents are still the payload.
View(e) ==
    [path |-> e.path, kind |-> KindOf(e.op), mode |-> e.mode, meta |-> e.meta,
     data |-> IF e.op = "directory" THEN <<>> ELSE Payload(e)]

\* The first condition that holds names the error.
FirstOf(conditions) ==
    LET holds == {k \in DOMAIN conditions : conditions[k][1]}
    IN  IF holds = {} THEN "" ELSE conditions[CHOOSE k \in holds : \A j \in holds : k <= j][2]

\* decode_prefix, in the order of its checks.  A count is possible if the smallest
\* records fill no more than the body.
PrefixError(p) ==
    FirstOf(<<<<HeaderLength + BodyBytes(p) > Limits.patch, "LimitExceeded">>,
              <<p.seal = "short", "UnexpectedEndOfInput">>,
              <<p.seal = "magic", "InvalidMagic">>,
              <<p.version # 2, "UnsupportedVersion">>,
              <<p.seal = "bad", "PatchHashMismatch">>,
              <<p.needed > 2, "ReaderTooOld">>,
              <<p.unknown, "UnsupportedFlags">>,
              <<p.ruleCount > Limits.rules \/ p.entryCount > Limits.entries, "LimitExceeded">>,
              <<\/ p.ruleCount > BodyBytes(p) \div MinRule
                \/ p.entryCount > (BodyBytes(p) - p.ruleCount * MinRule) \div MinEntry, "UnexpectedEndOfInput">>>>)

\* The piece that a missing byte belongs to: rules, entries and root are numbered.
IsCut(p, piece) == p.cut /\ piece = Len(p.rules) + Len(p.entries) + (IF p.rooted THEN 1 ELSE 0)

RuleError(p, i) ==
    LET r == p.rules[i]
    IN  FirstOf(<<<<r.action \notin {1, 2} \/ r.reserved # 0, "InvalidRule">>,
                  <<r.pattern > Limits.pattern, "LimitExceeded">>,
                  <<r.pattern = 0, "InvalidRule">>,
                  <<IsCut(p, i), "UnexpectedEndOfInput">>>>)

\* Fault: the omission mask is not enforced.
EntryErrorOfAnyFamily(p, i) ==
    LET e == p.entries[i]
        linked == e.meta.link # 0
    IN  FirstOf(<<<<e.op = "unknown", "InvalidOperation">>,
                  <<e.reserved # 0, "UnsupportedFlags">>,
                  <<e.path = 0, "InvalidPath">>,
                  <<IsCut(p, Len(p.rules) + i), "UnexpectedEndOfInput">>,
                  <<e.op \in {"directory", "copy"} /\ ~NoPayload(e), "InvalidPayload">>,
                  <<e.op = "symlink" /\ PayloadBytes(e) > Limits.symlink, "LimitExceeded">>,
                  <<linked # (e.op = "hardlink"), "InvalidHardlinkRelation">>,
                  <<linked /\ (e.ref # e.meta.link \/ e.bytes # <<>>), "InvalidHardlinkRelation">>>>)

EntryError(p, i) ==
    LET e == p.entries[i]
        linked == e.meta.link # 0
    IN  FirstOf(<<<<e.op = "unknown", "InvalidOperation">>,
                  <<e.reserved # 0, "UnsupportedFlags">>,
                  <<e.path = 0, "InvalidPath">>,
                  <<IsCut(p, Len(p.rules) + i), "UnexpectedEndOfInput">>,
                  <<HasOmitted(e.meta, p.omit), "OmittedMetadataPresent">>,
                  <<e.op \in {"directory", "copy"} /\ ~NoPayload(e), "InvalidPayload">>,
                  <<e.op = "symlink" /\ PayloadBytes(e) > Limits.symlink, "LimitExceeded">>,
                  <<linked # (e.op = "hardlink"), "InvalidHardlinkRelation">>,
                  <<linked /\ (e.ref # e.meta.link \/ e.bytes # <<>>), "InvalidHardlinkRelation">>>>)

RootError(p) ==
    IF ~p.rooted THEN ""
    ELSE FirstOf(<<<<IsCut(p, Len(p.rules) + Len(p.entries) + 1), "UnexpectedEndOfInput">>,
                   <<HasOmitted(p.root, p.omit), "OmittedMetadataPresent">>,
                   <<p.root = NoMeta, "BadMetadata">>,
                   <<p.root.hole, "InvalidSparseExtent">>,
                   <<p.root.link # 0, "InvalidHardlinkRelation">>>>)

\* The body, in order.  Under a count that is not that of the records one record
\* is read as another (Misread): its lengths do not fit.
BodyError(p) ==
    LET n == Len(p.entries)
        read == IF p.entryCount < n THEN p.entryCount ELSE n
        short == p.entryCount < n /\ ~p.rooted
        found == [i \in DOMAIN p.rules |-> RuleError(p, i)]
                 \o <<IF p.ruleCount # Len(p.rules) THEN "Misread" ELSE "",
                      IF \A r \in Range(p.rules) : r.compiles THEN "" ELSE "Filter">>
                 \o [i \in 1..read |-> EntryError(p, i)]
                 \o <<IF p.entryCount # n /\ ~short THEN "Misread" ELSE "", RootError(p),
                      IF short \/ p.extra > 0 THEN "TrailingData" ELSE "">>
        first == FirstOf([k \in DOMAIN found |-> <<found[k] # "", found[k]>>])
    IN  IF first # "" THEN first
        ELSE IF ValidSnapshot([i \in 1..n |-> View(p.entries[i])]) THEN "" ELSE "InvalidSnapshot"

\* The two implementations share nothing: one runs after the other.
Runs(i, label) == patch # {} /\ pc[i] = label /\ (i = "rust" => pc["zig"] = "done")

Goto(i, label) == pc' = [pc EXCEPT ![i] = label]

Fail(i, e) == Goto(i, "done") /\ error' = [error EXCEPT ![i] = e]

request == <<source, target, omit, patch, edited, given, maxOutput>>

\* decodePatch and ParsedPatch::decode make the same checks in the same order.
\* After the header, room for the records that it counts is reserved.
DecodePrefix(i) ==
    /\ Runs(i, "decode")
    /\ LET e == PrefixError(The(patch))
       IN  IF e = "" THEN Goto(i, "body") /\ UNCHANGED error ELSE Fail(i, e)
    /\ UNCHANGED <<request, out, used, peak>>

DecodeBody(i) ==
    /\ Runs(i, "body")
    /\ LET e == BodyError(The(patch))
       IN  IF e = "" THEN Goto(i, "verify") /\ UNCHANGED error ELSE Fail(i, e)
    /\ UNCHANGED <<request, out, used, peak>>

\* The source's hash, after masking.
Verify(i) ==
    /\ Runs(i, "verify")
    /\ LET same == Mask(given, The(patch).omit) = The(patch).source
       IN  \/ same /\ Goto(i, "expand") /\ UNCHANGED error
           \/ ~same /\ Fail(i, "SourceHashMismatch")
    /\ UNCHANGED <<request, out, used, peak>>

-----------------------------------------------------------------------------
(* Expanding.                                                              *)

Ok(data) == [data |-> data, error |-> "none"]
Bad(e) == [data |-> <<>>, error |-> e]

\* file_patch.patch on an entry's payload.
FilePatchResult(old, e) ==
    IF e.delta = {} THEN Bad("File")
    ELSE LET d == The(e.delta)
         IN  IF old # d.from THEN Bad("WrongSource")
             ELSE IF ~d.sound THEN Bad("File") ELSE Ok(d.to)

\* The earlier file a hard link names.
LinkedFile(i, e) ==
    LET c == Find(out[i], e.ref)
    IN  IF c # {} /\ The(c).kind = "file" /\ The(c).meta.link = 0 THEN Ok(The(c).data)
        ELSE Bad("InvalidHardlinkRelation")

SourceFile(e) ==
    LET old == Find(given.entries, e.path)
    IN  IF old = {} THEN Bad("MissingSourceEntry")
        ELSE IF The(old).kind # "file" THEN Bad("SourceKindMismatch") ELSE Ok(The(old).data)

\* The contents of entry e as applyPatchRoot builds them, before its limit check.
ZigContents(i, e) ==
    CASE e.op = "directory" -> Ok(<<>>)
      [] e.op \in {"symlink", "raw"} -> Ok(Payload(e))
      [] e.op = "hardlink" -> LinkedFile(i, e)
      [] e.op = "copy" -> SourceFile(e)
      [] e.op = "delta" /\ SourceFile(e).error # "none" -> SourceFile(e)
      [] OTHER -> FilePatchResult(SourceFile(e).data, e)

LimitedTo(c, room) ==
    IF c.error = "none" /\ Len(c.data) > room THEN Bad("LimitExceeded") ELSE c

\* A file patch for this source is given its buffer before it is decoded.
DeltaBuffer(e, c) ==
    IF e.delta # {} /\ c.error \in {"none", "File"} THEN Len(The(e.delta).to) ELSE 0

\* applyPatchRoot copies or expands the data, then checks; a hard link shares it.
ZigExpands(i, e, room) ==
    LET c == ZigContents(i, e)
    IN  [result |-> LimitedTo(c, room),
         bytes |-> CASE e.op = "hardlink" -> 0
                     [] e.op = "delta" -> DeltaBuffer(e, c)
                     [] OTHER -> Len(c.data)]

\* Fault: delta is not told what is left of the budget.
RustContentsUnbounded(i, e, room) == ZigContents(i, e)

\* Fault: the limit is looked at before the source.
RustContentsLimitFirst(i, e, room) ==
    IF e.op = "delta" /\ SourceFile(e).error = "none" /\ e.delta # {}
       /\ Len(The(e.delta).to) > room
    THEN Bad("LimitExceeded") ELSE ZigContents(i, e)

\* apply's delta looks at the patch's target length before it expands.
RustContents(i, e, room) ==
    IF e.op = "delta" /\ SourceFile(e).error = "none" /\ e.delta # {}
       /\ Len(The(e.delta).to) > room
    THEN IF SourceFile(e).data # The(e.delta).from THEN Bad("WrongSource")
         ELSE Bad("LimitExceeded")
    ELSE ZigContents(i, e)

\* A hard link copies the contents only when they were expanded.
RustExpands(i, e, room) ==
    LET c == RustContents(i, e, room)
        owned == \E d \in Find(The(patch).entries, e.ref) : d.op = "delta"
    IN  [result |-> LimitedTo(c, room),
         bytes |-> CASE e.op = "delta" -> DeltaBuffer(e, c)
                     [] e.op = "hardlink" /\ owned /\ Len(c.data) <= room -> Len(c.data)
                     [] OTHER -> 0]

Expands(i, e, room) ==
    IF i = "zig" THEN ZigExpands(i, e, room) ELSE RustExpands(i, e, room)

\* The next entry.
Expand(i) ==
    /\ Runs(i, "expand") /\ Len(out[i]) < Len(The(patch).entries)
    /\ LET e == The(patch).entries[Len(out[i]) + 1]
           x == Expands(i, e, maxOutput - used[i])
           n == used[i] + x.bytes
       IN  /\ peak' = [peak EXCEPT ![i] = IF n > @ THEN n ELSE @]
           /\ \/ /\ x.result.error = "none"
                 /\ out' = [out EXCEPT ![i] = Append(@,
                       [path |-> e.path, kind |-> KindOf(e.op), mode |-> e.mode,
                        data |-> x.result.data, meta |-> e.meta])]
                 /\ used' = [used EXCEPT ![i] = @ + Len(x.result.data)]
                 /\ UNCHANGED <<pc, error>>
              \/ /\ x.result.error # "none"
                 /\ Fail(i, x.result.error)
                 /\ UNCHANGED <<out, used>>
    /\ UNCHANGED request

Result(i) == [entries |-> out[i], root |-> The(patch).root]

\* Validate what was built and compare its hash.
Finish(i) ==
    /\ Runs(i, "expand") /\ Len(out[i]) = Len(The(patch).entries)
    /\ \/ ~Valid(Result(i)) /\ Fail(i, "InvalidTarget")
       \/ Valid(Result(i)) /\ Result(i) # The(patch).target /\ Fail(i, "TargetHashMismatch")
       \/ Valid(Result(i)) /\ Result(i) = The(patch).target /\ Fail(i, "none")
    /\ UNCHANGED <<request, out, used, peak>>

Init ==
    /\ source \in Sources /\ target \in Targets /\ omit \in Omits
    /\ patch = {} /\ edited = FALSE
    /\ given \in Given \cup {source} /\ maxOutput \in Outputs
    /\ pc = [i \in Impls |-> "decode"]
    /\ out = [i \in Impls |-> <<>>]
    /\ used = [i \in Impls |-> 0] /\ peak = used
    /\ error = [i \in Impls |-> "none"]

Terminated == (\A i \in Impls : pc[i] = "done") /\ UNCHANGED vars

Next ==
    \/ Create \/ Reseal
    \/ \E i \in Impls : DecodePrefix(i) \/ DecodeBody(i) \/ Verify(i) \/ Expand(i) \/ Finish(i)
    \/ Terminated

Spec == Init /\ [][Next]_vars

-----------------------------------------------------------------------------
Accepted(i) == pc[i] = "done" /\ error[i] = "none"

\* A patch that was written is read: its own limits and bounds never refuse it.  It
\* applies to every source that equals the one it was made from in the families
\* the patch keeps, and gives the target in those families, unless the output
\* limit forbids it.
CreatedApplies ==
    \A i \in Impls :
        pc[i] = "done" /\ patch # {} /\ ~edited /\ Mask(given, omit) = Mask(source, omit) =>
            IF OutputSize(target.entries) <= maxOutput
            THEN error[i] = "none" /\ Result(i) = Mask(target, omit)
            ELSE error[i] = "LimitExceeded"

\* Lexically, no step along a symlink's target leaves the tree.
StaysInside(e) ==
    LET steps == [n \in DOMAIN e.data |-> IF e.data[n] = 2 THEN -1 ELSE 1]
    IN  \A n \in 0..Len(e.data) : Depth[e.path] + Sums(steps)[n] >= 0

\* Whatever was rewritten in a patch: no more is reserved than the body could
\* hold, and a tree that is accepted is valid, is within the limit, has no
\* metadata of a family the patch says it omits, and has no symlink that leads
\* out of it.
AcceptedIsSound ==
    \A i \in Impls :
        /\ pc[i] = "body" => MinRule * The(patch).ruleCount + MinEntry * The(patch).entryCount <= BodyBytes(The(patch))
        /\ Accepted(i) =>
              /\ Valid(Result(i))
              /\ OutputSize(out[i]) <= maxOutput
              /\ Mask(Result(i), The(patch).omit) = Result(i)
              /\ \A e \in Range(out[i]) : e.kind = "symlink" => StaysInside(e)

\* apply in Rust gives what applyPatchRoot gives.  Its errors are the same, but
\* for a file patch over the budget that would not have decoded.
PortAgrees ==
    pc["rust"] = "done" =>
        \/ error["zig"] = error["rust"] /\ out["zig"] = out["rust"]
        \/ error["rust"] = "LimitExceeded" /\ error["zig"] = "File"

\* Expanding stays within the output limit at every moment, in the port.
PortWithinLimit == peak["rust"] <= maxOutput
=============================================================================
