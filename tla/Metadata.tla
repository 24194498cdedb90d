------------------------------ MODULE Metadata ------------------------------
(***************************************************************************)
(* Metadata records: their canonical form, its bytes, and reading it back. *)
(* The port's normalize, decode and borrowing_omitting run step by step    *)
(* (rust/src/metadata_*.rs) and are compared with the reference's          *)
(* canonicalize and writeCanonical (src/src/metadata.zig).  Both readers   *)
(* take the same fields in the same order with the same checks, so Decode  *)
(* stands for either.                                                      *)
(*                                                                         *)
(* An integer field of any width is one number on the wire, and a blob is  *)
(* its length and its letters.  An attribute's name has at most one        *)
(* letter, which stands for a spelling: 0 is no name at all (NUL, slash),  *)
(* 1 has a Linux namespace ("user."), 2 and 5 are plain, 3 has a colon, 4  *)
(* is one of the reserved difz names.  An ACL entry's name is its letters, *)
(* and 0 is again one that no name may have.                               *)
(***************************************************************************)
EXTENDS ByteStrings

CONSTANTS
    Inputs,         \* what to normalize: a record and the families to omit
    Omits,          \* sets of families to leave out of a canonical record
    Forged,         \* byte strings to decode that nobody wrote
    MaxOffset,      \* the largest u64
    Nanoseconds     \* nanoseconds in a second

Families == {"xattr", "acl", "timestamps", "finder", "sparse", "hardlink"}
Tags == 1..6
Named == {4, 5}

\* Optional fields are sets of at most one value.
Empty == [xattrs |-> <<>>, aces |-> <<>>, acl |-> {}, mtime |-> {}, atime |-> {}, btime |-> {},
          flags |-> 0, info |-> {}, holes |-> <<>>, link |-> {}]

VARIABLES
    raw, omit,      \* what normalize was given
    meta,           \* the record being normalized or decoded
    pc,
    error,
    at, count,      \* merging holes: the next hole and the holes kept
    wire, pos,      \* decoding: the bytes and where the cursor is; 0 before
    left,           \* records of the list still to be read
    sent            \* the canonical record that was encoded, if any

vars == <<raw, omit, meta, pc, error, at, count, wire, pos, left, sent>>

-----------------------------------------------------------------------------
(* What each family checks.  "" is no error.                               *)

Duplicates(s, same(_, _)) == \E i, j \in DOMAIN s : i < j /\ same(s[i], s[j])

NameError(x) ==
    CASE x.name # <<>> /\ x.name[1] = 4 -> "ReservedTransportName"
      [] x.name = <<>> -> "EmptyName"
      [] x.class = 1 /\ x.name # <<>> /\ x.name[1] \in {0, 1, 3} -> "InvalidLogicalName"
      [] x.class = 2 /\ x.name # <<>> /\ x.name[1] = 0 -> "InvalidRawName"
      [] OTHER -> ""

AceNameError(a) ==
    IF a.tag \in Named THEN IF a.name = <<>> \/ 0 \in Range(a.name) THEN "InvalidAceName" ELSE ""
    ELSE IF a.name # <<>> THEN "InvalidAceName" ELSE ""

HoleRangeError(h) ==
    CASE h.length = 0 -> "ZeroLengthHole"
      [] h.length # 0 /\ h.offset + h.length > MaxOffset -> "HoleOverflow"
      [] OTHER -> ""

\* The error of the first bad element.
FirstError(s, e(_)) ==
    LET bad == {i \in DOMAIN s : e(s[i]) # ""}
    IN  IF bad = {} THEN "" ELSE e(s[Min(bad)])

SameXattr(x, y) == x.class = y.class /\ x.name = y.name
SameAce(a, b) == a.tag = b.tag /\ a.name = b.name

XattrsError(s) ==
    CASE FirstError(s, NameError) # "" -> FirstError(s, NameError)
      [] FirstError(s, NameError) = "" /\ Duplicates(s, SameXattr) -> "DuplicateXattr"
      [] OTHER -> ""
AcesError(s) ==
    CASE FirstError(s, AceNameError) # "" -> FirstError(s, AceNameError)
      [] FirstError(s, AceNameError) = "" /\ Duplicates(s, SameAce) -> "DuplicateAce"
      [] OTHER -> ""
AclError(m) == IF \E a \in m.acl : a.bytes = <<>> THEN "EmptyNativeAcl" ELSE ""
TimesError(m) ==
    IF \E t \in m.mtime \cup m.atime \cup m.btime : t.nsec >= Nanoseconds THEN "InvalidNsec" ELSE ""
LinkError(m) == IF \E p \in m.link : p = <<>> \/ p[1] = 0 THEN "InvalidHardlink" ELSE ""

-----------------------------------------------------------------------------
(* Order.                                                                  *)

\* Byte by byte.
NameLess(n, m) ==
    \/ Len(n) < Len(m) /\ IsPrefix(n, m)
    \/ \E i \in DOMAIN n \cap DOMAIN m : n[i] < m[i] /\ \A j \in 1..(i - 1) : n[j] = m[j]
XattrLess(x, y) == x.class < y.class \/ (x.class = y.class /\ NameLess(x.name, y.name))
AceLess(a, b) == a.tag < b.tag \/ (a.tag = b.tag /\ NameLess(a.name, b.name))
HoleLess(g, h) == g.offset < h.offset

\* What an unstable sort may return: equals come out in any order.
Sorted(s, less(_, _)) ==
    IF \A i, j \in DOMAIN s : i = j \/ less(s[i], s[j]) \/ less(s[j], s[i]) THEN {SortSeq(s, less)}
    ELSE
    {t \in {[i \in DOMAIN s |-> s[f[i]]] :
              f \in {g \in [DOMAIN s -> DOMAIN s] : \A i, j \in DOMAIN s : g[i] = g[j] => i = j}} :
        \A i \in 1..(Len(s) - 1) : ~less(t[i + 1], t[i])}

Increasing(s, less(_, _)) == \A i \in 1..(Len(s) - 1) : less(s[i], s[i + 1])

End(h) == h.offset + h.length

\* validate: is this record in canonical form?
ValidateError(m) ==
    LET first(errors) == FirstError(errors, LAMBDA e : e)
        order(s, less(_, _)) == IF Increasing(s, less) THEN "" ELSE "BadMetadata"
    IN  first(<<XattrsError(m.xattrs), order(m.xattrs, XattrLess),
                AcesError(m.aces), order(m.aces, AceLess),
                AclError(m), TimesError(m), FirstError(m.holes, HoleRangeError),
                order(m.holes, LAMBDA g, h : End(g) < h.offset), LinkError(m)>>)

-----------------------------------------------------------------------------
(* The reference's canonicalize.                                           *)

WithoutFamilies(m, families) ==
    LET keep(f, x, none) == IF f \in families THEN none ELSE x
    IN  [xattrs |-> keep("xattr", m.xattrs, <<>>), aces |-> keep("acl", m.aces, <<>>),
         acl |-> keep("acl", m.acl, {}), mtime |-> keep("timestamps", m.mtime, {}),
         atime |-> keep("timestamps", m.atime, {}), btime |-> keep("timestamps", m.btime, {}),
         flags |-> keep("finder", m.flags, 0), info |-> keep("finder", m.info, {}),
         holes |-> keep("sparse", m.holes, <<>>), link |-> keep("hardlink", m.link, {})]

CanonicalXattrs(s) == SortSeq(s, XattrLess)
CanonicalAces(s) == SortSeq(s, AceLess)

CanonicalHoles(s) ==
    FoldLeft(LAMBDA kept, h :
                IF kept # <<>> /\ h.offset <= End(Last(kept))
                THEN IF End(h) > End(Last(kept))
                     THEN Append(Front(kept), [Last(kept) EXCEPT !.length = End(h) - Last(kept).offset])
                     ELSE kept
                ELSE Append(kept, h),
             <<>>, SortSeq(s, HoleLess))

Canonicalize(m, families) ==
    LET r == WithoutFamilies(m, families)
        e == FirstError(<<XattrsError(r.xattrs), AcesError(r.aces), AclError(r), TimesError(r),
                          FirstError(r.holes, HoleRangeError), LinkError(r)>>, LAMBDA x : x)
    IN  [error |-> e,
         meta |-> IF e # "" THEN Empty
                  ELSE [r EXCEPT !.xattrs = CanonicalXattrs(@), !.aces = CanonicalAces(@),
                                 !.holes = CanonicalHoles(@)]]

-----------------------------------------------------------------------------
(* The bytes.                                                              *)

Blob(s) == <<Len(s)>> \o s
Optional(x, bytes(_)) == IF x = {} THEN <<0>> ELSE bytes(CHOOSE y \in x : TRUE)
Listed(s, bytes(_)) == <<Len(s)>> \o FlattenSeq([i \in DOMAIN s |-> bytes(s[i])])
Present(x, bit) == IF x = {} THEN 0 ELSE bit
TimeBytes(x) == IF x = {} THEN <<>> ELSE LET t == CHOOSE y \in x : TRUE IN <<t.sec, t.nsec>>

WriteTimes(m) ==
    <<Present(m.mtime, 1) + Present(m.atime, 2) + Present(m.btime, 4)>>
    \o TimeBytes(m.mtime) \o TimeBytes(m.atime) \o TimeBytes(m.btime)

WriteCanonical(m) ==
    Listed(m.xattrs, LAMBDA x : <<x.class>> \o Blob(x.name) \o Blob(x.value))
    \o Listed(m.aces, LAMBDA a : <<a.tag, a.bits>> \o Blob(a.name))
    \o Optional(m.acl, LAMBDA a : <<a.origin>> \o Blob(a.bytes))
    \o WriteTimes(m)
    \o <<m.flags>> \o Optional(m.info, LAMBDA b : <<1, b>>)
    \o Listed(m.holes, LAMBDA h : <<h.offset, h.length>>)
    \o Optional(m.link, LAMBDA p : <<1>> \o Blob(p))

-----------------------------------------------------------------------------
(* The port's normalize.                                                   *)

Goto(label) == pc' = label /\ UNCHANGED error
Fail(e) == pc' = "failed" /\ error' = e
Check(e, label) == IF e = "" THEN Goto(label) ELSE Fail(e)

Normalizing == <<at, count>>
Decoding == <<wire, pos, left, sent>>

Omit ==
    /\ pc = "omit"
    /\ meta' = WithoutFamilies(meta, omit)
    /\ Goto("xattrs")
    /\ UNCHANGED <<raw, omit, Normalizing, Decoding>>

NormalizeXattrs ==
    /\ pc = "xattrs"
    /\ \E s \in Sorted(meta.xattrs, XattrLess) : meta' = [meta EXCEPT !.xattrs = s]
    /\ Check(XattrsError(meta.xattrs), "aces")
    /\ UNCHANGED <<raw, omit, Normalizing, Decoding>>

NormalizeAces ==
    /\ pc = "aces"
    /\ \E s \in Sorted(meta.aces, AceLess) : meta' = [meta EXCEPT !.aces = s]
    /\ Check(AcesError(meta.aces), "fields")
    /\ UNCHANGED <<raw, omit, Normalizing, Decoding>>

\* The native ACL, the times and the range of each hole; the holes are sorted.
NormalizeFields ==
    /\ pc = "fields"
    /\ \E s \in Sorted(meta.holes, HoleLess) : meta' = [meta EXCEPT !.holes = s]
    /\ Check(FirstError(<<AclError(meta), TimesError(meta), FirstError(meta.holes, HoleRangeError)>>,
                        LAMBDA e : e), "merge")
    /\ at' = 1 /\ count' = 0
    /\ UNCHANGED <<raw, omit, Decoding>>

\* Fault: a hole inside the one before cuts that short.
MergedLengthOfLast(previous, hole) == End(hole) - previous.offset

MergedLength(previous, hole) == Max({End(previous), End(hole)}) - previous.offset

\* In place: holes[1..count] are kept, holes[at..] are still to come.
MergeHole ==
    /\ pc = "merge" /\ at <= Len(meta.holes)
    /\ LET hole == meta.holes[at]
       IN  IF count # 0 /\ hole.offset <= End(meta.holes[count])
           THEN /\ meta' = [meta EXCEPT !.holes[count].length = MergedLength(meta.holes[count], hole)]
                /\ UNCHANGED count
           ELSE /\ meta' = [meta EXCEPT !.holes[count + 1] = hole]
                /\ count' = count + 1
    /\ at' = at + 1
    /\ UNCHANGED <<raw, omit, pc, error, Decoding>>

\* truncate, then new.
Validate ==
    /\ pc = "merge" /\ at > Len(meta.holes)
    /\ meta' = [meta EXCEPT !.holes = SubSeq(@, 1, count)]
    /\ Check(ValidateError(meta'), "canonical")
    /\ UNCHANGED <<raw, omit, Normalizing, Decoding>>

-----------------------------------------------------------------------------
(* The port's decode.                                                      *)

Encode ==
    /\ pc = "canonical"
    /\ wire' = WriteCanonical(meta) /\ sent' = {meta}
    /\ meta' = Empty /\ pos' = 1 /\ left' = 0
    /\ Goto("xattr count")
    /\ UNCHANGED <<raw, omit, Normalizing>>

Fits(p, n) == p + n - 1 <= Len(wire)
BlobFits(p) == Fits(p, 1) /\ Fits(p + 1, wire[p])
BlobAt(p) == SubSeq(wire, p + 1, p + wire[p])
AfterBlob(p) == p + 1 + wire[p]

\* What follows a list of records.
Following == [xattr |-> "ace count", ace |-> "acl", hole |-> "link"]

CountFits(size) == wire[pos] <= (Len(wire) - pos) \div size

\* vector: the count of a list, each of whose records has at least size bytes.
ReadCount(label, list, size) ==
    /\ pc = label
    /\ IF Fits(pos, 1) /\ CountFits(size)
       THEN /\ left' = wire[pos] /\ pos' = pos + 1
            /\ Goto(IF wire[pos] = 0 THEN Following[list] ELSE list)
       ELSE Fail("TruncatedMetadata") /\ UNCHANGED <<left, pos>>
    /\ UNCHANGED <<raw, omit, meta, Normalizing, wire, sent>>

ReadCounts ==
    \/ ReadCount("xattr count", "xattr", 3)
    \/ ReadCount("ace count", "ace", 3)
    \/ ReadCount("hole count", "hole", 2)

\* One record of a list, or its error, and where it ends.
ReadRecord(list, e, record, next) ==
    /\ pc = list
    /\ IF e # "" THEN Fail(e) /\ UNCHANGED <<meta, pos, left>>
       ELSE /\ meta' = [meta EXCEPT ![IF list = "xattr" THEN "xattrs" ELSE IF list = "ace" THEN "aces" ELSE "holes"]
                                      = Append(@, record)]
            /\ pos' = next /\ left' = left - 1
            /\ Goto(IF left = 1 THEN Following[list] ELSE list)
    /\ UNCHANGED <<raw, omit, Normalizing, wire, sent>>

XattrReadError ==
    CASE ~Fits(pos, 1) -> "TruncatedMetadata"
      [] Fits(pos, 1) /\ wire[pos] \notin {1, 2} -> "BadMetadata"
      [] Fits(pos, 1) /\ wire[pos] \in {1, 2} ->
            IF BlobFits(pos + 1) /\ BlobFits(AfterBlob(pos + 1)) THEN "" ELSE "TruncatedMetadata"

ReadXattr ==
    IF pc # "xattr" THEN FALSE
    ELSE IF XattrReadError # "" THEN ReadRecord("xattr", XattrReadError, <<>>, pos)
    ELSE LET v == AfterBlob(pos + 1)
         IN  ReadRecord("xattr", "", [class |-> wire[pos], name |-> BlobAt(pos + 1), value |-> BlobAt(v)],
                        AfterBlob(v))

AceReadError ==
    CASE ~Fits(pos, 1) -> "TruncatedMetadata"
      [] Fits(pos, 1) /\ wire[pos] \notin Tags -> "BadMetadata"
      [] Fits(pos, 1) /\ wire[pos] \in Tags ->
            IF ~Fits(pos, 2) THEN "TruncatedMetadata"
            ELSE IF wire[pos + 1] > 7 THEN "BadMetadata"
            ELSE IF BlobFits(pos + 2) THEN "" ELSE "TruncatedMetadata"

ReadAce ==
    IF pc # "ace" THEN FALSE
    ELSE IF AceReadError # "" THEN ReadRecord("ace", AceReadError, <<>>, pos)
    ELSE ReadRecord("ace", "", [tag |-> wire[pos], bits |-> wire[pos + 1], name |-> BlobAt(pos + 2)],
                    AfterBlob(pos + 2))

ReadHole ==
    IF pc # "hole" THEN FALSE
    ELSE IF ~Fits(pos, 2) THEN ReadRecord("hole", "TruncatedMetadata", <<>>, pos)
    ELSE ReadRecord("hole", "", [offset |-> wire[pos], length |-> wire[pos + 1]], pos + 2)

\* A field that is not a list: its error, or what it is and where it ends.
ReadField(e, m, next, label) ==
    /\ IF e # "" THEN Fail(e) /\ UNCHANGED <<meta, pos>>
       ELSE meta' = m /\ pos' = next /\ Goto(label)
    /\ UNCHANGED <<raw, omit, Normalizing, wire, left, sent>>

ReadAcl ==
    /\ pc = "acl"
    /\ IF ~Fits(pos, 1) THEN ReadField("TruncatedMetadata", meta, pos, "")
       ELSE IF wire[pos] = 0 THEN ReadField("", meta, pos + 1, "times")
       ELSE IF wire[pos] > 3 THEN ReadField("BadMetadata", meta, pos, "")
       ELSE IF ~BlobFits(pos + 1) THEN ReadField("TruncatedMetadata", meta, pos, "")
       ELSE ReadField("", [meta EXCEPT !.acl = {[origin |-> wire[pos], bytes |-> BlobAt(pos + 1)]}],
                      AfterBlob(pos + 1), "times")

ReadTimes ==
    /\ pc = "times"
    /\ IF ~Fits(pos, 1) THEN ReadField("TruncatedMetadata", meta, pos, "")
       ELSE IF wire[pos] > 7 THEN ReadField("BadMetadata", meta, pos, "")
       ELSE LET bit(i) == (wire[pos] \div i) % 2
                before == <<0, bit(1), bit(1) + bit(2)>>
                start(k) == pos + 1 + 2 * before[k]
                here(k) == bit(<<1, 2, 4>>[k]) = 1
                bad(k) == CASE ~here(k) -> ""
                            [] here(k) /\ ~Fits(start(k), 2) -> "TruncatedMetadata"
                            [] here(k) /\ Fits(start(k), 2) ->
                                  IF wire[start(k) + 1] >= Nanoseconds THEN "InvalidNsec" ELSE ""
                time(k) == IF here(k) THEN {[sec |-> wire[start(k)], nsec |-> wire[start(k) + 1]]} ELSE {}
                e == FirstError(<<1, 2, 3>>, bad)
            IN  IF e # "" THEN ReadField(e, meta, pos, "")
                ELSE ReadField("", [meta EXCEPT !.mtime = time(1), !.atime = time(2), !.btime = time(3)],
                               pos + 1 + 2 * (bit(1) + bit(2) + bit(4)), "finder")

ReadFinder ==
    /\ pc = "finder"
    /\ IF ~Fits(pos, 2) THEN ReadField("TruncatedMetadata", meta, pos, "")
       ELSE IF wire[pos + 1] > 1 THEN ReadField("BadMetadata", meta, pos, "")
       ELSE IF wire[pos + 1] = 0 THEN ReadField("", [meta EXCEPT !.flags = wire[pos]], pos + 2, "hole count")
       ELSE IF ~Fits(pos, 3) THEN ReadField("TruncatedMetadata", meta, pos, "")
       ELSE ReadField("", [meta EXCEPT !.flags = wire[pos], !.info = {wire[pos + 2]}], pos + 3, "hole count")

ReadLink ==
    /\ pc = "link"
    /\ IF ~Fits(pos, 1) THEN ReadField("TruncatedMetadata", meta, pos, "")
       ELSE IF wire[pos] > 1 THEN ReadField("BadMetadata", meta, pos, "")
       ELSE IF wire[pos] = 0 THEN ReadField("", meta, pos + 1, "end")
       ELSE IF ~BlobFits(pos + 1) THEN ReadField("TruncatedMetadata", meta, pos, "")
       ELSE ReadField("", [meta EXCEPT !.link = {BlobAt(pos + 1)}], AfterBlob(pos + 1), "end")

\* Fault: bytes after the record are ignored.
ReadEndTrailing ==
    /\ pc = "end"
    /\ ReadField(ValidateError(meta), meta, pos, "decoded")

\* Everything must have been read, and the record be canonical.
ReadEnd ==
    /\ pc = "end"
    /\ ReadField(IF pos # Len(wire) + 1 THEN "TrailingMetadata" ELSE ValidateError(meta), meta, pos, "decoded")

-----------------------------------------------------------------------------
\* Fault: the birth time is borrowed whatever is omitted.
BorrowOmittingKeeps ==
    /\ pc = "decoded" /\ sent # {}
    /\ \E families \in Omits :
          /\ omit' = omit \cup families
          /\ meta' = [WithoutFamilies(meta, families) EXCEPT !.btime = meta.btime]
    /\ Check(ValidateError(meta'), "borrowed")
    /\ UNCHANGED <<raw, Normalizing, Decoding>>

\* borrowing_omitting: leave families out of a canonical record.
BorrowOmitting ==
    /\ pc = "decoded" /\ sent # {}
    /\ \E families \in Omits :
          /\ omit' = omit \cup families
          /\ meta' = WithoutFamilies(meta, families)
    /\ Check(ValidateError(meta'), "borrowed")
    /\ UNCHANGED <<raw, Normalizing, Decoding>>

Start(record, families, bytes, label) ==
    /\ raw = record /\ omit = families /\ wire = bytes /\ pc = label
    /\ meta = record /\ error = "" /\ at = 1 /\ count = 0 /\ left = 0 /\ sent = {}
    /\ pos = IF label = "omit" THEN 0 ELSE 1

Init ==
    \/ \E i \in Inputs : Start(i.record, i.omit, <<>>, "omit")
    \/ \E w \in Forged : Start(Empty, {}, w, "xattr count")

Normalize ==
    \/ Omit \/ NormalizeXattrs \/ NormalizeAces \/ NormalizeFields \/ MergeHole \/ Validate

Decode ==
    \/ ReadCounts \/ ReadXattr \/ ReadAce \/ ReadHole \/ ReadAcl \/ ReadTimes \/ ReadFinder
    \/ ReadLink \/ ReadEnd

MetadataNext == Normalize \/ Encode \/ Decode \/ BorrowOmitting

-----------------------------------------------------------------------------
\* The port's normal form is the reference's, and so is the first error that it
\* reports, though it sorts unstably, merges in place, and may leave families out
\* of a record that is canonical already (borrowing_omitting).
NormalizeAgrees ==
    LET c == Canonicalize(raw, omit)
    IN  /\ pc \in {"canonical", "borrowed"} => c.error = "" /\ meta = c.meta
        /\ pc = "failed" /\ pos = 0 /\ error # "PlanImpossible" => error = c.error

Covered(holes) == UNION {h.offset..(End(h) - 1) : h \in Range(holes)}

\* Normalizing loses nothing: the attributes and entries are those that were
\* given, in order and once, and the holes cover the same bytes and never touch.
NormalFormKeepsAll ==
    pc = "canonical" =>
        /\ "xattr" \notin omit => Range(meta.xattrs) = Range(raw.xattrs)
        /\ "acl" \notin omit => Range(meta.aces) = Range(raw.aces) /\ meta.acl = raw.acl
        /\ "sparse" \notin omit => Covered(meta.holes) = Covered(raw.holes)
        /\ \A i, j \in DOMAIN meta.holes : i < j => End(meta.holes[i]) < meta.holes[j].offset
        /\ Increasing(meta.xattrs, XattrLess) /\ Increasing(meta.aces, AceLess)

\* A record has one encoding.  What was written is read back, and bytes that are
\* accepted, whoever wrote them, are those of the record they stand for: a hash
\* of the record is a hash of the bytes.  On the way a count reserves no more
\* descriptors than the bytes could hold, and the cursor stays within them.
OneEncoding ==
    /\ pc = "decoded" => WriteCanonical(meta) = wire
    /\ sent # {} => pc # "failed"
    /\ pc = "decoded" /\ sent # {} => meta \in sent
    /\ pc = "xattr" => 3 * (Len(meta.xattrs) + left) < Len(wire)
    /\ pc = "ace" => 3 * (Len(meta.aces) + left) < Len(wire)
    /\ pc = "hole" => 2 * (Len(meta.holes) + left) < Len(wire)
    /\ pos <= Len(wire) + 1
=============================================================================
