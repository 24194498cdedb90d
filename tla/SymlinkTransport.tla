-------------------------- MODULE SymlinkTransport --------------------------
(***************************************************************************)
(* difz.symlinks, the attribute of a directory that keeps what its         *)
(* symlinks cannot hold: Transport::new, encode, decode and find of        *)
(* rust/src/symlink_transport.rs, byte for byte, against the reference's   *)
(* encode (src/src/symlink_transport.zig).  The reference's decode and     *)
(* find make the same checks in the same order.                            *)
(*                                                                         *)
(* Metadata is its canonical bytes and what the transport asks of it: the  *)
(* times that it has (1 modification, 2 access, 4 birth), whether it is    *)
(* empty, and whether it ties the symlink to data (holes, a hard link).    *)
(***************************************************************************)
EXTENDS ByteStrings

CONSTANTS
    Metas,          \* canonical metadata: [blob, times, empty, tied]
    RecordLists,    \* what to write
    ForgedBytes,    \* attributes that nobody wrote
    MaxBytes,       \* the largest attribute
    MaxPath         \* the longest path

VARIABLES
    step,           \* what the call does next
    given,          \* the records to write, if any
    bytes,          \* the attribute
    place, todo,    \* decoding: the cursor and the records still to come
    links,          \* the records decoded
    refusal         \* the error, "" is none

transportVars == <<step, given, bytes, place, todo, links, refusal>>

Magic == <<68, 73, 70, 90, 76, 73, 78, 75, 1>>
MaxRecords == (MaxBytes - Len(Magic) - 4) \div 31

-----------------------------------------------------------------------------
(* Bytes.  The seconds of a time, which nothing computes with, are eight.  *)

Word(n) == [i \in 1..4 |-> (n \div 256^(i - 1)) % 256]
WordAt(b, p) == b[p] + 256 * b[p + 1] + 65536 * b[p + 2] + 16777216 * b[p + 3]

\* encode_time_override.
TimeOverride(t) ==
    IF t = {} THEN <<0>>
    ELSE LET time == CHOOSE x \in t : TRUE
         IN  <<1>> \o time.sec \o Word(time.nsec)

TimeIsValid(t) == \A x \in t : x.nsec < 1000000000

BytesLess(a, b) ==
    \/ Len(a) < Len(b) /\ IsPrefix(a, b)
    \/ \E i \in 1..Min({Len(a), Len(b)}) : a[i] < b[i] /\ \A j \in 1..(i - 1) : a[j] = b[j]

-----------------------------------------------------------------------------
(* Records.                                                                *)

Bit(flags, b) == (flags \div b) % 2 = 1

\* validate_path of a name without a slash; names are in ASCII.
IsBasename(name) ==
    /\ Len(name) \in 1..MaxPath /\ name # <<46>> /\ name # <<46, 46>>
    /\ Range(name) \cap {0, 47, 92} = {}
    /\ ~(Len(name) >= 2 /\ name[1] \in (65..90) \cup (97..122) /\ name[2] = 58)

\* validate: times are kept or absent, never both, and the modification time is
\* observed exactly when it is overridden.
RecordIsValid(r) ==
    /\ (1 \in r.meta.times \/ Bit(r.absent, 1)) <=> r.observed # {}
    /\ IsBasename(r.name)
    /\ r.absent < 8 /\ \A b \in r.meta.times : ~Bit(r.absent, b)
    /\ ~(r.meta.empty /\ r.absent = 0 /\ ~r.acl /\ ~r.finder)
    /\ ~r.meta.tied

InOrder(s) == \A i \in 1..(Len(s) - 1) : BytesLess(s[i].name, s[i + 1].name)

RecordBytes(r) ==
    LET flag(b, on) == IF on THEN b ELSE 0
    IN  Word(Len(r.name)) \o Word(Len(r.meta.blob))
        \o <<r.absent + flag(8, r.acl) + flag(16, r.finder)>>
        \o TimeOverride(r.observed) \o r.name \o r.meta.blob

\* encode, once the length is known to fit.
TransportBytes(s) ==
    Magic \o Word(Len(s)) \o FlattenSeq([i \in DOMAIN s |-> RecordBytes(s[i])])

\* The reference checks and writes record by record.
ReferenceEncode(s) ==
    IF Len(s) > MaxRecords THEN [error |-> "TransportTooLarge", bytes |-> <<>>]
    ELSE LET add(out, i) ==
                CASE out.error # "" -> out
                  [] out.error = "" /\ ~(RecordIsValid(s[i]) /\ (i > 1 => BytesLess(s[i - 1].name, s[i].name))) ->
                        [error |-> "InvalidTransport", bytes |-> <<>>]
                  [] out.error = "" /\ ~TimeIsValid(s[i].observed) -> [error |-> "InvalidNsec", bytes |-> <<>>]
                  [] out.error = "" /\ Len(RecordBytes(s[i])) > MaxBytes - Len(out.bytes) ->
                        [error |-> "TransportTooLarge", bytes |-> <<>>]
                  [] OTHER -> [out EXCEPT !.bytes = @ \o RecordBytes(s[i])]
         IN  FoldLeft(add, [error |-> "", bytes |-> Magic \o Word(Len(s))], [i \in DOMAIN s |-> i])

-----------------------------------------------------------------------------
Refuse(e) == step' = "refused" /\ refusal' = e

Proceed(label) == step' = label /\ UNCHANGED refusal

\* The first record that is not valid, not in order or not in time.
NewTransport ==
    /\ step = "new"
    /\ LET bad == {i \in DOMAIN given :
                      \/ ~RecordIsValid(given[i]) \/ ~TimeIsValid(given[i].observed)
                      \/ i > 1 /\ ~BytesLess(given[i - 1].name, given[i].name)}
           first == given[Min(bad)]
           timely == RecordIsValid(first) /\ InOrder(SubSeq(given, 1, Min(bad)))
       IN  IF Len(given) > MaxRecords THEN Refuse("TransportTooLarge")
           ELSE IF bad # {} THEN Refuse(IF timely THEN "InvalidNsec" ELSE "InvalidTransport")
           ELSE Proceed("encode")
    /\ UNCHANGED <<given, bytes, place, todo, links>>

\* The whole length is known before anything is reserved.
EncodeTransport ==
    /\ step = "encode"
    /\ IF Len(TransportBytes(given)) > MaxBytes THEN Refuse("TransportTooLarge") /\ UNCHANGED bytes
       ELSE Proceed("decode") /\ bytes' = TransportBytes(given)
    /\ UNCHANGED <<given, place, todo, links>>

\* Fault: the smallest record is taken to be one byte longer than it is.
CountIsPossibleOfLonger == WordAt(bytes, 10) <= (Len(bytes) - 13) \div 32

CountIsPossible == WordAt(bytes, 10) <= (Len(bytes) - 13) \div 31

DecodeHeader ==
    /\ step = "decode"
    /\ IF Len(bytes) > MaxBytes THEN Refuse("TransportTooLarge") /\ UNCHANGED <<place, todo>>
       ELSE IF ~(IsPrefix(Magic, bytes) /\ Len(bytes) >= 13 /\ CountIsPossible)
       THEN Refuse("InvalidTransport") /\ UNCHANGED <<place, todo>>
       ELSE Proceed("records") /\ place' = 14 /\ todo' = WordAt(bytes, 10)
    /\ UNCHANGED <<given, bytes, links>>

\* The record at p and where the next begins; {} when the bytes are not one.
RecordAt(p) ==
    IF p + 9 > Len(bytes) \/ bytes[p + 8] >= 32 \/ bytes[p + 9] > 1 THEN {}
    ELSE LET name == p + 9 + (IF bytes[p + 9] = 1 THEN 13 ELSE 1)
             blob == name + WordAt(bytes, p)
             end == blob + WordAt(bytes, p + 4)
             flags == bytes[p + 8]
             time == IF bytes[p + 9] = 0 THEN {}
                     ELSE {[sec |-> SubSeq(bytes, p + 10, p + 17), nsec |-> WordAt(bytes, p + 18)]}
         IN  IF end > Len(bytes) + 1 \/ ~TimeIsValid(time) THEN {}
             ELSE {[next |-> end,
                    record |-> [name |-> SubSeq(bytes, name, blob - 1), meta |-> m, absent |-> flags % 8,
                                observed |-> time, acl |-> Bit(flags, 8), finder |-> Bit(flags, 16)]] :
                      m \in {x \in Metas : x.blob = SubSeq(bytes, blob, end - 1)}}

DecodeRecord ==
    /\ step = "records" /\ todo > 0
    /\ IF \E x \in RecordAt(place) :
             RecordIsValid(x.record) /\ (links # <<>> => BytesLess(Last(links).name, x.record.name))
       THEN /\ \E x \in RecordAt(place) : links' = Append(links, x.record) /\ place' = x.next
            /\ todo' = todo - 1 /\ UNCHANGED <<step, refusal>>
       ELSE Refuse("InvalidTransport") /\ UNCHANGED <<place, todo, links>>
    /\ UNCHANGED <<given, bytes>>

DecodeEnd ==
    /\ step = "records" /\ todo = 0
    /\ IF place = Len(bytes) + 1 THEN Proceed("decoded") ELSE Refuse("InvalidTransport")
    /\ UNCHANGED <<given, bytes, place, todo, links>>

TransportEnded == step \in {"refused", "decoded"} /\ UNCHANGED transportVars

\* find, a binary search; 0 is not found.
FindLink(s, name) ==
    LET search[low \in 0..Len(s), high \in 0..Len(s)] ==
            IF low >= high THEN 0
            ELSE LET middle == low + (high - low) \div 2
                     r == s[middle + 1]
                 IN  CASE r.name = name -> middle + 1
                       [] BytesLess(r.name, name) -> search[middle + 1, high]
                       [] BytesLess(name, r.name) -> search[low, middle]
    IN  search[0, Len(s)]

TransportIdle ==
    /\ step = "idle" /\ given = <<>> /\ bytes = <<>>
    /\ place = 1 /\ todo = 0 /\ links = <<>> /\ refusal = ""

TransportInit ==
    /\ \/ given \in RecordLists /\ bytes = <<>> /\ step = "new"
       \/ given = <<>> /\ bytes \in ForgedBytes /\ step = "decode"
    /\ place = 1 /\ todo = 0 /\ links = <<>> /\ refusal = ""

TransportNext ==
    \/ NewTransport \/ EncodeTransport \/ DecodeHeader \/ DecodeRecord \/ DecodeEnd \/ TransportEnded

-----------------------------------------------------------------------------
\* What symlinks need a directory to keep is kept exactly.  The port writes what
\* the reference writes, or refuses when it does; what was written is read back,
\* whatever the records' sizes; bytes that are accepted are those of the records
\* they stand for, each found by its name; and a count reserves no more records
\* than the bytes could hold.
TransportKept ==
    LET r == ReferenceEncode(given)
        written == given # <<>> /\ step \notin {"new", "encode"}
    IN  /\ written /\ bytes # <<>> => r.error = "" /\ r.bytes = bytes /\ step # "refused"
        /\ written /\ bytes = <<>> => r.error # ""
        /\ step = "decoded" =>
              /\ TransportBytes(links) = bytes /\ (given # <<>> => links = given)
              /\ \A i \in DOMAIN links : FindLink(links, links[i].name) = i
              /\ \A name \in {<<>>, <<97>>, <<98>>, <<99>>} :
                    FindLink(links, name) = 0 <=> \A i \in DOMAIN links : links[i].name # name
        /\ step = "records" => 31 * (Len(links) + todo) <= Len(bytes) - 13
=============================================================================
