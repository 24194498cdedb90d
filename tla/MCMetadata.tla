----------------------------- MODULE MCMetadata -----------------------------
(***************************************************************************)
(* Records that are rich in one family at a time, records that combine all *)
(* families, the bytes of records that are not canonical, damaged bytes,   *)
(* and every short byte string.                                            *)
(***************************************************************************)
EXTENDS EntryMetadata

Upto(S, n) == UNION {[1..k -> S] : k \in 0..n}

XattrSet == [class : {1, 2}, name : {<<>>, <<0>>, <<1>>, <<2>>, <<4>>, <<5>>}, value : {<<>>}]
AceSet == [tag : {1, 4, 6}, bits : {7}, name : {<<>>, <<2>>, <<1>>}]
HoleSet == [offset : 0..5, length : 0..3]
Time(n) == [sec |-> 1, nsec |-> n]

Rich ==
    {[Empty EXCEPT !.xattrs = s] : s \in Upto(XattrSet, 2)}
    \cup {[Empty EXCEPT !.aces = s] : s \in Upto(AceSet, 3)}
    \cup {[Empty EXCEPT !.holes = s] : s \in Upto(HoleSet, 2) \cup [1..3 -> [offset : {0, 1, 2, 4}, length : {1, 2, 3}]]}
    \cup {[Empty EXCEPT !.acl = {[origin |-> 1, bytes |-> b]}, !.mtime = {Time(n)}, !.btime = t, !.link = {p}] :
            b \in {<<>>, <<2>>}, n \in {0, 2}, t \in {{}, {Time(1)}}, p \in {<<>>, <<0>>, <<2>>}}

\* Every combination of families.
Mixed ==
    {[xattrs |-> x, aces |-> a, acl |-> n, mtime |-> t, atime |-> {}, btime |-> b,
      flags |-> f, info |-> i, holes |-> h, link |-> l] :
        x \in {<<>>, <<[class |-> 2, name |-> <<3>>, value |-> <<1>>]>>,
               <<[class |-> 2, name |-> <<1>>, value |-> <<>>], [class |-> 1, name |-> <<2>>, value |-> <<2>>]>>},
        a \in {<<>>, <<[tag |-> 1, bits |-> 7, name |-> <<>>]>>},
        n \in {{}, {[origin |-> 1, bytes |-> <<2>>]}},
        t \in {{}, {Time(1)}}, b \in {{}, {Time(0)}}, f \in {0, 1}, i \in {{}, {3}},
        h \in {<<>>, <<[offset |-> 2, length |-> 1], [offset |-> 0, length |-> 1]>>}, l \in {{}, {<<2>>}}}

Everything == CHOOSE m \in Mixed :
    /\ Len(m.xattrs) = 2 /\ m.aces # <<>> /\ m.acl # {} /\ m.mtime # {} /\ m.btime # {}
    /\ m.flags = 1 /\ m.info # {} /\ m.holes # <<>> /\ m.link # {}

MCOmits == {{}, Families} \cup {{f} : f \in Families}

CanonicalBytes == WriteCanonical(Canonicalize(Everything, {}).meta)

MCForged ==
    UNION {[1..k -> 0..2] : k \in 0..9}
    \cup {WriteCanonical(m) : m \in Rich}
    \cup {[CanonicalBytes EXCEPT ![i] = b] : i \in DOMAIN CanonicalBytes, b \in 0..8}
    \cup {SubSeq(CanonicalBytes, 1, k) : k \in 0..Len(CanonicalBytes)} \cup {Append(CanonicalBytes, b) : b \in 0..1}

\* The defaults of each system, with one capability changed, with and without
\* attributes to keep things in.
MCCapabilities ==
    LET one(c, n) == [c EXCEPT !.able = IF n \in @ THEN @ \ {n} ELSE @ \cup {n}]
        names == {"btime", "holes", "hardlink", "portable", "native", "flags", "info", "none"}
        probed == {one(ForOs(os), n) : os \in 1..3, n \in names}
    IN  probed \cup {one(c, "transport") : c \in probed}

-----------------------------------------------------------------------------
(* Lists of Linux: every way to name up to two users among 0..12, where    *)
(* the order of text and of numbers differ, and damaged lists.             *)

ListOf(named, mask) ==
    KernelBytes(<<[tag |-> 1, perm |-> 7, id |-> 15]>> \o named \o <<[tag |-> 4, perm |-> 1, id |-> 15]>>
                \o mask \o <<[tag |-> 32, perm |-> 4, id |-> 15]>>)
User(n) == [tag |-> 2, perm |-> 3, id |-> n]
Mask == [tag |-> 16, perm |-> 6, id |-> 15]
Two == ListOf(<<User(9), User(10)>>, <<Mask>>)

Lists ==
    {<<>>, <<2>>, ListOf(<<>>, <<>>), ListOf(<<>>, <<Mask>>), ListOf(<<User(1)>>, <<>>)}
    \cup {ListOf(<<User(m), User(n)>>, <<Mask>>) : m \in {0, 2, 9, 14}, n \in {2, 10, 12, 14, 15}}
    \cup {[Two EXCEPT ![i] = b] : i \in DOMAIN Two, b \in {0, 1, 2, 4, 8, 15}}
    \cup {SubSeq(Two, 1, n) : n \in 0..Len(Two)}

MCKernelAcls == [access : Lists, default : {<<>>, ListOf(<<>>, <<>>), <<2>>}]

Spellings == {<<49>>, <<48, 49>>, <<43, 49>>, <<45, 48>>, <<45, 49>>, <<49, 95, 48>>, <<49, 95>>, <<95, 49>>,
              <<43>>, <<49, 53>>, <<49, 54>>, <<50>>, <<65>>, <<48, 45>>}

\* Portable entries that no kernel wrote.
Portables ==
    {[Empty EXCEPT !.aces = <<[tag |-> 3, bits |-> 1, name |-> <<>>], [tag |-> 2, bits |-> 4, name |-> <<>>],
                              [tag |-> 4, bits |-> 3, name |-> m], [tag |-> t, bits |-> 6, name |-> n],
                              [tag |-> 6, bits |-> 5, name |-> <<>>], [tag |-> 1, bits |-> 7, name |-> <<>>]>>] :
        m \in Spellings, n \in Spellings, t \in {4, 5}}

Bundles ==
    LET good == Bundle(Two, ListOf(<<>>, <<>>))
    IN  {[Empty EXCEPT !.acl = {[origin |-> o, bytes |-> b]}] :
            o \in {1, 2}, b \in {SubSeq(good, 1, n) : n \in 1..Len(good)}
                                \cup {[good EXCEPT ![i] = v] : i \in DOMAIN good, v \in {0, 1, 10, 16, 17}}}

MCInputs == [record : Rich \cup Mixed \cup Portables \cup Bundles, omit : {{}}] \cup [record : {Everything}, omit : SUBSET Families]
            \cup [record : {[Everything EXCEPT !.acl = {[origin |-> 1, bytes |-> <<>>]}]}, omit : MCOmits]

-----------------------------------------------------------------------------
(* Transports.                                                             *)

Zeros(n) == [i \in 1..n |-> 0]
MetaOf(length, times, empty, tied, mark) ==
    [blob |-> Append(Zeros(length - 1), mark), times |-> times, empty |-> empty, tied |-> tied]

Nothing == MetaOf(20, {}, TRUE, FALSE, 0)
Attribute == MetaOf(31, {}, FALSE, FALSE, 1)
Modified == MetaOf(32, {1}, FALSE, FALSE, 2)
Accessed == MetaOf(32, {2}, FALSE, FALSE, 3)
MCMetas == {Nothing, Attribute, Modified, Accessed, MetaOf(36, {}, FALSE, TRUE, 4)}

Seconds == <<5, 0, 0, 0, 0, 0, 0, 255>>
Observed == {{}, {[sec |-> Seconds, nsec |-> 999999999]}, {[sec |-> Seconds, nsec |-> 1000000000]}}
LinkNames == {<<>>, <<46>>, <<47>>, <<97>>, <<97, 58>>, <<97, 98>>, <<97, 98, 99>>, <<98>>}

LinkRecords ==
    [name : {<<97>>}, meta : MCMetas, absent : 0..8, observed : Observed, acl : BOOLEAN, finder : {FALSE}]
    \cup [name : LinkNames, meta : {Attribute}, absent : {0}, observed : {{}}, acl : {FALSE}, finder : BOOLEAN]

Plain(name) == [name |-> name, meta |-> Nothing, absent |-> 0, observed |-> {}, acl |-> FALSE, finder |-> TRUE]

MCRecordLists ==
    {<<>>} \cup {<<r>> : r \in LinkRecords}
    \cup {<<q, r>> : q \in {x \in LinkRecords : x.absent \in {0, 1, 6}}, r \in {Plain(<<97>>), Plain(<<98>>)}}
    \cup {<<Plain(<<97>>), r>> : r \in {x \in LinkRecords : x.name # <<97>>}}
    \cup {<<Plain(<<97>>), Plain(n), Plain(m)>> : n \in LinkNames, m \in LinkNames}
    \cup {<<Plain(<<97>>), Plain(<<97, 98>>), Plain(<<98>>), Plain(<<99>>)>>}

Written ==
    TransportBytes(<<[Plain(<<97>>) EXCEPT !.meta = Modified, !.observed = {[sec |-> Seconds, nsec |-> 6]}], Plain(<<98>>)>>)

MCForgedBytes ==
    {[Written EXCEPT ![i] = b] : i \in DOMAIN Written, b \in {0, 1, 2, 7, 16, 20, 31, 32, 59, 97, 98}}
    \cup {SubSeq(Written, 1, n) : n \in 0..Len(Written)} \cup {Append(Written, 0), Written \o Zeros(40)}
    \cup {TransportBytes(s) : s \in MCRecordLists}
=============================================================================
