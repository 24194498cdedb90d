---------------------------- MODULE MCPlatform -----------------------------
(* One thread that lists or reads the directory beside one that lists it   *)
(* too, or changes an attribute, beside other programs.                    *)
EXTENDS Platform, TLC

CONSTANTS r1, r2, a, b, f, d, l, k, p

MCReaders == {r1, r2}
MCNames == {a, b}
MCNameBytes == (a :> 1) @@ (b :> 2)

\* A file, a directory, a short and a long link, and a fifo.
MCObjects == {f, d, l, k, p}
MCKindOf == (f :> "file") @@ (d :> "directory") @@ (l :> "symlink") @@ (k :> "symlink") @@ (p :> "fifo")
MCMode == [o \in MCObjects |-> 512 + 420]
MCText == [o \in MCObjects |-> IF o = k THEN Upto(4) ELSE Upto(2)]
MCOthers == [o \in MCObjects |-> IF o = d THEN <<1>> ELSE <<1, 1, 0>>]
MCValues == {<<>>, Upto(2), Upto(4)}
MCListings == {(a :> f) @@ (b :> f)}

Calls(ops, files, maxima, counts) ==
    [op : ops, name : {a}, file : files, max : maxima, count : counts, value : {Upto(2)}, valid : BOOLEAN]

\* The ceilings are below, at and above every length there is, and usize::MAX.
Reads == Calls({"inspect", "directory", "read", "readlink", "get"}, {f}, {0, 2, 4, Usize}, {0})
Lists == Calls({"list"}, {f, d}, {2, 3, 5, Usize}, {0, 1, 2})
Streams == Calls({"names"}, {f}, {1, 2}, {0, 1, 3})
Writes == Calls({"set", "remove"}, {f}, {0}, {0})
Idle == {c \in Calls({"idle"}, {f}, {0}, {0}) : c.valid}

MCJobs ==
    {(r1 :> x) @@ (r2 :> y) : x \in {c \in Reads : c.op # "get"}, y \in Idle}
    \cup {(r1 :> x) @@ (r2 :> y) : x \in {c \in Reads : c.op = "get"} \cup Lists, y \in Writes}
    \cup {(r1 :> x) @@ (r2 :> y) : x \in {c \in Streams : c.valid /\ (c.max = 2 \/ c.count = 3)}, y \in {c \in Streams : c.valid /\ c.max = 2 /\ c.count = 1}}
=============================================================================
