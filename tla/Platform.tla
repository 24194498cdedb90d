----------------------------- MODULE Platform ------------------------------
(* The Rust platform crate: the calls that look at, open, read and list    *)
(* one pinned directory while other programs change it.  A call is a       *)
(* sequence of system calls; between any two of them a name may be         *)
(* replaced, a file may grow or shrink, and an attribute may change.       *)
(*                                                                         *)
(* A read that the system interrupts is repeated by read_limited and leaves *)
(* no trace, so it is a stuttering step.                                   *)
EXTENDS Integers, Sequences, FiniteSets

CONSTANTS
    Readers,    \* threads, each with one call of the crate
    Jobs,       \* the calls they may run: a set of [Readers -> Call]
    Listings,   \* the directory at the start: a set of [Names -> Objects \cup {Absent}]
    Names,      \* entry names of the directory
    Dots,       \* "." and ".."
    NameBytes,  \* [Names -> Nat]: their lengths
    Objects,    \* the objects a name may stand for
    KindOf,     \* [Objects -> {"file", "directory", "symlink", "fifo"}]
    Mode,       \* [Objects -> Nat]: the native permission bits
    Text,       \* [Objects -> Seq(Nat)]: a symlink's target
    Others,     \* [Objects -> Seq(Nat)]: the rest of the attribute list
    Values,     \* the values the attribute may be given
    MaxLen,     \* bound: the longest file
    Block,      \* read_limited's buffer, 65,536 in the code
    Initial,    \* the first capacity of a growing buffer, 256 in the code
    NameMax,    \* the longest attribute name, 255 in the code
    Usize,      \* usize::MAX
    Absent      \* no such entry, no such attribute

VARIABLES
    dir,        \* [Names -> Objects \cup {Absent}]
    size,       \* [Objects -> 0..MaxLen]: a file holds the bytes 1..size
    attr,       \* [Objects -> Values \cup {Absent}]
    job,        \* the calls being run
    pc,         \* [Readers -> control state]
    fd,         \* the object a call has open
    pos,        \* the offset of that descriptor
    bytes,      \* what read_limited has retained
    cap,        \* the capacity of a growing buffer
    ahead,      \* per directory description: what readdir has not passed yet
    desc,       \* the description a stream reads from
    remaining,  \* Names.remaining
    finished,   \* Names.finished
    out,        \* what next() has returned to the caller
    result,     \* what the call returned
    seen,       \* history: what the call's object has been during the call
    stayed      \* history: the names that were there since the stream was opened

world == <<dir, size, attr>>
stream == <<ahead, desc, remaining, finished, out>>
vars == <<world, job, pc, fd, pos, bytes, cap, stream, result, seen, stayed>>

Ops == {"inspect", "directory", "read", "readlink", "get", "set", "remove", "list", "names", "idle"}
Call == [op : Ops, name : Names, file : Objects, max : 0..Usize, count : Nat, value : Values,
         valid : BOOLEAN]

Least(a, b) == IF a < b THEN a ELSE b
Upto(n) == [i \in 1..n |-> i]
Ok(v) == [ok |-> TRUE, value |-> v]
Err(e) == [ok |-> FALSE, error |-> e]
Pending == Err("Pending")

ASSUME SizesAssumption ==
    /\ Block \in Nat \ {0} /\ Initial \in Nat \ {0} /\ Usize \in Nat \ {0} /\ MaxLen \in Nat

ASSUME JobsAssumption ==
    /\ Jobs \subseteq [Readers -> Call]
    /\ Listings \subseteq [Names -> Objects \cup {Absent}]
    /\ Names \cap Dots = {}

ASSUME ContentsAssumption ==
    /\ Text \in [Objects -> Seq(Nat)] /\ Others \in [Objects -> Seq(Nat)] /\ Values \subseteq Seq(Nat)
    /\ Absent \notin Objects /\ Absent \notin Seq(Nat)

Init ==
    /\ dir \in Listings
    /\ size = [o \in Objects |-> 2]
    /\ attr = [o \in Objects |-> Absent]
    /\ job \in Jobs
    /\ pc = [r \in Readers |-> IF job[r].op = "idle" THEN "done" ELSE "start"]
    /\ fd = [r \in Readers |-> IF job[r].op \in {"get", "set", "remove", "list"}
                               THEN job[r].file ELSE Absent]
    /\ pos = [r \in Readers |-> 0]
    /\ bytes = [r \in Readers |-> <<>>]
    /\ cap = [r \in Readers |-> 0]
    /\ ahead = [r \in Readers |-> {}]
    /\ desc = [r \in Readers |-> r]
    /\ remaining = [r \in Readers |-> 0]
    /\ finished = [r \in Readers |-> FALSE]
    /\ out = [r \in Readers |-> <<>>]
    /\ result = [r \in Readers |-> Pending]
    /\ seen = [r \in Readers |-> {}]
    /\ stayed = [r \in Readers |-> {}]

-----------------------------------------------------------------------------
(* Control: a call goes on or returns.                                      *)

Goto(r, s) == pc' = [pc EXCEPT ![r] = s] /\ UNCHANGED result
Return(r, v) == pc' = [pc EXCEPT ![r] = "done"] /\ result' = [result EXCEPT ![r] = v]

\* Any system call of a running call may fail, and any allocation.
Fails(r) ==
    /\ pc[r] \notin {"start", "done", "reading", "listing"}
    /\ \E e \in {"Io", "OutOfMemory"} : Return(r, Err(e))
    /\ UNCHANGED <<world, job, fd, pos, bytes, cap, stream>>

Named == [op \in {"inspect", "directory", "read", "readlink"} |-> "InvalidBasename"]
Attributes == [op \in {"get", "set", "remove"} |-> "InvalidAttributeName"]

\* basename and terminated_name: nothing is asked of the system about a name
\* that is no entry of this directory, or no attribute.
Validate(r) ==
    /\ pc[r] = "start"
    /\ LET op == job[r].op IN
       \/ op \in DOMAIN Named /\ ~job[r].valid /\ Return(r, Err(Named[op]))
       \/ op \in DOMAIN Attributes /\ ~job[r].valid /\ Return(r, Err(Attributes[op]))
       \/ (op \in {"list", "names"} \/ job[r].valid) /\ Goto(r, "ready")
    /\ UNCHANGED <<world, job, fd, pos, bytes, cap, stream>>

-----------------------------------------------------------------------------
(* inspect: one statx of the entry itself.                                  *)

Bits(o) == IF KindOf[o] = "symlink" THEN 511 ELSE Mode[o] % 512
Info(o, birth) == [kind |-> IF KindOf[o] = "fifo" THEN "other" ELSE KindOf[o],
                   mode |-> Bits(o), identity |-> o, birth |-> birth]

\* The reply may lack a required field, and its birth time is storage the
\* kernel did not fill unless its mask says so.
FromStatx(o, reply) ==
    IF ~reply.required \/ ~reply.mtime \/ (reply.btime /\ ~reply.birth) THEN Err("Io")
    ELSE Ok(Info(o, reply.btime))

Replies == [required : BOOLEAN, btime : BOOLEAN, mtime : BOOLEAN, birth : BOOLEAN]

Inspect(r) ==
    /\ pc[r] = "ready" /\ job[r].op = "inspect"
    /\ LET o == dir[job[r].name] IN
       \/ o = Absent /\ Return(r, Err("Io"))
       \/ o # Absent /\ \E reply \in Replies : Return(r, FromStatx(o, reply))
    /\ UNCHANGED <<world, job, fd, pos, bytes, cap, stream>>

-----------------------------------------------------------------------------
(* open_child: openat without following a link, then a look at what was     *)
(* opened.                                                                  *)

\* Fault: the open waits for the other end of a fifo.
BlockingExtra(op) == IF op = "directory" THEN {"O_DIRECTORY"} ELSE {}

Extra(op) == IF op = "directory" THEN {"O_DIRECTORY"} ELSE {"O_NONBLOCK"}

\* external: what openat does with O_NOFOLLOW and the extra flag.
Opens(o, extra) ==
    /\ o # Absent /\ KindOf[o] # "symlink"
    /\ "O_DIRECTORY" \in extra => KindOf[o] = "directory"
Blocks(o, extra) == KindOf[o] = "fifo" /\ "O_NONBLOCK" \notin extra

OpenAt(r) ==
    /\ pc[r] = "ready" /\ job[r].op \in {"directory", "read"}
    /\ LET o == dir[job[r].name]
           extra == Extra(job[r].op)
       IN  \/ /\ ~Opens(o, extra)
              /\ Return(r, Err("Io")) /\ UNCHANGED fd
           \/ /\ Opens(o, extra) /\ ~Blocks(o, extra)
              /\ fd' = [fd EXCEPT ![r] = o] /\ Goto(r, "opened")
    /\ UNCHANGED <<world, job, pos, bytes, cap, stream>>

Valid(op, o) == KindOf[o] = (IF op = "directory" THEN "directory" ELSE "file")

Classify(r) ==
    /\ pc[r] = "opened"
    /\ \/ ~Valid(job[r].op, fd[r]) /\ Return(r, Err("WrongKind"))
       \/ Valid(job[r].op, fd[r]) /\ job[r].op = "directory" /\ Return(r, Ok(fd[r]))
       \/ Valid(job[r].op, fd[r]) /\ job[r].op = "read" /\ Goto(r, "read")
    /\ UNCHANGED <<world, job, fd, pos, bytes, cap, stream>>

-----------------------------------------------------------------------------
(* read_limited.  The system returns at most what was asked for, perhaps    *)
(* less than it has, and nothing only at the end of the file.               *)

\* Fault: every read asks for the whole buffer.
WholeBuffer(left) == Block

Request(left) == Least(Least(left + 1, Usize), Block)

Chunks(r, request) ==
    LET available == size[fd[r]] - pos[r]
    IN  IF available <= 0 THEN {0} ELSE 1..Least(request, available)

ReadLimited(r) ==
    /\ pc[r] = "read"
    /\ LET left == job[r].max - Len(bytes[r]) IN
       \E count \in Chunks(r, Request(left)) :
          /\ pos' = [pos EXCEPT ![r] = @ + count]
          /\ \/ /\ count = 0
                /\ Return(r, Ok(bytes[r])) /\ UNCHANGED bytes
             \/ /\ count > left
                /\ Return(r, Err("LimitExceeded")) /\ UNCHANGED bytes
             \/ /\ count \in 1..left
                /\ bytes' = [bytes EXCEPT ![r] = @ \o [i \in 1..count |-> pos[r] + i]]
                /\ Goto(r, "read")
    /\ UNCHANGED <<world, job, fd, cap, stream>>

-----------------------------------------------------------------------------
(* read_symlink and read_buffer: a buffer of at most maximum + 1 bytes,     *)
(* doubled until the value fits.                                            *)

Ceiling(max) == max + 1

\* Fault: a target that fills the buffer counts as complete.
FilledIsComplete(count, c) == count <= c

Complete(count, c) == count < c

\* Fault: the first buffer that is too small ends the call.
NoSecondBuffer(c, max) == TRUE

Exhausted(c, max) == c = Ceiling(max)
Doubled(c, max) == Least(Least(2 * c, Usize), Ceiling(max))

Reserve(r) ==
    /\ pc[r] = "ready" /\ job[r].op \in {"readlink", "get", "list"}
    /\ \/ /\ job[r].max = Usize
          /\ Return(r, Err("LimitExceeded")) /\ UNCHANGED cap
       \/ /\ job[r].max < Usize
          /\ cap' = [cap EXCEPT ![r] = Least(Initial, Ceiling(job[r].max))]
          /\ Goto(r, "fill")
    /\ UNCHANGED <<world, job, fd, pos, bytes, stream>>

Grow(r) == cap' = [cap EXCEPT ![r] = Doubled(@, job[r].max)] /\ Goto(r, "fill")

IsLink(o) == o # Absent /\ KindOf[o] = "symlink"

\* readlinkat cuts a target that does not fit, without saying so.
ReadSymlink(r) ==
    /\ pc[r] = "fill" /\ job[r].op = "readlink"
    /\ LET o == dir[job[r].name] IN
       \/ /\ ~IsLink(o)
          /\ Return(r, Err("Io")) /\ UNCHANGED cap
       \/ /\ IsLink(o)
          /\ LET count == Least(Len(Text[o]), cap[r]) IN
             \/ /\ count > job[r].max
                /\ Return(r, Err("LimitExceeded")) /\ UNCHANGED cap
             \/ /\ count <= job[r].max /\ Complete(count, cap[r])
                /\ Return(r, Ok(SubSeq(Text[o], 1, count))) /\ UNCHANGED cap
             \/ /\ count <= job[r].max /\ ~Complete(count, cap[r])
                /\ Grow(r)
    /\ UNCHANGED <<world, job, fd, pos, bytes, stream>>

\* The attribute list: the names that were always there, then this one.  A
\* byte 0 ends a name.
Listing(o) == Others[o] \o (IF attr[o] = Absent THEN <<>> ELSE <<1, 0>>)

\* Names::parse, piece by piece: a piece of a wrong length before the count is
\* exhausted is invalid data, and so is a list that does not end in a byte 0.
Parse(list, count) ==
    LET ends == {i \in DOMAIN list : list[i] = 0}
        nth(i) == Cardinality({j \in ends : j <= i})
        length(i) == i - (IF nth(i) = 1 THEN 0
                          ELSE CHOOSE j \in ends : nth(j) = nth(i) - 1)
        bad == {i \in ends : length(i) \notin 2..NameMax + 1}
    IN  IF list = <<>> THEN Ok(list)
        ELSE IF Len(list) \notin ends THEN Err("Io")
        ELSE IF \E i \in bad : nth(i) <= count + 1 THEN Err("Io")
        ELSE IF Cardinality(ends) > count THEN Err("LimitExceeded")
        ELSE Ok(list)

\* fgetxattr and flistxattr copy the whole value or refuse with ERANGE.
ReadBuffer(r, value, finish) ==
    \/ /\ Len(value) > cap[r] /\ Exhausted(cap[r], job[r].max)
       /\ Return(r, Err("LimitExceeded")) /\ UNCHANGED cap
    \/ /\ Len(value) > cap[r] /\ ~Exhausted(cap[r], job[r].max)
       /\ Grow(r)
    \/ /\ Len(value) <= cap[r] /\ Len(value) > job[r].max
       /\ Return(r, Err("LimitExceeded")) /\ UNCHANGED cap
    \/ /\ Len(value) <= cap[r] /\ Len(value) <= job[r].max
       /\ Return(r, finish) /\ UNCHANGED cap

Get(r) ==
    /\ pc[r] = "fill" /\ job[r].op = "get"
    /\ \/ attr[fd[r]] = Absent /\ Return(r, Ok(Absent)) /\ UNCHANGED cap
       \/ attr[fd[r]] # Absent /\ ReadBuffer(r, attr[fd[r]], Ok(attr[fd[r]]))
    /\ UNCHANGED <<world, job, fd, pos, bytes, stream>>

List(r) ==
    /\ pc[r] = "fill" /\ job[r].op = "list"
    /\ ReadBuffer(r, Listing(fd[r]), Parse(Listing(fd[r]), job[r].count))
    /\ UNCHANGED <<world, job, fd, pos, bytes, stream>>

Set(r) ==
    /\ pc[r] = "ready" /\ job[r].op = "set"
    /\ attr' = [attr EXCEPT ![fd[r]] = job[r].value]
    /\ Return(r, Ok("set"))
    /\ UNCHANGED <<dir, size, job, fd, pos, bytes, cap, stream>>

Remove(r) ==
    /\ pc[r] = "ready" /\ job[r].op = "remove"
    /\ attr' = [attr EXCEPT ![fd[r]] = Absent]
    /\ Return(r, Ok(IF attr[fd[r]] = Absent THEN "absent" ELSE "removed"))
    /\ UNCHANGED <<dir, size, job, fd, pos, bytes, cap, stream>>

-----------------------------------------------------------------------------
(* names and Names::next.                                                   *)

\* Fault: the stream is made from a duplicate of the directory's descriptor.
Duplicated(r) == CHOOSE d \in Readers : TRUE

\* The directory is opened again, so that the stream has a description, and
\* with it an offset, of its own.
Reopened(r) == r

OpenStream(r) ==
    /\ pc[r] = "ready" /\ job[r].op = "names"
    /\ desc' = [desc EXCEPT ![r] = Reopened(r)]
    /\ ahead' = [ahead EXCEPT ![Reopened(r)] = Names \cup Dots]
    /\ remaining' = [remaining EXCEPT ![r] = job[r].count]
    /\ finished' = [finished EXCEPT ![r] = FALSE]
    /\ Goto(r, "listing")
    /\ UNCHANGED <<world, job, fd, pos, bytes, cap, out>>

\* The caller asks until it is told None, after an error too.
NextName(r) ==
    /\ pc[r] = "listing"
    /\ \/ finished[r] /\ Return(r, Ok("None")) /\ UNCHANGED finished
       \/ /\ ~finished[r]
          /\ finished' = [finished EXCEPT ![r] = TRUE]
          /\ Goto(r, "reading")
    /\ UNCHANGED <<world, job, fd, pos, bytes, cap, ahead, desc, remaining, out>>

Entries(r) == {x \in ahead[desc[r]] : x \in Dots \/ dir[x] # Absent}

Yield(r, item) == out' = [out EXCEPT ![r] = Append(@, item)] /\ Goto(r, "listing")

\* readdir passes an entry, also when it fails on it or next() refuses it.
ReadDir(r) ==
    /\ pc[r] = "reading"
    /\ \/ /\ Entries(r) = {}
          /\ Return(r, Ok("None"))
          /\ UNCHANGED <<ahead, remaining, finished, out>>
       \/ \E x \in Entries(r) :
          /\ ahead' = [ahead EXCEPT ![desc[r]] = @ \ {x}]
          /\ \/ /\ x \in Dots
                /\ Goto(r, "reading") /\ UNCHANGED <<remaining, finished, out>>
             \/ /\ x \notin Dots /\ (remaining[r] = 0 \/ NameBytes[x] > job[r].max)
                /\ Yield(r, Err("LimitExceeded")) /\ UNCHANGED <<remaining, finished>>
             \/ /\ x \notin Dots /\ remaining[r] > 0 /\ NameBytes[x] <= job[r].max
                /\ \/ /\ Yield(r, Ok(x))
                      /\ remaining' = [remaining EXCEPT ![r] = @ - 1]
                      /\ finished' = [finished EXCEPT ![r] = FALSE]
                   \/ /\ Yield(r, Err("OutOfMemory"))
                      /\ UNCHANGED <<remaining, finished>>
             \/ /\ Yield(r, Err("Io"))
                /\ UNCHANGED <<remaining, finished>>
    /\ UNCHANGED <<world, job, fd, pos, bytes, cap, desc>>

-----------------------------------------------------------------------------
(* Other programs: external.                                                *)

\* A name is replaced, removed or created; a created one may or may not be
\* met by the streams that are open.
Replace(n, o) ==
    /\ dir' = [dir EXCEPT ![n] = o]
    /\ \/ UNCHANGED ahead
       \/ /\ dir[n] = Absent /\ o # Absent
          /\ \E d \in Readers : ahead' = [ahead EXCEPT ![d] = @ \cup {n}]
    /\ UNCHANGED <<size, attr, desc, remaining, finished, out>>

Resize(o, n) ==
    /\ KindOf[o] = "file"
    /\ size' = [size EXCEPT ![o] = n]
    /\ UNCHANGED <<dir, attr, stream>>

Change(o, v) ==
    /\ KindOf[o] = "file"
    /\ attr' = [attr EXCEPT ![o] = v]
    /\ UNCHANGED <<dir, size, stream>>

\* Only what a running call looks at matters to anyone.
Running(ops) == {r \in Readers : pc[r] \notin {"start", "done"} /\ job[r].op \in ops}

Outside ==
    /\ \/ \E r \in Running(DOMAIN Named), o \in Objects \cup {Absent} : Replace(job[r].name, o)
       \/ \E r \in Running({"names"}) : \E o \in {job[r].file, Absent} : Replace(job[r].name, o)
       \/ \E r \in Running({"read"}), n \in 0..MaxLen : fd[r] # Absent /\ Resize(fd[r], n)
       \/ \E r \in Running(DOMAIN Attributes \cup {"list"}), v \in Values \cup {Absent} : Change(fd[r], v)
    /\ UNCHANGED <<job, pc, fd, pos, bytes, cap, result>>

-----------------------------------------------------------------------------
(* What a call could truthfully report of its object right now.             *)
Target(r) ==
    LET o == dir[job[r].name] IN
    CASE job[r].op = "inspect" -> IF o = Absent THEN {} ELSE {Info(o, b) : b \in BOOLEAN}
      [] job[r].op = "directory" -> {o}
      [] job[r].op = "read" -> IF fd[r] = Absent THEN {} ELSE {Upto(size[fd[r]])}
      [] job[r].op = "readlink" -> IF IsLink(o) THEN {Text[o]} ELSE {}
      [] job[r].op = "get" -> {attr[fd[r]]}
      [] job[r].op = "list" -> {Listing(fd[r])}
      [] OTHER -> {}

Present == {n \in Names : dir[n] # Absent}

\* The history of the running calls.
Watch ==
    /\ seen' = [r \in Readers |-> IF pc[r] = "done" THEN seen[r] ELSE seen[r] \cup Target(r)']
    /\ stayed' = [r \in Readers |-> IF job[r].op # "names" THEN {}
                                    ELSE IF pc[r] = "ready" THEN Present'
                                    ELSE IF pc[r] = "done" THEN stayed[r]
                                    ELSE stayed[r] \cap Present']

Work(r) ==
    \/ Validate(r) \/ Inspect(r) \/ OpenAt(r) \/ Classify(r) \/ ReadLimited(r)
    \/ Reserve(r) \/ ReadSymlink(r) \/ Get(r) \/ List(r) \/ Set(r) \/ Remove(r)
    \/ OpenStream(r) \/ NextName(r) \/ ReadDir(r)

Next ==
    /\ Outside \/ \E r \in Readers : Work(r) \/ Fails(r)
    /\ Watch

Spec == Init /\ [][Next]_vars

\* A thread is scheduled and its reads are not interrupted for ever; nothing
\* is assumed of the other programs, which may go on changing the directory.
FairSpec == Spec /\ \A r \in Readers : WF_vars(Work(r) /\ Watch)

-----------------------------------------------------------------------------
(* Properties.                                                              *)

Succeeded(r) == pc[r] = "done" /\ result[r].ok
IsPrefix(s, t) == Len(s) <= Len(t) /\ s = SubSeq(t, 1, Len(s))

Truthful(r) ==
    LET value == result[r].value IN
    CASE job[r].op \in {"inspect", "readlink", "get", "list"} -> value \in seen[r]
      [] job[r].op = "directory" -> value \in seen[r] /\ KindOf[value] = "directory"
      [] job[r].op = "read" -> /\ KindOf[fd[r]] = "file"
                               /\ \E s \in seen[r] : IsPrefix(value, s)
                               /\ \E s \in seen[r] : IsPrefix(s, value)
      [] OTHER -> TRUE

\* Whatever other programs do between the system calls, what a call returns is
\* something its object was during the call: a target, a value or a list is
\* one that was there and is never cut; a directory is one, and had the name;
\* a file read while it grows and shrinks comes out with no byte lost or
\* repeated, and is not cut below the least it was (entry.rs read_symlink,
\* xattr.rs read_buffer, lib.rs open_child and read_limited).
ResultIsGenuine == \A r \in Readers : Succeeded(r) => Truthful(r)

\* A call keeps at most its ceiling, moves the file's offset at most one byte
\* past it, and never hands the system an empty buffer, which the attribute
\* calls would take for a question about the size.  A stream returns as many
\* names as it was allowed and one error at most.
WithinCeiling ==
    \A r \in Readers :
        /\ Len(bytes[r]) <= job[r].max
        /\ pos[r] <= job[r].max + 1
        /\ pc[r] = "read" => Request(job[r].max - Len(bytes[r])) > 0
        /\ pc[r] = "fill" => cap[r] \in 1..Ceiling(job[r].max)
        /\ Len(out[r]) <= job[r].count + 1

\* LimitExceeded is returned only when the object was larger than the ceiling
\* at some time during the call, or the ceiling leaves no room for the extra
\* byte.
LimitIsReal ==
    \A r \in Readers :
        pc[r] = "done" /\ ~result[r].ok /\ result[r].error = "LimitExceeded" =>
              \/ \E s \in seen[r] \ {Absent} : Len(s) > job[r].max
              \/ job[r].max = Usize /\ job[r].op # "read"
              \/ job[r].op = "list" /\ \E s \in seen[r] :
                    Cardinality({i \in DOMAIN s : s[i] = 0}) > job[r].count

\* The two streams of a directory do not take entries from each other, and an
\* error ends a stream for good: a caller that reads on never gets a listing
\* with a hole in it.  A stream that ends without an error has returned every
\* name that was there all the time, exactly once (Names::next).
ListingComplete ==
    \A r \in Readers : job[r].op = "names" =>
        LET items == out[r]
            failed == {i \in DOMAIN items : ~items[i].ok}
        IN  /\ failed \subseteq {Len(items)}
            /\ Succeeded(r) /\ failed = {} =>
                  \A n \in stayed[r] :
                      \E k \in DOMAIN items : {i \in DOMAIN items : items[i] = Ok(n)} = {k}

\* Every call returns though the file it reads keeps growing, the target or
\* the value keeps changing length, names keep appearing, and a fifo may be
\* put where a file was.
EveryReadReturns == \A r \in Readers : <>(pc[r] = "done")
=============================================================================
