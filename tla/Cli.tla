--------------------------------- MODULE Cli ---------------------------------
(***************************************************************************)
(* One run of the command line program, main in src/src/difz.c: the modes, *)
(* the kinds of its arguments, loading, computing, and writing the output, *)
(* with the ceilings and the exit code.  The library calls are steps with  *)
(* the contracts that FilePatch, TreePatch, AtomicFile and StagedApply     *)
(* show.  Option spelling, messages, progress and locales are left out.    *)
(***************************************************************************)
EXTENDS Integers, Sequences

CONSTANTS
    Places,         \* file names an argument can be
    Options,        \* command lines, parsed
    FileSystems,    \* what there is at the start
    Streams,        \* what stdin delivers
    SizeOf,         \* the length of each named content
    PatchSizes      \* lengths a patch may come out with

\* Contents: what the bytes are, the patch they encode if any, their length.
Content(kind, bytes, patch, size) == [kind |-> kind, bytes |-> bytes, patch |-> patch, size |-> size]
Absent == Content("absent", "", {}, 0)
Part == Content("file", "part", {}, 0)
Named(kind, name) == Content(kind, name, {}, SizeOf[name])
PatchOf(x, y, size) == Content("file", "patch", {[from |-> x.bytes, to |-> y.bytes, tree |-> x.kind = "dir"]}, size)

\* Lengths are natural numbers, and no patch is shorter than its header.
ASSUME CliAssumption ==
    /\ \A o \in Options : o.mode \in {"diff", "patch", "inspect"} /\ o.bytes \in Nat /\ o.ratio \in Nat
    /\ \A f \in FileSystems : DOMAIN f = Places /\ \A p \in Places : f[p].size \in Nat
    /\ \A s \in Streams : s.size \in Nat
    /\ SizeOf["old"] \in Nat
    /\ \A n \in PatchSizes : n \in Nat /\ n > 1

VARIABLES
    opt,            \* the command line
    fs, stdin,
    origin,         \* fs as the program found it
    stream,         \* what was written to stdout or stderr
    pc,
    first, second,  \* loaded inputs: [mapped, place, content]
    result,         \* what is to be written
    cause,          \* "write" once writing the output failed
    exit            \* -1 while running

vars == <<opt, fs, stdin, origin, stream, pc, first, second, result, cause, exit>>

Nothing == [mapped |-> FALSE, place |-> "", content |-> Absent]

IsStream(path) == path \notin Places

Kind(path) == IF IsStream(path) THEN "stream" ELSE fs[path].kind

Goto(label) == pc' = label /\ UNCHANGED exit
Quit(code) == pc' = "done" /\ exit' = code

-----------------------------------------------------------------------------
\* The mode flags and the number of arguments; the ceilings are applied last.
ArgumentsFit ==
    /\ opt.omit => opt.mode = "diff"
    /\ IF opt.mode = "inspect" THEN opt.second = "" ELSE opt.second # ""

Validate ==
    /\ pc = "start"
    /\ (ArgumentsFit /\ Goto("dispatch")) \/ Quit(1)
    /\ UNCHANGED <<opt, fs, stdin, origin, stream, first, second, result, cause>>

DispatchDirectoryPatch ==
    IF ~opt.rules /\ ~IsStream(opt.output) /\ Kind(opt.second) \in {"file", "stream"}
    THEN Goto("dirpatch") ELSE Quit(1)

DispatchDirectoryDiff ==
    IF Kind(opt.first) = "dir" /\ Kind(opt.second) = "dir" THEN Goto("dirdiff") ELSE Quit(1)

DispatchFiles ==
    IF opt.rules \/ opt.omit THEN Quit(1) ELSE Goto("load first")

Dispatch ==
    /\ pc = "dispatch"
    /\ LET k1 == Kind(opt.first)
           k2 == IF opt.mode = "diff" THEN Kind(opt.second) ELSE "unseen"
       IN  \/ opt.mode = "inspect" /\ Goto("load first")
           \/ opt.mode # "inspect" /\ "absent" \in {k1, k2} /\ Quit(1)
           \/ opt.mode = "patch" /\ k1 = "dir" /\ DispatchDirectoryPatch
           \/ opt.mode = "diff" /\ "absent" \notin {k1, k2} /\ "dir" \in {k1, k2}
              /\ DispatchDirectoryDiff
           \/ /\ opt.mode # "inspect" /\ {k1, k2} \cap {"absent", "dir"} = {}
              /\ IF "special" \in {k1, k2} THEN Quit(1) ELSE DispatchFiles
    /\ UNCHANGED <<opt, fs, stdin, origin, stream, first, second, result, cause>>

-----------------------------------------------------------------------------
(* load_path.                                                              *)

\* A regular file is mapped: it is read when it is used.  read_file copies it.
LoadedFile(path) == [mapped |-> opt.mode # "inspect", place |-> path, content |-> fs[path]]
LoadedStream == [mapped |-> FALSE, place |-> "", content |-> stdin]
Drained == Content(stdin.kind, "empty", {}, 0)

Bytes(x) == IF x.mapped THEN fs[x.place] ELSE x.content

LoadFirst ==
    /\ pc = "load first" /\ Kind(opt.first) \in {"file", "stream"}
    /\ IF IsStream(opt.first)
       THEN first' = LoadedStream /\ stdin' = Drained
       ELSE first' = LoadedFile(opt.first) /\ UNCHANGED stdin
    /\ Goto(IF opt.mode = "inspect" THEN "compute" ELSE "load second")
    /\ UNCHANGED <<opt, fs, origin, stream, second, result, cause>>

\* Fault: the output is opened before the second input is.
LoadSecondLate ==
    /\ pc = "load second" /\ Kind(opt.second) \in {"file", "stream"}
    /\ fs' = IF IsStream(opt.output) \/ Kind(opt.output) \notin {"file", "absent"} THEN fs
             ELSE [fs EXCEPT ![opt.output] = Part]
    /\ IF IsStream(opt.second)
       THEN second' = LoadedStream /\ stdin' = Drained
       ELSE second' = [mapped |-> TRUE, place |-> opt.second, content |-> fs'[opt.second]]
            /\ UNCHANGED stdin
    /\ Goto("compute")
    /\ UNCHANGED <<opt, origin, stream, first, result, cause>>

LoadSecond ==
    /\ pc = "load second" /\ Kind(opt.second) \in {"file", "stream"}
    /\ IF IsStream(opt.second)
       THEN second' = LoadedStream /\ stdin' = Drained
       ELSE second' = LoadedFile(opt.second) /\ UNCHANGED stdin
    /\ Goto("compute")
    /\ UNCHANGED <<opt, fs, origin, stream, first, result, cause>>

\* Gone, a directory, or another special file; a FIFO delays the open.
LoadRefused ==
    /\ \/ pc = "load first" /\ Kind(opt.first) \notin {"file", "stream"}
       \/ pc \in {"load second", "dirpatch"} /\ Kind(opt.second) \notin {"file", "stream"}
    /\ Quit(1)
    /\ UNCHANGED <<opt, fs, stdin, origin, stream, first, second, result, cause>>

\* No memory, a read error, or an error of the library.
Fails ==
    /\ pc \in {"load first", "load second", "compute", "dirdiff", "dirpatch"}
    /\ Quit(1)
    /\ UNCHANGED <<opt, fs, stdin, origin, stream, first, second, result, cause>>

-----------------------------------------------------------------------------
(* The file modes.                                                         *)

\* Fault: the ratio replaces the ceiling in bytes.
CreateLimitRatioWins(length) ==
    IF opt.ratio # 0 /\ length > 0 THEN (length * opt.ratio) \div 100 ELSE opt.bytes

CreateLimit(length) ==
    LET p == (length * opt.ratio) \div 100
        cap == IF p = 0 THEN 1 ELSE p
    IN  IF opt.ratio # 0 /\ length > 0 /\ (opt.bytes = 0 \/ cap < opt.bytes) THEN cap ELSE opt.bytes

Within(size, limit) == limit = 0 \/ size <= limit

DiffResults(x, y) == {PatchOf(x, y, n) : n \in {m \in PatchSizes : Within(m, CreateLimit(y.size))}}

PatchResults(x, p) ==
    {Named("file", d.to) : d \in {e \in p.patch : ~e.tree /\ e.from = x.bytes /\ Within(SizeOf[e.to], opt.bytes)}}

InspectResults(p) == {Content("file", "report", {}, 1) : d \in p.patch}

Results ==
    CASE opt.mode = "diff" -> DiffResults(Bytes(first), Bytes(second))
      [] opt.mode = "patch" -> PatchResults(Bytes(first), Bytes(second))
      [] opt.mode = "inspect" -> InspectResults(Bytes(first))

Compute ==
    /\ pc = "compute"
    /\ result' \in Results
    /\ Goto("open")
    /\ UNCHANGED <<opt, fs, stdin, origin, stream, first, second, cause>>

-----------------------------------------------------------------------------
(* write_output.                                                           *)

OpenOutput ==
    /\ pc = "open"
    /\ \/ IsStream(opt.output) /\ Goto("write") /\ UNCHANGED fs
       \/ /\ Kind(opt.output) \in {"file", "absent"}
          /\ fs' = [fs EXCEPT ![opt.output] = Part]
          /\ Goto("write")
       \/ ~IsStream(opt.output) /\ Quit(1) /\ UNCHANGED fs
    /\ UNCHANGED <<opt, stdin, origin, stream, first, second, result, cause>>

Deliver(content) ==
    IF IsStream(opt.output) THEN stream' = content /\ UNCHANGED fs
    ELSE fs' = [fs EXCEPT ![opt.output] = content] /\ UNCHANGED stream

\* Fault: what fwrite, fflush and fclose return is ignored.
WriteOutputUnchecked ==
    /\ pc = "write"
    /\ Quit(0)
    /\ UNCHANGED cause
    /\ (Deliver(result) \/ Deliver(Part))
    /\ UNCHANGED <<opt, stdin, origin, first, second, result>>

\* fwrite, then fclose or fflush.
WriteOutput ==
    /\ pc = "write"
    /\ \/ Deliver(result) /\ Quit(0) /\ UNCHANGED cause
       \/ Deliver(Part) /\ Quit(1) /\ cause' = "write"
    /\ UNCHANGED <<opt, stdin, origin, first, second, result>>

-----------------------------------------------------------------------------
(* The directory modes.                                                    *)

\* run_directory_diff, up to the patch.
DirectoryDiff ==
    /\ pc = "dirdiff" /\ Kind(opt.first) = "dir" /\ Kind(opt.second) = "dir"
    /\ \E n \in PatchSizes : result' = PatchOf(fs[opt.first], fs[opt.second], n)
    /\ Goto(IF IsStream(opt.output) THEN "open" ELSE "commit")
    /\ UNCHANGED <<opt, fs, stdin, origin, stream, first, second, cause>>

\* difz_write_new_file_atomic.
Commit ==
    /\ pc = "commit"
    /\ \/ Kind(opt.output) = "absent" /\ Quit(0) /\ fs' = [fs EXCEPT ![opt.output] = result]
       \/ Quit(1) /\ UNCHANGED fs
    /\ UNCHANGED <<opt, stdin, origin, stream, first, second, result, cause>>

\* run_directory_patch up to difz_directory_patch; Fails stands for its errors.
DirectoryPatch ==
    /\ pc = "dirpatch" /\ Kind(opt.second) \in {"file", "stream"}
    /\ LET p == IF IsStream(opt.second) THEN stdin ELSE fs[opt.second]
       IN  \E d \in p.patch :
              /\ d.tree /\ Kind(opt.first) = "dir" /\ d.from = fs[opt.first].bytes
              /\ result' = Named("dir", d.to)
    /\ stdin' = IF IsStream(opt.second) THEN Drained ELSE stdin
    /\ Goto("publish")
    /\ UNCHANGED <<opt, fs, origin, stream, first, second, cause>>

Publish ==
    /\ pc = "publish"
    /\ \/ Kind(opt.output) = "absent" /\ Quit(0) /\ fs' = [fs EXCEPT ![opt.output] = result]
       \/ Quit(1) /\ UNCHANGED fs
    /\ UNCHANGED <<opt, stdin, origin, stream, first, second, result, cause>>

-----------------------------------------------------------------------------
OnAlarm ==
    /\ opt.wall /\ pc \notin {"start", "done"}
    /\ Quit(124)
    /\ UNCHANGED <<opt, fs, stdin, origin, stream, first, second, result, cause>>

\* Between the look at an argument and its use another program replaces it.
Replaced ==
    /\ pc \in {"load first", "dirdiff", "dirpatch"} /\ fs = origin
    /\ \E p \in Places, c \in {Absent, Content("special", "", {}, 0), Content("dir", "old", {}, SizeOf["old"])} :
          fs' = [fs EXCEPT ![p] = c] /\ fs' # fs /\ origin' = fs'
    /\ UNCHANGED <<opt, stdin, stream, pc, first, second, result, cause, exit>>

Terminated == pc = "done" /\ UNCHANGED vars

Init ==
    /\ opt \in Options /\ fs \in FileSystems /\ stdin \in Streams
    /\ origin = fs /\ stream = Absent
    /\ pc = "start" /\ first = Nothing /\ second = Nothing
    /\ result = Absent /\ cause = "" /\ exit = -1

Program ==
    \/ Validate \/ Dispatch \/ LoadFirst \/ LoadSecond \/ LoadRefused \/ Fails \/ Compute
    \/ OpenOutput \/ WriteOutput \/ DirectoryDiff \/ Commit \/ DirectoryPatch \/ Publish

Next == Program \/ OnAlarm \/ Replaced \/ Terminated

Spec == Init /\ [][Next]_vars

-----------------------------------------------------------------------------
TypeOK ==
    /\ opt \in Options
    /\ pc \in {"start", "dispatch", "load first", "load second", "compute", "open", "write",
              "dirdiff", "commit", "dirpatch", "publish", "done"}
    /\ exit \in {-1, 0, 1, 124} /\ (pc = "done" <=> exit # -1)

IsTree(c) == c.kind = "dir" \/ \E d \in c.patch : d.tree

\* Exit code 0 says that the whole result is where it was asked for.  Exit code 1
\* says that no file was touched, unless writing the output itself failed.
ExitTellsOutcome ==
    /\ exit = 0 => IF IsStream(opt.output) THEN stream = result ELSE fs[opt.output] = result
    /\ exit = 1 /\ cause = "" => fs = origin

\* The result is computed from the inputs as they were found, also when the
\* output is one of them and the mapped input is truncated by opening it.
ComputedFromOriginals ==
    exit = 0 /\ opt.mode # "inspect" /\ {opt.first, opt.second} \subseteq Places =>
        LET x == origin[opt.first]
            y == origin[opt.second]
        IN  IF opt.mode = "diff"
            THEN \E d \in result.patch : d.from = x.bytes /\ d.to = y.bytes
            ELSE \E d \in y.patch : d.from = x.bytes /\ result.bytes = d.to

\* In the file modes an output that was delivered is within --max-output-bytes,
\* and a patch of a target that is not empty within --max-output-ratio.
FileCeilingsHold ==
    exit = 0 /\ opt.mode # "inspect" /\ ~IsTree(result) =>
        /\ Within(result.size, opt.bytes)
        /\ opt.mode = "diff" /\ opt.ratio # 0 /\ second.content.size > 0 =>
              result.size * 100 <= opt.ratio * second.content.size

=============================================================================
