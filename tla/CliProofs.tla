------------------------------ MODULE CliProofs ------------------------------
(***************************************************************************)
(* What the exit code of the command line program says, for all command    *)
(* lines, file systems, streams, sizes and ceilings.  The argument is that *)
(* nothing is written before the result is computed, so that the inputs    *)
(* are still those that were found, even where the output is one of them.  *)
(***************************************************************************)
EXTENDS Cli, TLAPS

Unwritten == {"start", "dispatch", "load first", "load second", "compute", "open", "dirdiff",
              "commit", "dirpatch", "publish"}

\* Lengths, and the places there are.
Typed ==
    /\ opt \in Options
    /\ DOMAIN fs = Places
    /\ pc \in Unwritten => \A p \in Places : fs[p].size \in Nat
    /\ stdin.size \in Nat
    /\ pc \in Unwritten \cup {"write", "done"}
    /\ exit # -1 <=> pc = "done"

\* The modes that lead to a place in main.
Moded ==
    /\ pc = "dirdiff" => opt.mode = "diff"
    /\ pc = "dirpatch" => opt.mode = "patch"
    /\ pc = "load second" => opt.mode # "inspect"

\* What a loaded input gives when it is used.
FirstLoaded == opt.first \in Places => Bytes(first) = fs[opt.first]
SecondLoaded ==
    /\ Bytes(second) = second.content /\ second.content.size \in Nat
    /\ opt.second \in Places => Bytes(second) = fs[opt.second]

Loaded ==
    /\ pc \in {"load second", "compute"} /\ opt.mode # "inspect" => FirstLoaded
    /\ pc = "compute" /\ opt.mode # "inspect" => SecondLoaded

\* The result comes from the inputs as they were found.
FromOriginals ==
    opt.mode # "inspect" /\ {opt.first, opt.second} \subseteq Places =>
        IF opt.mode = "diff"
        THEN \E d \in result.patch : d.from = origin[opt.first].bytes /\ d.to = origin[opt.second].bytes
        ELSE \E d \in origin[opt.second].patch : d.from = origin[opt.first].bytes /\ result.bytes = d.to

\* The result is within the ceilings.
WithinCeilings ==
    opt.mode # "inspect" /\ ~IsTree(result) =>
        /\ Within(result.size, opt.bytes)
        /\ opt.mode = "diff" /\ opt.ratio # 0 /\ second.content.size > 0 =>
              result.size * 100 <= opt.ratio * second.content.size

Computed == pc \in {"open", "write", "commit", "publish"} \/ exit = 0 => FromOriginals /\ WithinCeilings

CliInv ==
    /\ Typed /\ Moded /\ Loaded /\ Computed
    /\ pc \in Unwritten => fs = origin
    /\ ExitTellsOutcome

-----------------------------------------------------------------------------
\* A program that runs has no exit code.
LEMMA Codes == \A c : c = -1 => c # 0 /\ c # 1
  OBVIOUS

\* A division by 100 that is not exceeded.
LEMMA Hundredths == \A a, n \in Nat : n <= a \div 100 => n * 100 <= a
  OBVIOUS

\* create_limit: what is within the limit is within both ceilings, as no patch is
\* as short as the least limit.
LEMMA LimitIsBoth ==
  ASSUME opt.bytes \in Nat, opt.ratio \in Nat, NEW length \in Nat, NEW n \in Nat, n > 1,
         Within(n, CreateLimit(length))
  PROVE  /\ Within(n, opt.bytes)
         /\ opt.ratio # 0 /\ length > 0 => n * 100 <= opt.ratio * length
<1> DEFINE product == length * opt.ratio
           p == product \div 100
           cap == IF p = 0 THEN 1 ELSE p
<1>1. product \in Nat /\ product = opt.ratio * length OBVIOUS
<1>2. p \in Nat /\ (n <= p => n * 100 <= product)
  <2> HIDE DEF product
  <2> QED BY <1>1, Hundredths
<1>3. CASE opt.ratio # 0 /\ length > 0 /\ (opt.bytes = 0 \/ cap < opt.bytes)
  <2>1. CreateLimit(length) = cap BY <1>3 DEF CreateLimit
  <2> HIDE DEF p
  <2>2. n <= cap BY <1>2, <2>1 DEF Within
  <2>3. n <= p BY <1>2, <2>2
  <2>4. Within(n, opt.bytes) BY <1>2, <1>3, <2>2 DEF Within
  <2> QED BY <1>1, <1>2, <2>3, <2>4
<1>4. CASE ~(opt.ratio # 0 /\ length > 0 /\ (opt.bytes = 0 \/ cap < opt.bytes))
  <2>1. CreateLimit(length) = opt.bytes BY <1>4 DEF CreateLimit
  <2>2. Within(n, opt.bytes) BY <2>1
  <2>3. ASSUME opt.ratio # 0, length > 0 PROVE n * 100 <= product
    <3> HIDE DEF p
    <3>1. opt.bytes # 0 /\ ~(cap < opt.bytes) BY <1>4, <2>3
    <3>2. n <= cap BY <1>2, <2>2, <3>1 DEF Within
    <3>3. n <= p BY <1>2, <3>2
    <3> QED BY <1>2, <3>3
  <2> QED BY <1>1, <2>2, <2>3
<1> QED BY <1>3, <1>4

\* Before the arguments are looked at.
LEMMA InitCli == Init => CliInv
<1> SUFFICES ASSUME Init PROVE CliInv OBVIOUS
<1>1. opt \in Options /\ DOMAIN fs = Places /\ \A p \in Places : fs[p].size \in Nat
  BY CliAssumption DEF Init
<1>2. stdin.size \in Nat
  BY CliAssumption DEF Init
<1>3. pc = "start" /\ exit = -1 /\ fs = origin BY DEF Init
<1>4. Typed BY <1>1, <1>2, <1>3 DEF Typed, Unwritten
<1>5. Moded /\ Loaded /\ Computed /\ ExitTellsOutcome
  BY <1>3 DEF Moded, Loaded, Computed, ExitTellsOutcome
<1> QED BY <1>3, <1>4, <1>5 DEF CliInv

-----------------------------------------------------------------------------
(* One lemma for each way a step can go.                                   *)

\* Giving up before anything was written, or on the alarm.
LEMMA QuitCli ==
  ASSUME CliInv, pc # "done", NEW code \in {1, 124}, code = 1 => pc \in Unwritten, Quit(code),
         UNCHANGED <<opt, fs, stdin, origin>>
  PROVE  CliInv'
<1>1. pc' = "done" /\ exit' = code /\ exit' # -1 /\ exit' # 0 BY DEF Quit
<1>2. Typed' BY <1>1 DEF CliInv, Typed, Unwritten
<1>3. Moded' /\ Loaded' /\ Computed' BY <1>1 DEF Moded, Loaded, Computed
<1>4. pc' \notin Unwritten BY <1>1 DEF Unwritten
<1>5. ExitTellsOutcome' BY <1>1 DEF ExitTellsOutcome, CliInv
<1> QED BY <1>2, <1>3, <1>4, <1>5 DEF CliInv

\* Going on to a place where nothing is loaded or computed yet.
LEMMA EarlyCli ==
  ASSUME CliInv, pc # "done", pc # "write", NEW label \in {"dispatch", "load first", "dirdiff", "dirpatch"},
         Goto(label), label = "dirdiff" => opt.mode = "diff", label = "dirpatch" => opt.mode = "patch",
         UNCHANGED <<opt, fs, stdin, origin>>
  PROVE  CliInv'
<1>1. pc' = label /\ exit' = exit /\ exit = -1 BY DEF Goto, CliInv, Typed
<1>0. exit' # 0 /\ exit' # 1 BY <1>1, Codes
<1>2. Typed' BY <1>1 DEF CliInv, Typed, Unwritten
<1>3. Moded' /\ Loaded' /\ Computed' BY <1>0, <1>1 DEF Moded, Loaded, Computed
<1>4. pc \in Unwritten BY DEF CliInv, Typed
<1>5. fs' = origin' BY <1>4 DEF CliInv
<1>6. ExitTellsOutcome' BY <1>0 DEF ExitTellsOutcome
<1> QED BY <1>2, <1>3, <1>5, <1>6 DEF CliInv

LEMMA ValidateCli == CliInv /\ Validate => CliInv'
<1> SUFFICES ASSUME CliInv, Validate PROVE CliInv' OBVIOUS
<1>1. pc = "start" /\ UNCHANGED <<opt, fs, stdin, origin>> BY DEF Validate
<1>2. CASE Goto("dispatch") BY <1>1, <1>2, EarlyCli
<1>3. CASE Quit(1) BY <1>1, <1>3, QuitCli DEF Unwritten
<1> QED BY <1>2, <1>3 DEF Validate

LEMMA DispatchCli == CliInv /\ Dispatch => CliInv'
<1> SUFFICES ASSUME CliInv, Dispatch PROVE CliInv' OBVIOUS
<1>1. pc = "dispatch" /\ UNCHANGED <<opt, fs, stdin, origin>> BY DEF Dispatch
<1>2. \/ Quit(1) \/ Goto("load first")
      \/ opt.mode = "diff" /\ Goto("dirdiff")
      \/ opt.mode = "patch" /\ Goto("dirpatch")
  BY DEF Dispatch, DispatchDirectoryPatch, DispatchDirectoryDiff, DispatchFiles
<1>3. CASE Quit(1) BY <1>1, <1>3, QuitCli DEF Unwritten
<1>4. CASE Goto("load first") BY <1>1, <1>4, EarlyCli
<1>5. CASE opt.mode = "diff" /\ Goto("dirdiff") BY <1>1, <1>5, EarlyCli
<1>6. CASE opt.mode = "patch" /\ Goto("dirpatch") BY <1>1, <1>6, EarlyCli
<1> QED BY <1>2, <1>3, <1>4, <1>5, <1>6

\* Between two places where nothing is written.
LEMMA LoadingTyped ==
  ASSUME CliInv, pc \in Unwritten, NEW label \in Unwritten, Goto(label), UNCHANGED <<opt, fs, origin>>,
         stdin' = stdin \/ stdin' = Drained
  PROVE  Typed' /\ fs' = origin' /\ ExitTellsOutcome' /\ exit' = -1 /\ pc' = label
<1>1. pc' = label /\ exit' = exit /\ exit = -1 /\ pc' # "done"
  BY DEF Goto, CliInv, Typed, Unwritten
<1>2. stdin'.size \in Nat BY DEF CliInv, Typed, Drained, Content
<1>3. Typed' BY <1>1, <1>2 DEF CliInv, Typed
<1>4. fs' = origin' BY DEF CliInv
<1>5. ExitTellsOutcome' BY <1>1 DEF ExitTellsOutcome
<1> QED BY <1>1, <1>3, <1>4, <1>5

\* The fields of an input that was copied.
LEMMA CopiedFields ==
  ASSUME NEW x, NEW c, x = [mapped |-> FALSE, place |-> "", content |-> c]
  PROVE  ~x.mapped /\ x.content = c
<1>1. ~x.mapped OBVIOUS
<1>2. x.content = c OBVIOUS
<1> QED BY <1>1, <1>2

\* What load_path returns.
LEMMA LoadedBytes ==
  ASSUME NEW path, opt.mode # "inspect", stdin.size \in Nat, \A p \in Places : fs[p].size \in Nat,
         NEW x, x = IF IsStream(path) THEN LoadedStream ELSE LoadedFile(path)
  PROVE  /\ path \in Places => Bytes(x) = fs[path]
         /\ Bytes(x) = x.content /\ x.content.size \in Nat
<1>1. CASE path \in Places
  <2>1. x = [mapped |-> TRUE, place |-> path, content |-> fs[path]] BY <1>1 DEF IsStream, LoadedFile
  <2>2. Bytes(x) = fs[path] /\ x.content = fs[path] BY <2>1 DEF Bytes
  <2> QED BY <1>1, <2>2
<1>2. CASE path \notin Places
  <2>1. x = [mapped |-> FALSE, place |-> "", content |-> stdin] BY <1>2 DEF IsStream, LoadedStream
  <2>2. ~x.mapped /\ x.content = stdin BY <2>1, CopiedFields
  <2>3. Bytes(x) = stdin BY <2>2 DEF Bytes
  <2> QED BY <1>2, <2>2, <2>3
<1> QED BY <1>1, <1>2

LEMMA LoadFirstCli == CliInv /\ LoadFirst => CliInv'
<1> SUFFICES ASSUME CliInv, LoadFirst PROVE CliInv' OBVIOUS
<1>1. pc = "load first" /\ UNCHANGED <<opt, fs, origin>> /\ (stdin' = stdin \/ stdin' = Drained)
  BY DEF LoadFirst
<1> DEFINE label == IF opt.mode = "inspect" THEN "compute" ELSE "load second"
<1>2. Goto(label) /\ label \in Unwritten /\ pc \in Unwritten BY <1>1 DEF LoadFirst, Unwritten
<1>3. Typed' /\ fs' = origin' /\ ExitTellsOutcome' /\ exit' = -1 /\ pc' = label
  <2> HIDE DEF label
  <2> QED BY <1>1, <1>2, LoadingTyped
<1>4. exit' # 0 BY <1>3, Codes
<1>5. Moded' BY <1>1, <1>3 DEF Moded
<1>6. Computed' BY <1>3, <1>4 DEF Computed
<1>7. ASSUME opt.mode # "inspect" PROVE FirstLoaded'
  <2>1. first' = IF IsStream(opt.first) THEN LoadedStream ELSE LoadedFile(opt.first) BY DEF LoadFirst
  <2>2. opt.first \in Places => Bytes(first') = fs[opt.first]
    BY <1>2, <1>7, <2>1, LoadedBytes DEF CliInv, Typed
  <2> QED BY <1>1, <2>2 DEF FirstLoaded, Bytes
<1>8. Loaded' BY <1>1, <1>3, <1>7 DEF Loaded
<1> QED BY <1>3, <1>5, <1>6, <1>8 DEF CliInv

LEMMA LoadSecondCli == CliInv /\ LoadSecond => CliInv'
<1> SUFFICES ASSUME CliInv, LoadSecond PROVE CliInv' OBVIOUS
<1>1. pc = "load second" /\ UNCHANGED <<opt, fs, origin, first>> /\ (stdin' = stdin \/ stdin' = Drained)
  BY DEF LoadSecond
<1>2. Goto("compute") /\ "compute" \in Unwritten /\ pc \in Unwritten BY <1>1 DEF LoadSecond, Unwritten
<1>3. Typed' /\ fs' = origin' /\ ExitTellsOutcome' /\ exit' = -1 /\ pc' = "compute"
  BY <1>1, <1>2, LoadingTyped
<1>4. exit' # 0 BY <1>3, Codes
<1>5. Moded' BY <1>1, <1>3 DEF Moded
<1>6. Computed' BY <1>3, <1>4 DEF Computed
<1>7. opt.mode # "inspect" BY <1>1 DEF CliInv, Moded
<1>8. FirstLoaded'
  <2>1. FirstLoaded BY <1>1, <1>7 DEF CliInv, Loaded
  <2> QED BY <1>1, <2>1 DEF FirstLoaded, Bytes
<1>9. SecondLoaded'
  <2>1. second' = IF IsStream(opt.second) THEN LoadedStream ELSE LoadedFile(opt.second) BY DEF LoadSecond
  <2>2. /\ opt.second \in Places => Bytes(second') = fs[opt.second]
        /\ Bytes(second') = second'.content /\ second'.content.size \in Nat
    BY <1>2, <1>7, <2>1, LoadedBytes DEF CliInv, Typed
  <2> QED BY <1>1, <2>2 DEF SecondLoaded, Bytes
<1>10. Loaded' BY <1>8, <1>9 DEF Loaded
<1> QED BY <1>3, <1>5, <1>6, <1>10 DEF CliInv

LEMMA RefusedCli == CliInv /\ (LoadRefused \/ Fails) => CliInv'
<1> SUFFICES ASSUME CliInv, LoadRefused \/ Fails PROVE CliInv' OBVIOUS
<1>1. pc \in Unwritten /\ pc # "done" BY DEF LoadRefused, Fails, Unwritten
<1>2. Quit(1) /\ UNCHANGED <<opt, fs, stdin, origin>> BY DEF LoadRefused, Fails
<1> QED BY <1>1, <1>2, QuitCli

\* The patch of two files.
LEMMA DiffComputed ==
  ASSUME CliInv, pc = "compute", opt.mode = "diff", result' \in DiffResults(Bytes(first), Bytes(second)),
         UNCHANGED <<opt, origin, second>>
  PROVE  FromOriginals' /\ WithinCeilings'
<1>1. FirstLoaded /\ SecondLoaded /\ fs = origin BY DEF CliInv, Loaded, Unwritten
<1> DEFINE x == Bytes(first)
           y == Bytes(second)
<1>2. PICK n \in PatchSizes : Within(n, CreateLimit(y.size)) /\ result' = PatchOf(x, y, n)
  BY DEF DiffResults
<1>3. result'.size = n /\ result'.patch = {[from |-> x.bytes, to |-> y.bytes, tree |-> x.kind = "dir"]}
  BY <1>2 DEF PatchOf, Content
<1>4. FromOriginals'
  <2> SUFFICES ASSUME {opt.first, opt.second} \subseteq Places
               PROVE  \E d \in result'.patch : d.from = origin[opt.first].bytes /\ d.to = origin[opt.second].bytes
    BY DEF FromOriginals
  <2>1. x = origin[opt.first] /\ y = origin[opt.second] BY <1>1 DEF FirstLoaded, SecondLoaded
  <2> DEFINE d == [from |-> x.bytes, to |-> y.bytes, tree |-> x.kind = "dir"]
  <2>2. d \in result'.patch BY <1>3
  <2>3. d.from = x.bytes /\ d.to = y.bytes OBVIOUS
  <2> QED BY <2>1, <2>2, <2>3
<1>5. WithinCeilings'
  <2>1. opt.bytes \in Nat /\ opt.ratio \in Nat /\ n \in Nat /\ n > 1 BY CliAssumption DEF CliInv, Typed
  <2>2. y = second.content /\ y.size \in Nat BY <1>1 DEF SecondLoaded
  <2>3. /\ Within(n, opt.bytes)
        /\ opt.ratio # 0 /\ y.size > 0 => n * 100 <= opt.ratio * y.size
    <3> HIDE DEF y
    <3> QED BY <1>2, <2>1, <2>2, LimitIsBoth
  <2> QED BY <1>3, <2>2, <2>3 DEF WithinCeilings, Within
<1> QED BY <1>4, <1>5

\* The target that a file patch makes.
LEMMA PatchComputed ==
  ASSUME CliInv, pc = "compute", opt.mode = "patch", result' \in PatchResults(Bytes(first), Bytes(second)),
         UNCHANGED <<opt, origin, second>>
  PROVE  FromOriginals' /\ WithinCeilings'
<1>1. FirstLoaded /\ SecondLoaded /\ fs = origin BY DEF CliInv, Loaded, Unwritten
<1> DEFINE x == Bytes(first)
           p == Bytes(second)
<1>2. PICK d \in p.patch : /\ d.from = x.bytes /\ Within(SizeOf[d.to], opt.bytes)
                           /\ result' = Named("file", d.to)
  BY DEF PatchResults
<1>3. result'.bytes = d.to /\ result'.size = SizeOf[d.to] BY <1>2 DEF Named, Content
<1>4. FromOriginals'
  <2> SUFFICES ASSUME {opt.first, opt.second} \subseteq Places
               PROVE  \E e \in origin[opt.second].patch : e.from = origin[opt.first].bytes /\ result'.bytes = e.to
    BY DEF FromOriginals
  <2>1. x = origin[opt.first] /\ p = origin[opt.second] BY <1>1 DEF FirstLoaded, SecondLoaded
  <2> HIDE DEF x, p
  <2> QED BY <1>2, <1>3, <2>1
<1>5. WithinCeilings' BY <1>2, <1>3 DEF WithinCeilings, Within
<1> QED BY <1>4, <1>5

LEMMA ComputeCli == CliInv /\ Compute => CliInv'
<1> SUFFICES ASSUME CliInv, Compute PROVE CliInv' OBVIOUS
<1>1. /\ pc = "compute" /\ result' \in Results /\ Goto("open")
      /\ UNCHANGED <<opt, fs, stdin, origin, second>>
  BY DEF Compute
<1>2. Typed' /\ fs' = origin' /\ ExitTellsOutcome' /\ exit' = -1 /\ pc' = "open"
  <2>1. pc \in Unwritten /\ "open" \in Unwritten BY <1>1 DEF Unwritten
  <2> QED BY <1>1, <2>1, LoadingTyped
<1>3. Moded' /\ Loaded' BY <1>2 DEF Moded, Loaded
<1>4. opt.mode \in {"diff", "patch", "inspect"} BY CliAssumption DEF CliInv, Typed
<1>5. CASE opt.mode = "diff"
  <2>1. result' \in DiffResults(Bytes(first), Bytes(second)) BY <1>1, <1>5 DEF Results
  <2> QED BY <1>1, <1>2, <1>3, <1>5, <2>1, DiffComputed DEF CliInv, Computed
<1>6. CASE opt.mode = "patch"
  <2>1. result' \in PatchResults(Bytes(first), Bytes(second)) BY <1>1, <1>6 DEF Results
  <2> QED BY <1>1, <1>2, <1>3, <1>6, <2>1, PatchComputed DEF CliInv, Computed
<1>7. CASE opt.mode = "inspect"
  <2>1. FromOriginals' /\ WithinCeilings' BY <1>1, <1>7 DEF FromOriginals, WithinCeilings
  <2> QED BY <1>2, <1>3, <2>1 DEF CliInv, Computed
<1> QED BY <1>4, <1>5, <1>6, <1>7

\* A file that is replaced has a length.
LEMMA PutTyped ==
  ASSUME DOMAIN fs = Places, \A p \in Places : fs[p].size \in Nat, NEW q, NEW c, c.size \in Nat,
         fs' = [fs EXCEPT ![q] = c]
  PROVE  DOMAIN fs' = Places /\ \A p \in Places : fs'[p].size \in Nat
<1>1. DOMAIN fs' = Places OBVIOUS
<1>2. \A p \in Places : fs'[p] = IF p = q THEN c ELSE fs[p] OBVIOUS
<1> QED BY <1>1, <1>2

LEMMA OpenOutputCli == CliInv /\ OpenOutput => CliInv'
<1> SUFFICES ASSUME CliInv, OpenOutput PROVE CliInv' OBVIOUS
<1>1. pc = "open" /\ UNCHANGED <<opt, stdin, origin, second, result>> BY DEF OpenOutput
<1>2. CASE Quit(1) /\ UNCHANGED fs BY <1>1, <1>2, QuitCli DEF Unwritten
<1>3. CASE Goto("write") /\ (fs' = fs \/ fs' = [fs EXCEPT ![opt.output] = Part])
  <2>1. pc' = "write" /\ exit' = exit /\ exit = -1 BY <1>1, <1>3 DEF Goto, CliInv, Typed
  <2>2. exit' # 0 /\ exit' # 1 BY <2>1, Codes
  <2>3. DOMAIN fs' = Places BY <1>3 DEF CliInv, Typed
  <2>4. Typed' BY <1>1, <2>1, <2>3 DEF CliInv, Typed, Unwritten
  <2>5. Moded' /\ Loaded' BY <2>1 DEF Moded, Loaded
  <2>6. FromOriginals /\ WithinCeilings BY <1>1 DEF CliInv, Computed
  <2>7. FromOriginals' BY <1>1, <2>6 DEF FromOriginals
  <2>8. WithinCeilings' BY <1>1, <2>6 DEF WithinCeilings, Within, IsTree
  <2>9. ExitTellsOutcome' BY <2>2 DEF ExitTellsOutcome
  <2>10. pc' \notin Unwritten BY <2>1 DEF Unwritten
  <2> QED BY <2>4, <2>5, <2>7, <2>8, <2>9, <2>10 DEF CliInv, Computed
<1> QED BY <1>2, <1>3 DEF OpenOutput

\* The whole result is where it was asked for.
LEMMA DeliveredCli ==
  ASSUME CliInv, pc \in {"write", "commit", "publish"}, Quit(0), UNCHANGED <<opt, stdin, origin, second, result>>,
         DOMAIN fs' = Places, IF IsStream(opt.output) THEN stream' = result ELSE fs'[opt.output] = result
  PROVE  CliInv'
<1>1. pc' = "done" /\ exit' = 0 BY DEF Quit
<1>2. exit' # -1 /\ exit' # 1 BY <1>1
<1>3. Typed' BY <1>1, <1>2 DEF CliInv, Typed, Unwritten
<1>4. Moded' /\ Loaded' BY <1>1 DEF Moded, Loaded
<1>5. FromOriginals /\ WithinCeilings BY DEF CliInv, Computed
<1>6. FromOriginals' BY <1>5 DEF FromOriginals
<1>7. WithinCeilings' BY <1>5 DEF WithinCeilings, Within, IsTree
<1>8. ExitTellsOutcome' BY <1>2 DEF ExitTellsOutcome, IsStream
<1>9. pc' \notin Unwritten BY <1>1 DEF Unwritten
<1> QED BY <1>3, <1>4, <1>6, <1>7, <1>8, <1>9 DEF CliInv, Computed

LEMMA WriteOutputCli == CliInv /\ WriteOutput => CliInv'
<1> SUFFICES ASSUME CliInv, WriteOutput PROVE CliInv' OBVIOUS
<1>1. pc = "write" /\ UNCHANGED <<opt, stdin, origin, second, result>> BY DEF WriteOutput
<1>2. DOMAIN fs = Places BY DEF CliInv, Typed
<1>3. CASE Deliver(result) /\ Quit(0)
  <2>1. DOMAIN fs' = Places BY <1>2, <1>3 DEF Deliver
  <2>2. IF IsStream(opt.output) THEN stream' = result ELSE fs'[opt.output] = result
    BY <1>2, <1>3 DEF Deliver, IsStream
  <2> QED BY <1>1, <1>3, <2>1, <2>2, DeliveredCli
<1>4. CASE Deliver(Part) /\ Quit(1) /\ cause' = "write"
  <2>1. pc' = "done" /\ exit' = 1 BY <1>4 DEF Quit
  <2>2. exit' # -1 /\ exit' # 0 BY <2>1
  <2>3. DOMAIN fs' = Places BY <1>2, <1>4 DEF Deliver
  <2>4. Typed' BY <1>1, <2>1, <2>2, <2>3 DEF CliInv, Typed, Unwritten
  <2>5. Moded' /\ Loaded' /\ Computed' BY <2>1, <2>2 DEF Moded, Loaded, Computed
  <2>6. ExitTellsOutcome' BY <1>4, <2>2 DEF ExitTellsOutcome
  <2>7. pc' \notin Unwritten BY <2>1 DEF Unwritten
  <2> QED BY <2>4, <2>5, <2>6, <2>7 DEF CliInv
<1> QED BY <1>3, <1>4 DEF WriteOutput

\* difz_write_new_file_atomic and the publication of a tree: all or nothing.
LEMMA PublishedCli == CliInv /\ (Commit \/ Publish) => CliInv'
<1> SUFFICES ASSUME CliInv, Commit \/ Publish PROVE CliInv' OBVIOUS
<1>1. pc \in {"commit", "publish"} /\ UNCHANGED <<opt, stdin, origin, stream, second, result>>
  BY DEF Commit, Publish
<1>2. CASE Quit(1) /\ UNCHANGED fs BY <1>1, <1>2, QuitCli DEF Unwritten
<1>3. CASE Kind(opt.output) = "absent" /\ Quit(0) /\ fs' = [fs EXCEPT ![opt.output] = result]
  <2>1. opt.output \in Places BY <1>3 DEF Kind, IsStream
  <2>2. DOMAIN fs' = Places /\ fs'[opt.output] = result BY <1>3, <2>1 DEF CliInv, Typed
  <2> QED BY <1>1, <1>3, <2>1, <2>2, DeliveredCli DEF IsStream
<1> QED BY <1>2, <1>3 DEF Commit, Publish

LEMMA DirectoryDiffCli == CliInv /\ DirectoryDiff => CliInv'
<1> SUFFICES ASSUME CliInv, DirectoryDiff PROVE CliInv' OBVIOUS
<1>1. pc = "dirdiff" /\ UNCHANGED <<opt, fs, stdin, origin, second>> /\ Kind(opt.first) = "dir"
  BY DEF DirectoryDiff
<1> DEFINE label == IF IsStream(opt.output) THEN "open" ELSE "commit"
           x == fs[opt.first]
           y == fs[opt.second]
<1>2. PICK n \in PatchSizes : result' = PatchOf(x, y, n) BY DEF DirectoryDiff
<1>3. Goto(label) /\ label \in Unwritten /\ pc \in Unwritten BY <1>1 DEF DirectoryDiff, Unwritten
<1>4. Typed' /\ fs' = origin' /\ ExitTellsOutcome' /\ exit' = -1 /\ pc' = label
  <2> HIDE DEF label
  <2> QED BY <1>1, <1>3, LoadingTyped
<1>5. Moded' /\ Loaded' BY <1>4 DEF Moded, Loaded
<1>6. opt.mode = "diff" /\ fs = origin BY <1>1, <1>3 DEF CliInv, Moded
<1> DEFINE d == [from |-> x.bytes, to |-> y.bytes, tree |-> x.kind = "dir"]
<1>7. d \in result'.patch BY <1>2 DEF PatchOf, Content
<1>8. d.from = x.bytes /\ d.to = y.bytes OBVIOUS
<1>9. d.tree
  <2>1. x.kind = "dir" BY <1>1 DEF Kind, IsStream
  <2> QED BY <2>1
<1>10. FromOriginals' BY <1>1, <1>6, <1>7, <1>8 DEF FromOriginals
<1>11. WithinCeilings' BY <1>7, <1>9 DEF WithinCeilings, IsTree
<1> QED BY <1>4, <1>5, <1>10, <1>11 DEF CliInv, Computed

LEMMA DirectoryPatchCli == CliInv /\ DirectoryPatch => CliInv'
<1> SUFFICES ASSUME CliInv, DirectoryPatch PROVE CliInv' OBVIOUS
<1>1. /\ pc = "dirpatch" /\ UNCHANGED <<opt, fs, origin, second>> /\ Goto("publish")
      /\ stdin' = stdin \/ stdin' = Drained
  BY DEF DirectoryPatch
<1> DEFINE p == IF IsStream(opt.second) THEN stdin ELSE fs[opt.second]
<1>2. PICK d \in p.patch : d.from = fs[opt.first].bytes /\ result' = Named("dir", d.to) BY DEF DirectoryPatch
<1>3. pc \in Unwritten /\ "publish" \in Unwritten BY <1>1 DEF Unwritten
<1>4. Typed' /\ fs' = origin' /\ ExitTellsOutcome' /\ exit' = -1 /\ pc' = "publish"
  BY <1>1, <1>3, LoadingTyped
<1>5. Moded' /\ Loaded' BY <1>4 DEF Moded, Loaded
<1>6. opt.mode = "patch" /\ fs = origin BY <1>1, <1>3 DEF CliInv, Moded
<1>7. result'.kind = "dir" /\ result'.bytes = d.to BY <1>2 DEF Named, Content
<1>8. FromOriginals'
  <2> SUFFICES ASSUME {opt.first, opt.second} \subseteq Places
               PROVE  \E e \in origin[opt.second].patch : e.from = origin[opt.first].bytes /\ result'.bytes = e.to
    BY <1>1, <1>6 DEF FromOriginals
  <2>1. p = origin[opt.second] BY <1>6 DEF IsStream
  <2> HIDE DEF p
  <2> QED BY <1>2, <1>6, <1>7, <2>1
<1>9. WithinCeilings' BY <1>7 DEF WithinCeilings, IsTree
<1> QED BY <1>4, <1>5, <1>8, <1>9 DEF CliInv, Computed

\* What another program puts in the place of an argument has a length.
LEMMA ReplacementSized ==
  ASSUME NEW c \in {Absent, Content("special", "", {}, 0), Content("dir", "old", {}, SizeOf["old"])}
  PROVE  c.size \in Nat
<1>1. CASE c = Absent BY <1>1 DEF Absent, Content
<1>2. CASE c = Content("special", "", {}, 0) BY <1>2 DEF Content
<1>3. CASE c = Content("dir", "old", {}, SizeOf["old"])
  <2>1. c.size = SizeOf["old"] BY <1>3 DEF Content
  <2> QED BY <2>1, CliAssumption
<1> QED BY <1>1, <1>2, <1>3

LEMMA ReplacedCli == CliInv /\ Replaced => CliInv'
<1> SUFFICES ASSUME CliInv, Replaced PROVE CliInv' OBVIOUS
<1>1. /\ pc \in {"load first", "dirdiff", "dirpatch"} /\ UNCHANGED <<opt, stdin, pc, exit>>
      /\ fs' = origin'
  BY DEF Replaced
<1>2. pc \in Unwritten BY <1>1 DEF Unwritten
<1>3. DOMAIN fs' = Places /\ \A p \in Places : fs'[p].size \in Nat
  <2>1. PICK q \in Places, c \in {Absent, Content("special", "", {}, 0), Content("dir", "old", {}, SizeOf["old"])} :
          fs' = [fs EXCEPT ![q] = c]
    BY DEF Replaced
  <2>2. c.size \in Nat BY ReplacementSized
  <2>3. DOMAIN fs = Places /\ \A p \in Places : fs[p].size \in Nat BY <1>2 DEF CliInv, Typed
  <2> QED BY <2>1, <2>2, <2>3, PutTyped
<1>4. exit = -1 BY <1>1 DEF CliInv, Typed
<1>5. exit' # 0 /\ exit' # 1 BY <1>1, <1>4, Codes
<1>6. Typed' BY <1>1, <1>3 DEF CliInv, Typed
<1>7. Moded' BY <1>1 DEF CliInv, Moded
<1>8. Loaded' /\ Computed' BY <1>1, <1>5 DEF Loaded, Computed
<1>9. ExitTellsOutcome' BY <1>5 DEF ExitTellsOutcome
<1> QED BY <1>1, <1>6, <1>7, <1>8, <1>9 DEF CliInv

\* Nothing changes.
LEMMA StutterCli == CliInv /\ UNCHANGED vars => CliInv'
<1> SUFFICES ASSUME CliInv, UNCHANGED vars PROVE CliInv' OBVIOUS
<1> USE DEF vars
<1>1. Typed' /\ Moded' BY DEF CliInv, Typed, Moded
<1>2. (FirstLoaded <=> FirstLoaded') /\ (SecondLoaded <=> SecondLoaded')
  BY DEF FirstLoaded, SecondLoaded, Bytes
<1>3. Loaded' BY <1>2 DEF CliInv, Loaded
<1>4. (FromOriginals <=> FromOriginals') /\ (WithinCeilings <=> WithinCeilings')
  BY DEF FromOriginals, WithinCeilings, Within, IsTree
<1>5. Computed' BY <1>4 DEF CliInv, Computed
<1>6. ExitTellsOutcome' BY DEF CliInv, ExitTellsOutcome, IsStream
<1> QED BY <1>1, <1>3, <1>5, <1>6 DEF CliInv

LEMMA OnAlarmCli == CliInv /\ OnAlarm => CliInv'
  BY QuitCli DEF OnAlarm

LEMMA NextCli == CliInv /\ [Next]_vars => CliInv'
  BY ValidateCli, DispatchCli, LoadFirstCli, LoadSecondCli, RefusedCli, ComputeCli, OpenOutputCli,
     WriteOutputCli, DirectoryDiffCli, PublishedCli, DirectoryPatchCli, ReplacedCli, OnAlarmCli, StutterCli
  DEF Next, Program, Terminated

-----------------------------------------------------------------------------
\* The invariant holds in every run of main.
THEOREM CliInvHolds == Spec => []CliInv
  BY InitCli, NextCli, PTL DEF Spec

\* For all command lines, file systems and streams, exit code 0 of main says that
\* the whole result is where it was asked for, and exit code 1 that no file was
\* touched unless writing the output itself failed.
THEOREM ExitCodesTell == Spec => []ExitTellsOutcome
<1>1. CliInv => ExitTellsOutcome BY DEF CliInv
<1> QED BY CliInvHolds, <1>1, PTL

\* What main delivers was computed from the inputs as they were found, even where
\* write_output truncates one of them while it is mapped.
THEOREM OriginalsUsed == Spec => []ComputedFromOriginals
<1>1. CliInv => ComputedFromOriginals BY DEF CliInv, Computed, FromOriginals, ComputedFromOriginals
<1> QED BY CliInvHolds, <1>1, PTL

\* What main delivers in the file modes is within both ceilings, for all ceilings
\* and all lengths.
THEOREM CeilingsHold == Spec => []FileCeilingsHold
<1>1. CliInv => FileCeilingsHold BY DEF CliInv, Computed, WithinCeilings, FileCeilingsHold
<1> QED BY CliInvHolds, <1>1, PTL
=============================================================================
