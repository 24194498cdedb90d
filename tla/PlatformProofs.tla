--------------------------- MODULE PlatformProofs ---------------------------
(* What the platform crate's calls keep and return, for any number of      *)
(* threads, names and objects, and whatever other programs do.             *)
EXTENDS Platform, TLAPS

Before == {"start", "ready", "opened"}
Controls == Before \cup {"read", "fill", "listing", "reading", "done"}

Items == {Ok(n) : n \in Names} \cup {Err("Io"), Err("OutOfMemory"), Err("LimitExceeded")}

TypeInv ==
    /\ dir \in [Names -> Objects \cup {Absent}]
    /\ size \in [Objects -> Nat]
    /\ attr \in [Objects -> Values \cup {Absent}]
    /\ job \in [Readers -> Call]
    /\ pc \in [Readers -> Controls]
    /\ fd \in [Readers -> Objects \cup {Absent}]
    /\ pos \in [Readers -> Nat]
    /\ bytes \in [Readers -> Seq(Nat)]
    /\ cap \in [Readers -> Nat]
    /\ ahead \in [Readers -> SUBSET (Names \cup Dots)]
    /\ desc \in [Readers -> Readers]
    /\ remaining \in [Readers -> Nat]
    /\ finished \in [Readers -> BOOLEAN]
    /\ out \in [Readers -> Seq(Items)]
    /\ DOMAIN result = Readers

-----------------------------------------------------------------------------
(* Sequences.                                                              *)

LEMMA LenIs ==
    ASSUME NEW S, NEW s \in Seq(S)
    PROVE  Len(s) \in Nat /\ DOMAIN s = 1..Len(s)
  OBVIOUS

LEMMA FunctionIsSeq ==
    ASSUME NEW S, NEW n \in Nat, NEW f \in [1..n -> S]
    PROVE  f \in Seq(S) /\ Len(f) = n
  OBVIOUS

LEMMA SameSeq ==
    ASSUME NEW S, NEW s \in Seq(S), NEW t \in Seq(S), Len(s) = Len(t), \A i \in 1..Len(s) : s[i] = t[i]
    PROVE  s = t
  OBVIOUS

-----------------------------------------------------------------------------
Control(r) == (\E v : Return(r, v)) \/ (\E s \in Controls : Goto(r, s))

LEMMA ControlType ==
    ASSUME TypeInv, NEW r \in Readers, Control(r)
    PROVE  pc' \in [Readers -> Controls] /\ DOMAIN result' = Readers
  BY ZenonT(120) DEF TypeInv, Control, Return, Goto, Controls, Before

\* Every step of a call returns or goes on, and leaves the other calls alone.
LEMMA WorkControls == ASSUME NEW r \in Readers, Work(r) \/ Fails(r) PROVE Control(r)
<1> USE DEF Control, Controls, Before
<1>1. ASSUME ReadSymlink(r) PROVE Control(r)
  BY <1>1, Zenon DEF ReadSymlink, Grow
<1>2. ASSUME Get(r) PROVE Control(r)
  BY <1>2, Zenon DEF Get, ReadBuffer, Grow
<1>3. ASSUME List(r) PROVE Control(r)
  BY <1>3, Zenon DEF List, ReadBuffer, Grow
<1>4. ASSUME ReadDir(r) PROVE Control(r)
  BY <1>4, Zenon DEF ReadDir, Yield
<1>5. ASSUME Validate(r) \/ Inspect(r) \/ Fails(r) PROVE Control(r)
  BY <1>5, Zenon DEF Validate, Inspect, Fails
<1>6. ASSUME OpenAt(r) PROVE Control(r)
  BY <1>6, Zenon DEF OpenAt
<1>7. ASSUME Classify(r) PROVE Control(r)
  BY <1>7, Zenon DEF Classify
<1>8. ASSUME ReadLimited(r) PROVE Control(r)
  BY <1>8, Zenon DEF ReadLimited
<1>9. ASSUME Reserve(r) \/ Set(r) \/ Remove(r) PROVE Control(r)
  BY <1>9, Zenon DEF Reserve, Set, Remove
<1>10. ASSUME OpenStream(r) \/ NextName(r) PROVE Control(r)
  BY <1>10, Zenon DEF OpenStream, NextName
<1> QED
  BY <1>1, <1>2, <1>3, <1>4, <1>5, <1>6, <1>7, <1>8, <1>9, <1>10, Zenon DEF Work

LEMMA JobType ==
    ASSUME TypeInv, NEW r \in Readers
    PROVE  /\ job[r].max \in Nat /\ job[r].max <= Usize /\ job[r].count \in Nat
           /\ job[r].name \in Names /\ job[r].file \in Objects /\ job[r].value \in Values
           /\ job[r].op \in Ops
  BY SizesAssumption DEF TypeInv, Call

LEMMA NamedType ==
    ASSUME TypeInv, NEW r \in Readers
    PROVE  /\ dir[job[r].name] = Absent \/ dir[job[r].name] \in Objects
           /\ cap[r] \in Nat
<1>1. job[r].name \in Names
  BY JobType, Zenon
<1> QED
  BY <1>1, Zenon DEF TypeInv

LEMMA ConcatType == ASSUME NEW s \in Seq(Nat), NEW t \in Seq(Nat) PROVE s \o t \in Seq(Nat)
  OBVIOUS

LEMMA LeastType == \A a, b \in Nat : Least(a, b) \in Nat /\ Least(a, b) <= a /\ Least(a, b) <= b
  BY DEF Least

LEMMA ChunkType ==
    ASSUME NEW p \in Nat, NEW n \in Nat
    PROVE  [i \in 1..n |-> p + i] \in Seq(Nat)
<1>1. [i \in 1..n |-> p + i] \in [1..n -> Nat]
  OBVIOUS
<1> QED
  BY <1>1, FunctionIsSeq, Zenon

LEMMA ConcatLen ==
    ASSUME NEW s \in Seq(Nat), NEW t \in Seq(Nat)
    PROVE  Len(s \o t) = Len(s) + Len(t)
  OBVIOUS

\* What a step does to the buffers, the world and the streams, one variable at
\* a time.
LEMMA BufferTypes ==
    ASSUME TypeInv, NEW r \in Readers, Work(r) \/ Fails(r)
    PROVE  /\ pos' \in [Readers -> Nat] /\ bytes' \in [Readers -> Seq(Nat)]
           /\ cap' \in [Readers -> Nat]
<1>t. pos \in [Readers -> Nat] /\ bytes \in [Readers -> Seq(Nat)] /\ cap \in [Readers -> Nat]
  BY Zenon DEF TypeInv
<1>j. job[r].max \in Nat
  BY JobType, Zenon
<1>1. CASE ReadLimited(r)
  <2> DEFINE left == job[r].max - Len(bytes[r])
             chunk(count) == [i \in 1..count |-> pos[r] + i]
  <2>1. PICK count \in Chunks(r, Request(left)) :
           /\ pos' = [pos EXCEPT ![r] = @ + count]
           /\ bytes' = bytes \/ bytes' = [bytes EXCEPT ![r] = @ \o chunk(count)]
    BY <1>1, ZenonT(120) DEF ReadLimited
  <2>2. count \in Nat
    BY DEF Chunks
  <2>3. chunk(count) \in Seq(Nat)
    BY <1>t, <2>2, ChunkType, ZenonT(120)
  <2>4. bytes[r] \o chunk(count) \in Seq(Nat)
    BY <1>t, <2>3
  <2>5. pos' \in [Readers -> Nat]
    BY <1>t, <2>1, <2>2
  <2> HIDE DEF chunk
  <2>6. bytes' \in [Readers -> Seq(Nat)]
    <3> DEFINE b == bytes[r] \o chunk(count)
    <3>1. b \in Seq(Nat)
      BY <2>4, Zenon
    <3>2. bytes' = bytes \/ bytes' = [bytes EXCEPT ![r] = b]
      BY <2>1, Zenon
    <3> HIDE DEF b
    <3> QED
      BY <1>t, <3>1, <3>2, ZenonT(120)
  <2>7. UNCHANGED cap
    BY <1>1, Zenon DEF ReadLimited
  <2> QED
    BY <1>t, <2>5, <2>6, <2>7, Zenon
<1>2. CASE Reserve(r) \/ ReadSymlink(r) \/ Get(r) \/ List(r)
  <2>1. Least(Initial, Ceiling(job[r].max)) \in Nat /\ Doubled(cap[r], job[r].max) \in Nat
    BY <1>t, <1>j, SizesAssumption, SMTT(120) DEF Doubled, Ceiling, Least
  <2>2. cap' = cap \/ cap' = [cap EXCEPT ![r] = Least(Initial, Ceiling(job[r].max))]
                   \/ cap' = [cap EXCEPT ![r] = Doubled(cap[r], job[r].max)]
    <3>1. CASE Reserve(r)
      BY <3>1, Zenon DEF Reserve
    <3>2. CASE ReadSymlink(r)
      BY <3>2, Zenon DEF ReadSymlink, Grow
    <3>3. CASE Get(r)
      BY <3>3, Zenon DEF Get, ReadBuffer, Grow
    <3>4. CASE List(r)
      BY <3>4, Zenon DEF List, ReadBuffer, Grow
    <3> QED
      BY <1>2, <3>1, <3>2, <3>3, <3>4, Zenon
  <2>3. UNCHANGED <<pos, bytes>>
    BY <1>2, Zenon DEF Reserve, ReadSymlink, Get, List
  <2> QED
    BY <1>t, <2>1, <2>2, <2>3, ZenonT(120)
<1>3. CASE ~ReadLimited(r) /\ ~Reserve(r) /\ ~ReadSymlink(r) /\ ~Get(r) /\ ~List(r)
  <2>1. UNCHANGED <<pos, bytes, cap>>
    BY <1>3, ZenonT(120) DEF Work, Validate, Inspect, OpenAt, Classify, Set, Remove, OpenStream, NextName,
                ReadDir, Fails
  <2> QED
    BY <1>t, <2>1, Zenon
<1> QED
  BY <1>1, <1>2, <1>3, Zenon

LEMMA WorldTypes ==
    ASSUME TypeInv, NEW r \in Readers, Work(r) \/ Fails(r)
    PROVE  /\ dir' \in [Names -> Objects \cup {Absent}] /\ size' \in [Objects -> Nat]
           /\ attr' \in [Objects -> Values \cup {Absent}] /\ job' \in [Readers -> Call]
           /\ fd' \in [Readers -> Objects \cup {Absent}]
<1>t. /\ dir \in [Names -> Objects \cup {Absent}] /\ size \in [Objects -> Nat]
      /\ attr \in [Objects -> Values \cup {Absent}] /\ job \in [Readers -> Call]
      /\ fd \in [Readers -> Objects \cup {Absent}]
  BY Zenon DEF TypeInv
<1>j. job[r].name \in Names /\ job[r].value \in Values
  BY JobType, Zenon
<1>1. UNCHANGED <<dir, size, job>>
  BY ZenonT(120) DEF Work, Validate, Inspect, OpenAt, Classify, ReadLimited, Reserve, ReadSymlink, Get, List,
         Set, Remove, OpenStream, NextName, ReadDir, Fails, world
<1>2. attr' = attr \/ \E v \in Values \cup {Absent} : attr' = [attr EXCEPT ![fd[r]] = v]
  BY <1>j, ZenonT(120) DEF Work, Validate, Inspect, OpenAt, Classify, ReadLimited, Reserve, ReadSymlink, Get, List,
              Set, Remove, OpenStream, NextName, ReadDir, Fails, world
<1>3. fd' = fd \/ fd' = [fd EXCEPT ![r] = dir[job[r].name]]
  BY ZenonT(120) DEF Work, Validate, Inspect, OpenAt, Classify, ReadLimited, Reserve, ReadSymlink, Get, List,
         Set, Remove, OpenStream, NextName, ReadDir, Fails
<1> QED
  BY <1>t, <1>j, <1>1, <1>2, <1>3, Zenon

LEMMA StreamTypes ==
    ASSUME TypeInv, NEW r \in Readers, Work(r) \/ Fails(r)
    PROVE  /\ ahead' \in [Readers -> SUBSET (Names \cup Dots)] /\ desc' \in [Readers -> Readers]
           /\ remaining' \in [Readers -> Nat] /\ finished' \in [Readers -> BOOLEAN]
           /\ out' \in [Readers -> Seq(Items)]
<1>t. /\ ahead \in [Readers -> SUBSET (Names \cup Dots)] /\ desc \in [Readers -> Readers]
      /\ remaining \in [Readers -> Nat] /\ finished \in [Readers -> BOOLEAN]
      /\ out \in [Readers -> Seq(Items)]
  BY Zenon DEF TypeInv
<1>j. job[r].count \in Nat
  BY JobType, Zenon
<1>1. CASE ReadDir(r)
  <2>1. \A x \in Entries(r) : x \notin Dots => Ok(x) \in Items
    BY <1>t, Zenon DEF Entries, Items
  <2>2. Err("Io") \in Items /\ Err("OutOfMemory") \in Items /\ Err("LimitExceeded") \in Items
    BY Zenon DEF Items
  <2>3. UNCHANGED desc
    BY <1>1, Zenon DEF ReadDir
  <2>4. CASE UNCHANGED <<ahead, remaining, finished, out>>
    BY <1>t, <2>3, <2>4, Zenon
  <2>5. ASSUME NEW x \in Entries(r), ahead' = [ahead EXCEPT ![desc[r]] = @ \ {x}],
               \/ UNCHANGED <<remaining, finished, out>>
               \/ /\ x \notin Dots /\ Yield(r, Err("LimitExceeded")) /\ UNCHANGED <<remaining, finished>>
               \/ /\ x \notin Dots /\ remaining[r] > 0
                  /\ \/ /\ Yield(r, Ok(x)) /\ remaining' = [remaining EXCEPT ![r] = @ - 1]
                        /\ finished' = [finished EXCEPT ![r] = FALSE]
                     \/ Yield(r, Err("OutOfMemory")) /\ UNCHANGED <<remaining, finished>>
               \/ Yield(r, Err("Io")) /\ UNCHANGED <<remaining, finished>>
        PROVE  /\ ahead' \in [Readers -> SUBSET (Names \cup Dots)] /\ desc' \in [Readers -> Readers]
               /\ remaining' \in [Readers -> Nat] /\ finished' \in [Readers -> BOOLEAN]
               /\ out' \in [Readers -> Seq(Items)]
    <3>1. ahead[desc[r]] \ {x} \in SUBSET (Names \cup Dots)
      BY <1>t, Zenon
    <3>2. ahead' \in [Readers -> SUBSET (Names \cup Dots)]
      BY <1>t, <2>5, <3>1, Zenon
    <3>a. \/ remaining' = remaining
          \/ remaining[r] - 1 \in Nat /\ remaining' = [remaining EXCEPT ![r] = remaining[r] - 1]
      BY <1>t, <2>5
    <3>b. finished' = finished \/ finished' = [finished EXCEPT ![r] = FALSE]
      BY <2>5, Zenon
    <3>c. remaining' \in [Readers -> Nat]
      BY <1>t, <3>a, ZenonT(120)
    <3>3. remaining' \in [Readers -> Nat] /\ finished' \in [Readers -> BOOLEAN]
      BY <1>t, <3>b, <3>c, ZenonT(120)
    <3>4. out' = out \/ \E y \in Items : out' = [out EXCEPT ![r] = Append(out[r], y)]
      BY <2>1, <2>2, <2>5, Zenon DEF Yield
    <3>5. \A y \in Items : Append(out[r], y) \in Seq(Items)
      BY <1>t
    <3>6. out' \in [Readers -> Seq(Items)]
      <4>1. ASSUME NEW q \in Seq(Items), out' = [out EXCEPT ![r] = q]
            PROVE  out' \in [Readers -> Seq(Items)]
        BY <1>t, <4>1, Zenon
      <4> QED
        BY <1>t, <3>4, <3>5, <4>1, ZenonT(120)
    <3> QED
      BY <1>t, <2>3, <3>2, <3>3, <3>6, Zenon
  <2> QED
    BY <1>1, <2>4, <2>5, Zenon DEF ReadDir
<1>2. CASE OpenStream(r) \/ NextName(r)
  <2>1. \/ UNCHANGED <<ahead, desc, remaining>>
        \/ /\ ahead' = [ahead EXCEPT ![r] = Names \cup Dots]
           /\ desc' = [desc EXCEPT ![r] = r]
           /\ remaining' = [remaining EXCEPT ![r] = job[r].count]
    BY <1>2, Zenon DEF OpenStream, NextName, Reopened
  <2>2. finished' = finished \/ \E b \in BOOLEAN : finished' = [finished EXCEPT ![r] = b]
    BY <1>2, ZenonT(120) DEF OpenStream, NextName
  <2>3. UNCHANGED out
    BY <1>2, Zenon DEF OpenStream, NextName
  <2>4. ahead' \in [Readers -> SUBSET (Names \cup Dots)]
    BY <1>t, <2>1, Zenon
  <2>a. desc' \in [Readers -> Readers]
    BY <1>t, <2>1, ZenonT(120)
  <2>b. remaining' \in [Readers -> Nat]
    BY <1>t, <1>j, <2>1, ZenonT(120)
  <2>5. desc' \in [Readers -> Readers] /\ remaining' \in [Readers -> Nat]
    BY <2>a, <2>b, Zenon
  <2>6. finished' \in [Readers -> BOOLEAN]
    BY <1>t, <2>2, ZenonT(120)
  <2> QED
    BY <1>t, <2>3, <2>4, <2>5, <2>6, Zenon
<1>3. CASE ~ReadDir(r) /\ ~OpenStream(r) /\ ~NextName(r)
  <2>1. UNCHANGED <<ahead, desc, remaining, finished, out>>
    BY <1>3, ZenonT(120) DEF Work, Validate, Inspect, OpenAt, Classify, ReadLimited, Reserve, ReadSymlink, Get, List,
                Set, Remove, Fails, stream
  <2> QED
    BY <1>t, <2>1, Zenon
<1> QED
  BY <1>1, <1>2, <1>3, Zenon

LEMMA OutsideTypes == ASSUME TypeInv, Outside PROVE TypeInv'
<1> UNCHANGED <<job, pc, fd, pos, bytes, cap, result>>
  BY ZenonT(120) DEF Outside
<1>1. ASSUME NEW n \in Names, NEW o \in Objects \cup {Absent}, Replace(n, o) PROVE TypeInv'
  <2>1. dir' \in [Names -> Objects \cup {Absent}]
    BY <1>1, Zenon DEF Replace, TypeInv
  <2>2. ahead' \in [Readers -> SUBSET (Names \cup Dots)]
    <3>1. ahead \in [Readers -> SUBSET (Names \cup Dots)]
      BY Zenon DEF TypeInv
    <3>2. \A d \in Readers : ahead[d] \cup {n} \in SUBSET (Names \cup Dots)
      BY <3>1, Zenon
    <3>3. ahead' = ahead \/ \E d \in Readers : ahead' = [ahead EXCEPT ![d] = ahead[d] \cup {n}]
      BY <1>1, Zenon DEF Replace
    <3> QED
      BY <3>1, <3>2, <3>3, Zenon
  <2> QED
    BY <1>1, <2>1, <2>2, Zenon DEF Replace, TypeInv
<1>2. ASSUME NEW o, NEW n \in Nat, Resize(o, n) PROVE TypeInv'
  BY <1>2, ZenonT(120) DEF Resize, TypeInv, stream
<1>3. ASSUME NEW o, NEW v \in Values \cup {Absent}, Change(o, v) PROVE TypeInv'
  BY <1>3, ZenonT(120) DEF Change, TypeInv, stream
<1>4. \A r \in Readers : job[r].name \in Names /\ job[r].file \in Objects
  BY JobType, Zenon
<1>5. 0..MaxLen \subseteq Nat
  BY SizesAssumption
<1> QED
  BY <1>1, <1>2, <1>3, <1>4, <1>5, Zenon DEF Outside, Running

LEMMA TypeStep == TypeInv /\ [Next]_vars => TypeInv'
<1>1. ASSUME TypeInv, UNCHANGED vars PROVE TypeInv'
  BY <1>1, Zenon DEF vars, world, stream, TypeInv
<1>2. ASSUME TypeInv, NEW r \in Readers, Work(r) \/ Fails(r) PROVE TypeInv'
  BY <1>2, WorkControls, ControlType, BufferTypes, WorldTypes, StreamTypes, ZenonT(120) DEF TypeInv
<1> QED
  BY <1>1, <1>2, OutsideTypes, Zenon DEF Next

-----------------------------------------------------------------------------
(* A step of one call leaves what the other calls own alone.                *)

Untouched(q) ==
    /\ job'[q] = job[q] /\ pc'[q] = pc[q] /\ fd'[q] = fd[q] /\ pos'[q] = pos[q]
    /\ bytes'[q] = bytes[q] /\ cap'[q] = cap[q] /\ remaining'[q] = remaining[q]
    /\ finished'[q] = finished[q] /\ out'[q] = out[q] /\ result'[q] = result[q]

LEMMA OthersUntouched ==
    ASSUME TypeInv, NEW r \in Readers, NEW q \in Readers, q # r, Work(r) \/ Fails(r)
    PROVE  Untouched(q)
<1>t. /\ DOMAIN pc = Readers /\ DOMAIN fd = Readers /\ DOMAIN pos = Readers /\ DOMAIN bytes = Readers
      /\ DOMAIN cap = Readers /\ DOMAIN remaining = Readers /\ DOMAIN finished = Readers
      /\ DOMAIN out = Readers /\ DOMAIN result = Readers
  BY Zenon DEF TypeInv
<1> USE <1>t DEF Untouched, Goto, Return, world, stream
<1>1. CASE Fails(r) \/ Validate(r) \/ Inspect(r) \/ Classify(r)
  BY <1>1, ZenonT(120) DEF Fails, Validate, Inspect, Classify
<1>2. CASE OpenAt(r)
  BY <1>2, ZenonT(120) DEF OpenAt
<1>3. CASE ReadLimited(r)
  BY <1>3, ZenonT(120) DEF ReadLimited
<1>4. CASE Reserve(r) \/ Set(r) \/ Remove(r)
  BY <1>4, Zenon DEF Reserve, Set, Remove
<1>5. CASE ReadSymlink(r)
  BY <1>5, Zenon DEF ReadSymlink, Grow
<1>6. CASE Get(r)
  BY <1>6, Zenon DEF Get, ReadBuffer, Grow
<1>7. CASE List(r)
  BY <1>7, Zenon DEF List, ReadBuffer, Grow
<1>8. CASE OpenStream(r) \/ NextName(r)
  BY <1>8, Zenon DEF OpenStream, NextName
<1>9. CASE ReadDir(r)
  BY <1>9, Zenon DEF ReadDir, Yield
<1> QED
  BY <1>1, <1>2, <1>3, <1>4, <1>5, <1>6, <1>7, <1>8, <1>9, ZenonT(120) DEF Work

-----------------------------------------------------------------------------
(* What a call keeps.                                                       *)

\* The buffer holds what the offset has passed until the ceiling is exceeded,
\* and a stream has returned what it is no longer allowed to return.
Bounded(r) ==
    /\ Len(bytes[r]) <= job[r].max
    /\ pos[r] <= job[r].max + 1
    /\ pc[r] \in Before => pos[r] = 0 /\ Len(out[r]) = 0
    /\ pc[r] \in Before \cup {"read"} => pos[r] = Len(bytes[r])
    /\ pc[r] \in {"opened", "read"} => fd[r] \in Objects
    /\ pc[r] = "fill" => cap[r] \in 1..Ceiling(job[r].max)
    /\ Len(out[r]) <= job[r].count + 1
    /\ pc[r] = "reading" => finished[r] /\ Len(out[r]) + remaining[r] = job[r].count
    /\ pc[r] = "listing" =>
          Len(out[r]) + remaining[r] = job[r].count + (IF finished[r] THEN 1 ELSE 0)

LEMMA BoundedUntouched == ASSUME NEW q, Bounded(q), Untouched(q) PROVE Bounded(q)'
  BY ZenonT(120) DEF Bounded, Untouched

LEMMA Exceeds ==
    ASSUME NEW n \in Nat, NEW most \in Nat, NEW length \in Nat, n > most, n <= length
    PROVE  length > most
OBVIOUS

LEMMA Difference == ASSUME NEW a \in Nat, NEW b \in Nat, b <= a PROVE a - b \in Nat
  OBVIOUS

LEMMA OneMoved ==
    ASSUME NEW l \in Nat, NEW m \in Nat, NEW n, l + m = n, m > 0
    PROVE  (l + 1) + (m - 1) = n /\ l + 1 <= n + 1
  OBVIOUS

LEMMA LeastBounds ==
    ASSUME NEW max \in Nat, NEW c \in Nat, NEW left \in Nat
    PROVE  /\ Least(Initial, Ceiling(max)) \in 1..Ceiling(max)
           /\ c > 0 => Doubled(c, max) \in 1..Ceiling(max)
           /\ Request(left) \in Nat /\ 0 < Request(left) /\ Request(left) <= left + 1
<1>1. Initial \in Nat /\ Initial > 0 /\ Usize \in Nat /\ Usize > 0 /\ Block \in Nat /\ Block > 0
  BY SizesAssumption
<1>2. Least(Initial, max + 1) \in Nat /\ 0 < Least(Initial, max + 1) /\ Least(Initial, max + 1) <= max + 1
  BY <1>1 DEF Least
<1>3. c > 0 => /\ Least(Least(2 * c, Usize), max + 1) \in Nat
               /\ 0 < Least(Least(2 * c, Usize), max + 1)
               /\ Least(Least(2 * c, Usize), max + 1) <= max + 1
  BY <1>1 DEF Least
<1>4. /\ Least(Least(left + 1, Usize), Block) \in Nat /\ 0 < Least(Least(left + 1, Usize), Block)
      /\ Least(Least(left + 1, Usize), Block) <= left + 1
  BY <1>1 DEF Least
<1> QED
  BY <1>2, <1>3, <1>4 DEF Ceiling, Doubled, Request

LEMMA ChunksBounds ==
    ASSUME NEW r, NEW request \in Nat, NEW count \in Chunks(r, request),
           size[fd[r]] \in Nat, pos[r] \in Nat
    PROVE  /\ count \in Nat /\ count <= request
           /\ IF count = 0 THEN size[fd[r]] <= pos[r] \/ request = 0 ELSE pos[r] + count <= size[fd[r]]
<1> DEFINE available == size[fd[r]] - pos[r]
<1>1. available \in Int
  OBVIOUS
<1>2. CASE available <= 0
  BY <1>2 DEF Chunks
<1>3. CASE ~(available <= 0)
  <2>1. count \in 1..Least(request, available)
    BY <1>3, Zenon DEF Chunks
  <2>2. Least(request, available) <= request /\ Least(request, available) <= available /\ Least(request, available) \in Int
    BY <1>1 DEF Least
  <2> QED
    BY <1>1, <2>1, <2>2
<1> QED
  BY <1>2, <1>3, Zenon

LEMMA BoundedStep ==
    ASSUME TypeInv, NEW r \in Readers, Bounded(r), Work(r) \/ Fails(r)
    PROVE  Bounded(r)'
<1>t. /\ pos[r] \in Nat /\ bytes[r] \in Seq(Nat) /\ cap[r] \in Nat
      /\ remaining[r] \in Nat /\ finished[r] \in BOOLEAN /\ out[r] \in Seq(Items)
  BY Zenon DEF TypeInv
<1>d. /\ r \in DOMAIN pc /\ r \in DOMAIN pos /\ r \in DOMAIN bytes /\ r \in DOMAIN cap
      /\ r \in DOMAIN remaining /\ r \in DOMAIN finished /\ r \in DOMAIN out
  BY Zenon DEF TypeInv
<1>j. job[r].max \in Nat /\ job[r].count \in Nat /\ job' = job
  BY JobType, ZenonT(120) DEF Work, Validate, Inspect, OpenAt, Classify, ReadLimited, Reserve, ReadSymlink, Get,
         List, Set, Remove, OpenStream, NextName, ReadDir, Fails
<1>l. Len(bytes[r]) \in Nat /\ Len(out[r]) \in Nat
  BY <1>t, LenIs, ZenonT(120)
<1> USE DEF Goto, Return, world, stream
<1>1. CASE Fails(r) \/ Validate(r) \/ Inspect(r) \/ Classify(r)
  <2>1. UNCHANGED <<fd, pos, bytes, cap, remaining, finished, out>>
    BY <1>1, ZenonT(120) DEF Fails, Validate, Inspect, Classify
  <2>2. \/ pc'[r] = "done"
        \/ pc[r] = "start" /\ pc'[r] = "ready"
        \/ pc[r] = "opened" /\ pc'[r] = "read"
    BY <1>d, <1>1, Zenon DEF Fails, Validate, Inspect, Classify, Before
  <2> QED
    BY <1>j, <2>1, <2>2, Zenon DEF Bounded, Before
<1>2. CASE OpenAt(r) \/ Set(r) \/ Remove(r)
  <2>1. UNCHANGED <<pos, bytes, cap, remaining, finished, out>>
    BY <1>2, Zenon DEF OpenAt, Set, Remove
  <2>2. \/ pc'[r] = "done"
        \/ /\ pc[r] = "ready" /\ pc'[r] = "opened"
           /\ dir[job[r].name] # Absent /\ fd' = [fd EXCEPT ![r] = dir[job[r].name]]
    BY <1>d, <1>2, Zenon DEF OpenAt, Set, Remove, Opens
  <2>3. pc'[r] = "done" \/ (pc[r] = "ready" /\ pc'[r] = "opened" /\ fd'[r] \in Objects)
    BY <2>2, JobType, ZenonT(120) DEF TypeInv
  <2> QED
    BY <1>j, <2>1, <2>3, ZenonT(120) DEF Bounded, Before
<1>3. CASE ReadLimited(r)
  <2> DEFINE left == job[r].max - Len(bytes[r])
             chunk(count) == [i \in 1..count |-> pos[r] + i]
  <2>1. PICK count \in Chunks(r, Request(left)) :
           /\ pos' = [pos EXCEPT ![r] = @ + count]
           /\ \/ pc'[r] = "done" /\ bytes' = bytes
              \/ count \in 1..left /\ pc'[r] = "read" /\ bytes' = [bytes EXCEPT ![r] = @ \o chunk(count)]
    BY <1>d, <1>3, ZenonT(120) DEF ReadLimited
  <2>a. left \in Nat
    <3>1. Len(bytes[r]) <= job[r].max
      BY Zenon DEF Bounded
    <3> QED
      BY <1>j, <1>l, <3>1, Difference, Zenon
  <2>2. count \in Nat /\ count <= left + 1
    <3> HIDE DEF left
    <3>1. Request(left) \in Nat /\ 0 < Request(left) /\ Request(left) <= left + 1
      BY <2>a, LeastBounds, Zenon
    <3>2. size[fd[r]] \in Nat
      BY <1>3, Zenon DEF ReadLimited, Bounded, TypeInv
    <3>3. count \in Nat /\ count <= Request(left)
      BY <1>t, <3>1, <3>2, ChunksBounds, Zenon
    <3> QED
      BY <2>a, <3>1, <3>3
  <2>3. chunk(count) \in Seq(Nat) /\ Len(chunk(count)) = count
    BY <1>t, <2>2, ChunkType, SMTT(120)
  <2>4. Len(bytes[r] \o chunk(count)) = Len(bytes[r]) + count
    <3> HIDE DEF chunk
    <3> QED
      BY <1>t, <2>3, ConcatLen, Zenon
  <2>5. UNCHANGED <<fd, out, remaining, finished, cap>> /\ pc[r] = "read"
    BY <1>3, Zenon DEF ReadLimited
  <2>6. pos'[r] = pos[r] + count /\ pos[r] = Len(bytes[r])
    BY <1>d, <1>3, <2>1, Zenon DEF ReadLimited, Bounded
  <2>7. \/ pc'[r] = "done" /\ bytes'[r] = bytes[r]
        \/ count <= left /\ pc'[r] = "read" /\ Len(bytes'[r]) = Len(bytes[r]) + count
    <3>1. count \in 1..left => count <= left
      BY <2>a, <2>2, SMTT(30)
    <3>2. CASE pc'[r] = "done" /\ bytes' = bytes
      BY <3>2, Zenon
    <3>3. CASE count \in 1..left /\ pc'[r] = "read" /\ bytes' = [bytes EXCEPT ![r] = @ \o chunk(count)]
      <4> HIDE DEF left, chunk
      <4>1. bytes'[r] = bytes[r] \o chunk(count)
        BY <1>d, <3>3, Zenon
      <4> QED
        BY <2>4, <3>1, <3>3, <4>1, Zenon
    <3> QED
      BY <2>1, <3>2, <3>3, ZenonT(120)
  <2>8. Len(bytes'[r]) <= job[r].max /\ pos'[r] <= job[r].max + 1
    BY <1>j, <1>l, <2>2, <2>6, <2>7, SMTT(120) DEF Bounded
  <2>9. pc'[r] = "done" \/ (pc'[r] = "read" /\ pos'[r] = Len(bytes'[r]))
    BY <2>6, <2>7, Zenon
  <2> QED
    BY <1>j, <2>5, <2>8, <2>9, ZenonT(120) DEF Bounded, Before
<1>4. CASE Reserve(r) \/ ReadSymlink(r) \/ Get(r) \/ List(r)
  <2>1. \/ pc'[r] = "done"
        \/ /\ pc'[r] = "fill"
           /\ \/ cap'[r] = Least(Initial, Ceiling(job[r].max))
              \/ pc[r] = "fill" /\ cap'[r] = Doubled(cap[r], job[r].max)
    <3>1. CASE Reserve(r)
      BY <1>d, <3>1, Zenon DEF Reserve
    <3>2. CASE ReadSymlink(r)
      BY <1>d, <3>2, Zenon DEF ReadSymlink, Grow
    <3>3. CASE Get(r)
      BY <1>d, <3>3, Zenon DEF Get, ReadBuffer, Grow
    <3>4. CASE List(r)
      BY <1>d, <3>4, Zenon DEF List, ReadBuffer, Grow
    <3> QED
      BY <1>4, <3>1, <3>2, <3>3, <3>4, ZenonT(120)
  <2>2. UNCHANGED <<pos, bytes, out, remaining, finished>>
    BY <1>4, ZenonT(120) DEF Reserve, ReadSymlink, Get, List
  <2>3. Least(Initial, Ceiling(job[r].max)) \in 1..Ceiling(job[r].max)
    BY <1>j, LeastBounds, ZenonT(120)
  <2>4. pc[r] = "fill" => Doubled(cap[r], job[r].max) \in 1..Ceiling(job[r].max)
    <3>1. pc[r] = "fill" => cap[r] > 0
      BY <1>j, <1>t, SMTT(30) DEF Bounded, Ceiling
    <3> QED
      BY <1>j, <1>t, <3>1, LeastBounds, ZenonT(120)
  <2> QED
    BY <1>j, <2>1, <2>2, <2>3, <2>4, ZenonT(120) DEF Bounded, Before
<1>5. CASE OpenStream(r)
  <2>1. /\ UNCHANGED <<pos, bytes, cap, out>> /\ pc[r] = "ready" /\ pc'[r] = "listing"
        /\ remaining'[r] = job[r].count /\ finished'[r] = FALSE
    BY <1>d, <1>5, Zenon DEF OpenStream
  <2>2. Len(out[r]) = 0
    BY <2>1, Zenon DEF Bounded, Before
  <2> QED
    BY <1>j, <1>l, <2>1, <2>2, SMTT(120) DEF Bounded, Before
<1>6. CASE NextName(r)
  <2>1. UNCHANGED <<pos, bytes, cap, out, remaining>> /\ pc[r] = "listing"
    BY <1>6, Zenon DEF NextName
  <2>2. pc'[r] = "done" \/ (finished[r] = FALSE /\ finished'[r] = TRUE /\ pc'[r] = "reading")
    BY <1>d, <1>t, <1>6, Zenon DEF NextName
  <2>3. finished[r] = FALSE => Len(out[r]) + remaining[r] = job[r].count
    BY <1>j, <1>l, <1>t, <2>1, SMTT(120) DEF Bounded
  <2> QED
    BY <1>j, <2>1, <2>2, <2>3, Zenon DEF Bounded, Before
<1>7. CASE ReadDir(r)
  <2>1. UNCHANGED <<pos, bytes, cap>> /\ pc[r] = "reading"
    BY <1>7, Zenon DEF ReadDir
  <2>2. \/ pc'[r] \in {"done", "reading"} /\ UNCHANGED <<remaining, finished, out>>
        \/ /\ pc'[r] = "listing" /\ UNCHANGED <<remaining, finished>>
           /\ \E y \in Items : out' = [out EXCEPT ![r] = Append(@, y)]
        \/ /\ pc'[r] = "listing" /\ remaining[r] > 0
           /\ \E y \in Items : out' = [out EXCEPT ![r] = Append(@, y)]
           /\ remaining' = [remaining EXCEPT ![r] = @ - 1]
           /\ finished' = [finished EXCEPT ![r] = FALSE]
    <3>1. \A x \in Entries(r) : x \notin Dots => Ok(x) \in Items
      BY Zenon DEF Entries, Items, TypeInv
    <3>2. Err("Io") \in Items /\ Err("OutOfMemory") \in Items /\ Err("LimitExceeded") \in Items
      BY Zenon DEF Items
    <3> QED
      BY <1>d, <1>7, <3>1, <3>2, Zenon DEF ReadDir, Yield
  <2>3. \A y \in Items : Len(Append(out[r], y)) = Len(out[r]) + 1
    BY <1>t, SMTT(120)
  <2>4. \/ pc'[r] \in {"done", "reading"} /\ UNCHANGED <<remaining, finished, out>>
        \/ /\ pc'[r] = "listing" /\ UNCHANGED <<remaining, finished>>
           /\ Len(out'[r]) = Len(out[r]) + 1
        \/ /\ pc'[r] = "listing" /\ remaining[r] > 0 /\ Len(out'[r]) = Len(out[r]) + 1
           /\ remaining'[r] = remaining[r] - 1 /\ finished'[r] = FALSE
    BY <1>d, <2>2, <2>3, Zenon
  <2>5. Len(out[r]) + remaining[r] = job[r].count /\ finished[r]
    BY <2>1, Zenon DEF Bounded
  <2>6. \/ pc'[r] \in {"done", "reading"} /\ UNCHANGED <<remaining, finished, out>>
        \/ /\ pc'[r] = "listing" /\ Len(out'[r]) <= job[r].count + 1
           /\ Len(out'[r]) + remaining'[r] = job[r].count + (IF finished'[r] THEN 1 ELSE 0)
    <3>1. CASE pc'[r] = "listing" /\ UNCHANGED <<remaining, finished>> /\ Len(out'[r]) = Len(out[r]) + 1
      BY <1>j, <1>l, <1>t, <2>5, <3>1, SMTT(120)
    <3>2. CASE /\ pc'[r] = "listing" /\ remaining[r] > 0 /\ Len(out'[r]) = Len(out[r]) + 1
               /\ remaining'[r] = remaining[r] - 1 /\ finished'[r] = FALSE
      <4>1. Len(out'[r]) + remaining'[r] = job[r].count /\ Len(out'[r]) <= job[r].count + 1
        <5>2. Len(out'[r]) = Len(out[r]) + 1 /\ remaining'[r] = remaining[r] - 1 /\ remaining[r] > 0
          BY <3>2, Zenon
        <5>3. /\ Len(out[r]) \in Nat /\ remaining[r] \in Nat /\ job[r].count \in Nat
              /\ Len(out[r]) + remaining[r] = job[r].count
          BY <1>j, <1>l, <1>t, <2>5, Zenon
        <5>4. /\ (Len(out[r]) + 1) + (remaining[r] - 1) = job[r].count
              /\ Len(out[r]) + 1 <= job[r].count + 1
          BY <5>2, <5>3, OneMoved, Zenon
        <5> QED
          BY <5>2, <5>4, Zenon
      <4>2. job[r].count + (IF finished'[r] THEN 1 ELSE 0) = job[r].count
        BY <1>j, <3>2, SMTT(120)
      <4> QED
        BY <3>2, <4>1, <4>2, Zenon
    <3> QED
      BY <2>4, <3>1, <3>2, ZenonT(120)
  <2> QED
    BY <1>j, <2>1, <2>6, ZenonT(120) DEF Bounded, Before
<1> QED
  BY <1>1, <1>2, <1>3, <1>4, <1>5, <1>6, <1>7, Zenon DEF Work

LEMMA TypeInit == Init => TypeInv
<1> SUFFICES ASSUME Init PROVE TypeInv
  BY Zenon
<1>1. job \in [Readers -> Call] /\ dir \in [Names -> Objects \cup {Absent}]
  BY JobsAssumption, Zenon DEF Init
<1>2. \A r \in Readers : job[r].file \in Objects
  BY <1>1, Zenon DEF Call
<1>3. fd \in [Readers -> Objects \cup {Absent}]
  BY <1>2, Zenon DEF Init
<1>4. <<>> \in Seq(Nat) /\ <<>> \in Seq(Items)
  BY SMTT(120)
<1>5. size \in [Objects -> Nat] /\ attr \in [Objects -> Values \cup {Absent}]
  BY Zenon DEF Init
<1>6. pc \in [Readers -> Controls] /\ ahead \in [Readers -> SUBSET (Names \cup Dots)]
  BY Zenon DEF Init, Controls, Before
<1>7. /\ pos \in [Readers -> Nat] /\ bytes \in [Readers -> Seq(Nat)] /\ cap \in [Readers -> Nat]
      /\ desc \in [Readers -> Readers] /\ remaining \in [Readers -> Nat]
      /\ finished \in [Readers -> BOOLEAN] /\ out \in [Readers -> Seq(Items)] /\ DOMAIN result = Readers
  BY <1>4, Zenon DEF Init
<1> QED
  BY <1>1, <1>3, <1>5, <1>6, <1>7, Zenon DEF TypeInv

BoundedInv == TypeInv /\ \A r \in Readers : Bounded(r)

LEMMA BoundedInit == Init => BoundedInv
<1> SUFFICES ASSUME Init, NEW r \in Readers PROVE Bounded(r)
  BY TypeInit, Zenon DEF BoundedInv
<1>1. job[r].max \in Nat /\ job[r].count \in Nat
  BY TypeInit, JobType, Zenon
<1>2. /\ bytes[r] = <<>> /\ out[r] = <<>> /\ pos[r] = 0
      /\ pc[r] \in {"start", "done"}
  BY Zenon DEF Init
<1> QED
  BY <1>1, <1>2 DEF Bounded, Before

LEMMA BoundedNext == BoundedInv /\ [Next]_vars => BoundedInv'
<1> SUFFICES ASSUME BoundedInv, [Next]_vars, NEW q \in Readers PROVE Bounded(q)'
  BY TypeStep, Zenon DEF BoundedInv
<1>1. CASE UNCHANGED vars
  BY <1>1, BoundedUntouched, Zenon DEF vars, stream, world, Untouched, BoundedInv
<1>2. CASE Outside
  <2>1. Untouched(q)
    BY <1>2, Zenon DEF Outside, Replace, Resize, Change, stream, Untouched
  <2> QED
    BY <2>1, BoundedUntouched, Zenon DEF BoundedInv
<1>3. ASSUME NEW r \in Readers, Work(r) \/ Fails(r) PROVE Bounded(q)'
  <2>1. CASE q = r
    BY <1>3, <2>1, BoundedStep, Zenon DEF BoundedInv
  <2>2. CASE q # r
    BY <1>3, <2>2, OthersUntouched, BoundedUntouched, Zenon DEF BoundedInv
  <2> QED
    BY <2>1, <2>2, Zenon
<1> QED
  BY <1>1, <1>2, <1>3, Zenon DEF Next

\* No call of the platform crate keeps more than its ceiling, reads more than a
\* byte past it, or asks the system with an empty buffer, for any number of
\* threads and whatever other programs do (read_limited, read_symlink,
\* read_buffer, Names::next).
THEOREM CeilingsHold == Spec => []WithinCeiling
<1>1. BoundedInv => WithinCeiling
  <2> SUFFICES ASSUME BoundedInv, NEW r \in Readers
               PROVE  /\ Len(bytes[r]) <= job[r].max /\ pos[r] <= job[r].max + 1
                      /\ pc[r] = "read" => Request(job[r].max - Len(bytes[r])) > 0
                      /\ pc[r] = "fill" => cap[r] \in 1..Ceiling(job[r].max)
                      /\ Len(out[r]) <= job[r].count + 1
    BY Zenon DEF WithinCeiling
  <2>1. Bounded(r)
    BY Zenon DEF BoundedInv
  <2>2. job[r].max \in Nat /\ Len(bytes[r]) \in Nat
    BY JobType, LenIs, Zenon DEF BoundedInv, TypeInv
  <2>3. job[r].max - Len(bytes[r]) \in Nat
    <3>1. Len(bytes[r]) <= job[r].max
      BY <2>1, Zenon DEF Bounded
    <3> QED
      BY <2>2, <3>1, Difference, ZenonT(30)
  <2> DEFINE left == job[r].max - Len(bytes[r])
  <2>4. Request(left) \in Nat /\ 0 < Request(left)
    <3> HIDE DEF left
    <3> QED
      BY <2>3, LeastBounds, Zenon DEF left
  <2> QED
    BY <2>1, <2>4, Zenon DEF Bounded
<1> QED
  BY <1>1, BoundedInit, BoundedNext, PTL DEF Spec

-----------------------------------------------------------------------------
(* What a call returns.                                                     *)

\* An object was at its name, and a file's bytes in the file, while the call
\* was running.
Genuine(r) ==
    /\ pc[r] = "opened" => /\ job[r].op \in {"directory", "read"}
                           /\ job[r].op = "directory" => fd[r] \in seen[r]
    /\ pc[r] = "read" => /\ job[r].op = "read" /\ KindOf[fd[r]] = "file"
                         /\ bytes[r] = Upto(pos[r])
                         /\ pos[r] > 0 => \E n \in Nat : pos[r] <= n /\ Upto(n) \in seen[r]
    /\ pc[r] \in {"listing", "reading"} => job[r].op = "names"
    /\ Succeeded(r) => Truthful(r)

LEMMA UptoType == ASSUME NEW n \in Nat PROVE Upto(n) \in Seq(Nat) /\ Len(Upto(n)) = n
<1>1. Upto(n) \in [1..n -> Nat]
  BY DEF Upto
<1> QED
  BY <1>1, FunctionIsSeq, Zenon DEF Upto

LEMMA UptoEmpty == ASSUME NEW s \in Seq(Nat), Len(s) = 0 PROVE s = Upto(0)
  BY DEF Upto

LEMMA UptoConcat ==
    ASSUME NEW p \in Nat, NEW n \in Nat
    PROVE  Upto(p) \o [i \in 1..n |-> p + i] = Upto(p + n)
<1> DEFINE t == [i \in 1..n |-> p + i]
<1>1. t \in Seq(Nat) /\ Len(t) = n
  BY ChunkType
<1>2. Upto(p) \in Seq(Nat) /\ Len(Upto(p)) = p /\ Upto(p + n) \in Seq(Nat) /\ Len(Upto(p + n)) = p + n
  BY UptoType
<1>3. \A i \in 1..p + n : (Upto(p) \o t)[i] = i
  BY <1>1, <1>2 DEF Upto
<1>4. Upto(p) \o t \in Seq(Nat) /\ Len(Upto(p) \o t) = p + n
  BY <1>1, <1>2
<1>5. \A i \in 1..p + n : Upto(p + n)[i] = i
  BY Zenon DEF Upto
<1> QED
  BY <1>2, <1>3, <1>4, <1>5, SameSeq, ZenonT(120)

LEMMA UptoPrefix == ASSUME NEW m \in Nat, NEW n \in Nat, m <= n PROVE IsPrefix(Upto(m), Upto(n))
<1>1. Upto(m) \in Seq(Nat) /\ Len(Upto(m)) = m /\ Upto(n) \in Seq(Nat) /\ Len(Upto(n)) = n
  BY UptoType, Zenon
<1>2. SubSeq(Upto(n), 1, m) \in Seq(Nat) /\ Len(SubSeq(Upto(n), 1, m)) = m
  BY <1>1
<1>3. \A i \in 1..m : SubSeq(Upto(n), 1, m)[i] = Upto(m)[i]
  BY <1>1 DEF Upto
<1> QED
  BY <1>1, <1>2, <1>3, SameSeq, Zenon DEF IsPrefix

LEMMA ZeroOrMore == \A n \in Nat : n = 0 \/ n > 0
  OBVIOUS

LEMMA UptoZero == \A n \in Nat : IsPrefix(Upto(0), Upto(n))
<1>1. \A n \in Nat : 0 <= n
  BY SMTT(120)
<1>2. 0 \in Nat
  BY Zenon
<1> QED
  BY <1>1, <1>2, UptoPrefix, ZenonT(120)

LEMMA WholeSubSeq == ASSUME NEW s \in Seq(Nat) PROVE SubSeq(s, 1, Len(s)) = s
  BY SMTT(120)

LEMMA SeenGrows ==
    ASSUME Watch, NEW q \in Readers
    PROVE  seen[q] \subseteq seen'[q] /\ (pc[q] # "done" => Target(q)' \subseteq seen'[q])
  BY Zenon DEF Watch

LEMMA GenuineUntouched ==
    ASSUME NEW q \in Readers, Genuine(q), Untouched(q), Watch
    PROVE  Genuine(q)'
<1>1. seen[q] \subseteq seen'[q]
  BY SeenGrows, Zenon
<1>2. Succeeded(q)' => Succeeded(q)
  BY Zenon DEF Untouched, Succeeded
<1>3. Truthful(q) => Truthful(q)'
  BY <1>1, Zenon DEF Untouched, Truthful
<1> QED
  BY <1>1, <1>2, <1>3, ZenonT(120) DEF Genuine, Untouched

LEMMA ParseKeeps ==
    ASSUME NEW list, NEW count, Parse(list, count).ok
    PROVE  Parse(list, count) = Ok(list)
  BY ZenonT(120) DEF Parse, Ok, Err

LEMMA GenuineStep ==
    ASSUME TypeInv, NEW r \in Readers, Bounded(r), Genuine(r), Work(r) \/ Fails(r), Watch
    PROVE  Genuine(r)'
<1>d. /\ r \in DOMAIN pc /\ r \in DOMAIN fd /\ r \in DOMAIN pos /\ r \in DOMAIN bytes
      /\ r \in DOMAIN result
  BY Zenon DEF TypeInv
<1>j. job' = job /\ dir' = dir /\ size' = size
  BY ZenonT(120) DEF Work, Validate, Inspect, OpenAt, Classify, ReadLimited, Reserve, ReadSymlink, Get, List,
         Set, Remove, OpenStream, NextName, ReadDir, Fails, world
<1>s. seen[r] \subseteq seen'[r]
  BY SeenGrows, Zenon
<1> USE DEF Goto, Return
\* A call that fails has nothing to answer for.
<1>e. ASSUME pc'[r] = "done", NEW e, result'[r] = Err(e) PROVE Genuine(r)'
  BY <1>e, SMTT(120) DEF Genuine, Succeeded, Err
\* Nor has one whose operation returns nothing of its object.
<1>o. ASSUME pc'[r] = "done", job[r].op \in {"set", "remove", "names"} PROVE Genuine(r)'
  BY <1>o, <1>j, Zenon DEF Genuine, Truthful
\* A value that is in the history is the truth.
<1>v. ASSUME pc'[r] = "done", job[r].op \in {"inspect", "readlink", "get", "list"},
             NEW v \in seen'[r], result'[r] = Ok(v)
      PROVE  Genuine(r)'
  BY <1>v, <1>j, SMTT(120) DEF Genuine, Truthful, Ok
<1>1. CASE Fails(r)
  BY <1>1, <1>d, <1>e, Zenon DEF Fails
<1>2. CASE Validate(r)
  <2>1. pc'[r] = "ready" \/ (pc'[r] = "done" /\ \E e : result'[r] = Err(e))
    BY <1>2, <1>d, Zenon DEF Validate
  <2>2. CASE pc'[r] = "ready"
    BY <2>2, Zenon DEF Genuine, Succeeded
  <2> QED
    BY <2>1, <2>2, <1>e, Zenon
<1>3. CASE Inspect(r)
  <2> DEFINE o == dir[job[r].name]
  <2>1. pc'[r] = "done" /\ job[r].op = "inspect" /\ pc[r] = "ready"
    BY <1>3, <1>d, Zenon DEF Inspect
  <2>2. result'[r] = Err("Io") \/ (o # Absent /\ \E reply \in Replies : result'[r] = FromStatx(o, reply))
    BY <1>3, <1>d, Zenon DEF Inspect
  <2>3. ASSUME o # Absent, NEW reply \in Replies, result'[r] = FromStatx(o, reply)
        PROVE  Genuine(r)'
    <3>1. result'[r] = Err("Io") \/ result'[r] = Ok(Info(o, reply.btime))
      BY <2>3, Zenon DEF FromStatx
    <3>2. reply.btime \in BOOLEAN
      BY Zenon DEF Replies
    <3>3. Target(r)' = {Info(o, b) : b \in BOOLEAN}
      BY <1>j, <2>1, <2>3, SMTT(120) DEF Target, Info, Bits
    <3>4. Info(o, reply.btime) \in seen'[r]
      BY <2>1, <3>2, <3>3, SeenGrows, ZenonT(120)
    <3> QED
      BY <2>1, <3>1, <3>4, <1>e, <1>v, ZenonT(120)
  <2> QED
    BY <2>1, <2>2, <2>3, <1>e, Zenon
<1>4. CASE OpenAt(r)
  <2>1. \/ pc'[r] = "done" /\ result'[r] = Err("Io")
        \/ /\ pc'[r] = "opened" /\ fd'[r] = dir[job[r].name] /\ pc[r] = "ready"
           /\ job[r].op \in {"directory", "read"}
    BY <1>4, <1>d, Zenon DEF OpenAt
  <2>2. CASE pc'[r] = "opened"
    <3>1. job[r].op = "directory" => fd'[r] \in seen'[r]
      BY <1>j, <2>1, <2>2, SeenGrows, Zenon DEF Target
    <3> QED
      BY <1>j, <2>1, <2>2, <3>1, Zenon DEF Genuine, Succeeded
  <2> QED
    BY <2>1, <2>2, <1>e, Zenon
<1>5. CASE Classify(r)
  <2>1. fd' = fd /\ pos' = pos /\ bytes' = bytes /\ pc[r] = "opened"
    BY <1>5, Zenon DEF Classify
  <2>2. CASE pc'[r] = "done" /\ result'[r] = Err("WrongKind")
    BY <2>2, <1>e, Zenon
  <2>3. CASE /\ Valid(job[r].op, fd[r]) /\ job[r].op = "directory"
             /\ pc'[r] = "done" /\ result'[r] = Ok(fd[r])
    BY <1>j, <1>s, <2>1, <2>3, SMTT(120) DEF Genuine, Truthful, Valid, Ok
  <2>4. CASE Valid(job[r].op, fd[r]) /\ job[r].op = "read" /\ pc'[r] = "read"
    <3>1. pos[r] = 0 /\ Len(bytes[r]) = 0
      BY <2>1, ZenonT(120) DEF Bounded, Before
    <3>2. bytes[r] \in Seq(Nat)
      BY Zenon DEF TypeInv
    <3>3. bytes'[r] = Upto(pos'[r]) /\ ~(pos'[r] > 0)
      BY <2>1, <3>1, <3>2, UptoEmpty, SMTT(120)
    <3>4. job'[r].op = "read" /\ KindOf[fd'[r]] = "file"
      BY <1>j, <2>1, <2>4, Zenon DEF Valid
    <3> QED
      BY <2>4, <3>3, <3>4, ZenonT(120) DEF Genuine, Succeeded
  <2> QED
    BY <1>5, <1>d, <2>2, <2>3, <2>4, Zenon DEF Classify
<1>6. CASE ReadLimited(r)
  <2> DEFINE left == job[r].max - Len(bytes[r])
             chunk(count) == [i \in 1..count |-> pos[r] + i]
  <2>1. PICK count \in Chunks(r, Request(left)) :
           /\ pos' = [pos EXCEPT ![r] = @ + count]
           /\ \/ count = 0 /\ pc'[r] = "done" /\ result'[r] = Ok(bytes[r])
              \/ pc'[r] = "done" /\ result'[r] = Err("LimitExceeded")
              \/ count # 0 /\ pc'[r] = "read" /\ bytes' = [bytes EXCEPT ![r] = @ \o chunk(count)]
    <3>1. \A count \in 1..left : count # 0
      OBVIOUS
    <3> QED
      BY <1>6, <1>d, <3>1, ZenonT(120) DEF ReadLimited
  <2>2. /\ pc[r] = "read" /\ job[r].op = "read" /\ KindOf[fd[r]] = "file" /\ fd' = fd
        /\ bytes[r] = Upto(pos[r]) /\ fd[r] \in Objects /\ pos[r] \in Nat /\ size[fd[r]] \in Nat
    BY <1>6, ZenonT(120) DEF ReadLimited, Genuine, Bounded, TypeInv
  <2>3. fd[r] # Absent
    BY <2>2, ContentsAssumption, ZenonT(120)
  <2>4. Upto(size[fd[r]]) \in seen'[r]
    BY <1>j, <2>2, <2>3, SeenGrows, Zenon DEF Target
  <2>5. /\ Request(left) \in Nat /\ 0 < Request(left)
    <3>1. left \in Nat
      <4>1. job[r].max \in Nat
        BY JobType, Zenon
      <4>2. bytes[r] \in Seq(Nat)
        BY Zenon DEF TypeInv
      <4>3. Len(bytes[r]) \in Nat
        BY <4>2, LenIs, ZenonT(120)
      <4>4. Len(bytes[r]) <= job[r].max
        BY ZenonT(120) DEF Bounded
      <4> QED
        BY <4>1, <4>3, <4>4, Difference, Zenon
    <3> HIDE DEF left
    <3> QED
      BY <3>1, LeastBounds, Zenon
  <2>6. /\ count \in Nat
        /\ count = 0 => size[fd[r]] <= pos[r]
        /\ count # 0 => pos[r] + count <= size[fd[r]]
    <3> HIDE DEF left
    <3>1. size[fd[r]] \in Nat /\ pos[r] \in Nat /\ Request(left) # 0
      BY <2>2, <2>5, SMTT(120)
    <3>2. /\ count \in Nat
          /\ IF count = 0 THEN size[fd[r]] <= pos[r] \/ Request(left) = 0
                          ELSE pos[r] + count <= size[fd[r]]
      BY <2>5, <3>1, ChunksBounds, Zenon
    <3> QED
      BY <3>1, <3>2, ZenonT(120)
  <2>7. CASE count = 0 /\ pc'[r] = "done" /\ result'[r] = Ok(bytes[r])
    <3>1. IsPrefix(Upto(size[fd[r]]), Upto(pos[r]))
      BY <2>2, <2>6, <2>7, UptoPrefix, ZenonT(120)
    <3>2. \E s \in seen'[r] : IsPrefix(Upto(pos[r]), s)
      <4>1. CASE pos[r] = 0
        <5>1. IsPrefix(Upto(0), Upto(size[fd[r]]))
          BY <2>2, UptoZero, ZenonT(120)
        <5> QED
          BY <2>4, <4>1, <5>1, ZenonT(120)
      <4>2. CASE pos[r] > 0
        <5>1. PICK n \in Nat : pos[r] <= n /\ Upto(n) \in seen[r]
          BY <2>2, <4>2, ZenonT(120) DEF Genuine
        <5>2. IsPrefix(Upto(pos[r]), Upto(n))
          BY <2>2, <5>1, UptoPrefix, ZenonT(120)
        <5> QED
          BY <1>s, <5>1, <5>2, ZenonT(120)
      <4>3. pos[r] = 0 \/ pos[r] > 0
        BY <2>2, ZeroOrMore, ZenonT(120)
      <4> QED
        BY <4>1, <4>2, <4>3, ZenonT(120)
    <3> QED
      BY <1>j, <2>2, <2>4, <2>7, <3>1, <3>2, SMTT(120) DEF Genuine, Truthful, Ok
  <2>8. CASE count # 0 /\ pc'[r] = "read" /\ bytes' = [bytes EXCEPT ![r] = @ \o chunk(count)]
    <3>1. pos'[r] = pos[r] + count
      BY <1>d, <2>1, ZenonT(120)
    <3>2. bytes'[r] = Upto(pos'[r])
      <4>1. bytes'[r] = bytes[r] \o chunk(count)
        BY <1>d, <2>8, ZenonT(120)
      <4>2. Upto(pos[r]) \o chunk(count) = Upto(pos[r] + count)
        BY <2>2, <2>6, UptoConcat, ZenonT(120)
      <4> HIDE DEF chunk
      <4> QED
        BY <2>2, <3>1, <4>1, <4>2, ZenonT(120)
    <3>3. \E n \in Nat : pos'[r] <= n /\ Upto(n) \in seen'[r]
      BY <2>2, <2>4, <2>6, <2>8, <3>1, ZenonT(120)
    <3> HIDE DEF chunk
    <3> QED
      BY <1>j, <2>2, <2>8, <3>2, <3>3, ZenonT(120) DEF Genuine, Succeeded
  <2> QED
    BY <2>1, <2>7, <2>8, <1>e, ZenonT(120)
<1>7. CASE Reserve(r)
  <2>1. pc'[r] = "fill" \/ (pc'[r] = "done" /\ result'[r] = Err("LimitExceeded"))
    BY <1>7, <1>d, Zenon DEF Reserve
  <2>2. CASE pc'[r] = "fill"
    BY <2>2, ZenonT(120) DEF Genuine, Succeeded
  <2> QED
    BY <2>1, <2>2, <1>e, Zenon
<1>8. CASE ReadSymlink(r)
  <2> DEFINE o == dir[job[r].name]
             count == Least(Len(Text[o]), cap[r])
  <2>1. \/ pc'[r] = "fill"
        \/ pc'[r] = "done" /\ \E e : result'[r] = Err(e)
        \/ /\ pc'[r] = "done" /\ IsLink(o) /\ Complete(count, cap[r])
           /\ result'[r] = Ok(SubSeq(Text[o], 1, count))
    BY <1>8, <1>d, Zenon DEF ReadSymlink, Grow
  <2>2. job[r].op = "readlink" /\ pc[r] = "fill"
    BY <1>8, ZenonT(120) DEF ReadSymlink
  <2>3. CASE pc'[r] = "fill"
    BY <2>3, Zenon DEF Genuine, Succeeded
  <2>4. CASE /\ pc'[r] = "done" /\ IsLink(o) /\ Complete(count, cap[r])
             /\ result'[r] = Ok(SubSeq(Text[o], 1, count))
    <3>1. Text[o] \in Seq(Nat) /\ Len(Text[o]) \in Nat /\ cap[r] \in Nat
      <4>1. o \in Objects
        BY <2>4, JobType, ZenonT(120) DEF IsLink, TypeInv
      <4> QED
        BY <4>1, ContentsAssumption, LenIs, Zenon DEF TypeInv
    <3>2. count = Len(Text[o])
      <4>1. count < cap[r]
        BY <2>4, ZenonT(60) DEF Complete
      <4>2. \A a, b \in Nat : Least(a, b) < b => Least(a, b) = a
        BY SMTT(120) DEF Least
      <4> QED
        BY <3>1, <4>1, <4>2, ZenonT(120)
    <3>3. result'[r] = Ok(Text[o])
      BY <2>4, <3>1, <3>2, WholeSubSeq, ZenonT(120)
    <3>4. Text[o] \in seen'[r]
      BY <1>j, <2>2, <2>4, SeenGrows, Zenon DEF Target, IsLink
    <3> QED
      BY <2>2, <2>4, <3>3, <3>4, <1>v, ZenonT(120)
  <2> QED
    BY <2>1, <2>3, <2>4, <1>e, ZenonT(120)
<1>9. CASE Get(r)
  <2>1. /\ job[r].op = "get" /\ pc[r] = "fill" /\ fd' = fd /\ attr' = attr
        /\ \/ pc'[r] = "fill"
           \/ pc'[r] = "done" /\ \E e : result'[r] = Err(e)
           \/ pc'[r] = "done" /\ result'[r] = Ok(attr[fd[r]])
    BY <1>9, <1>d, Zenon DEF Get, ReadBuffer, Grow, world
  <2>2. attr[fd[r]] \in seen'[r]
    BY <1>j, <2>1, SeenGrows, Zenon DEF Target
  <2>3. CASE pc'[r] = "fill"
    BY <2>3, Zenon DEF Genuine, Succeeded
  <2> QED
    BY <2>1, <2>2, <2>3, <1>e, <1>v, ZenonT(60)
<1>10. CASE List(r)
  <2> DEFINE l == Listing(fd[r])
  <2>1. /\ job[r].op = "list" /\ pc[r] = "fill" /\ fd' = fd /\ attr' = attr
        /\ \/ pc'[r] = "fill"
           \/ pc'[r] = "done" /\ \E e : result'[r] = Err(e)
           \/ pc'[r] = "done" /\ result'[r] = Parse(l, job[r].count)
    BY <1>10, <1>d, Zenon DEF List, ReadBuffer, Grow, world
  <2>2. l \in seen'[r]
    BY <1>j, <2>1, SeenGrows, ZenonT(120) DEF Target, Listing
  <2>3. CASE pc'[r] = "fill"
    BY <2>3, Zenon DEF Genuine, Succeeded
  <2>4. CASE pc'[r] = "done" /\ result'[r] = Parse(l, job[r].count)
    <3>1. CASE Parse(l, job[r].count).ok
      BY <2>1, <2>2, <2>4, <3>1, ParseKeeps, <1>v, ZenonT(120)
    <3>2. CASE ~Parse(l, job[r].count).ok
      BY <2>4, <3>2, ZenonT(120) DEF Genuine, Succeeded
    <3> QED
      BY <3>1, <3>2, ZenonT(60)
  <2> QED
    BY <2>1, <2>3, <2>4, <1>e, ZenonT(120)
<1>11. CASE Set(r) \/ Remove(r)
  BY <1>11, <1>d, <1>o, Zenon DEF Set, Remove
<1>12. CASE OpenStream(r)
  BY <1>12, <1>d, <1>j, Zenon DEF OpenStream, Genuine, Succeeded
<1>13. CASE NextName(r)
  <2>1. job[r].op = "names" /\ pc'[r] \in {"done", "reading"}
    BY <1>13, <1>d, Zenon DEF NextName, Genuine
  <2>2. CASE pc'[r] = "reading"
    BY <1>j, <2>1, <2>2, ZenonT(120) DEF Genuine, Succeeded
  <2>3. CASE pc'[r] = "done"
    BY <2>1, <2>3, <1>o, ZenonT(120)
  <2> QED
    BY <2>1, <2>2, <2>3, ZenonT(120)
<1>14. CASE ReadDir(r)
  <2>1. job[r].op = "names" /\ pc'[r] \in {"done", "reading", "listing"}
    BY <1>14, <1>d, Zenon DEF ReadDir, Yield, Genuine
  <2>2. CASE pc'[r] \in {"reading", "listing"}
    BY <1>j, <2>1, <2>2, ZenonT(120) DEF Genuine, Succeeded
  <2>3. CASE pc'[r] = "done"
    BY <2>1, <2>3, <1>o, ZenonT(120)
  <2> QED
    BY <2>1, <2>2, <2>3, ZenonT(120)
<1> QED
  BY <1>1, <1>2, <1>3, <1>4, <1>5, <1>6, <1>7, <1>8, <1>9, <1>10, <1>11, <1>12, <1>13, <1>14, Zenon DEF Work

GenuineInv == BoundedInv /\ \A r \in Readers : Genuine(r)

LEMMA GenuineInit == Init => GenuineInv
<1> SUFFICES ASSUME Init, NEW r \in Readers PROVE Genuine(r)
  BY BoundedInit, Zenon DEF GenuineInv
<1>1. pc[r] \in {"start", "done"} /\ result[r] = Pending
  BY Zenon DEF Init
<1>2. ~Succeeded(r)
  BY <1>1, SMTT(120) DEF Succeeded, Pending, Err
<1> QED
  BY <1>1, <1>2, ZenonT(120) DEF Genuine

LEMMA GenuineNext == GenuineInv /\ [Next]_vars => GenuineInv'
<1> SUFFICES ASSUME GenuineInv, [Next]_vars, NEW q \in Readers PROVE Genuine(q)'
  BY BoundedNext, Zenon DEF GenuineInv
<1>1. CASE UNCHANGED vars
  BY <1>1, Zenon DEF vars, stream, world, GenuineInv, Genuine, Succeeded, Truthful
<1>2. CASE Outside /\ Watch
  <2>1. Untouched(q)
    BY <1>2, ZenonT(120) DEF Outside, Replace, Resize, Change, stream, Untouched
  <2> QED
    BY <1>2, <2>1, GenuineUntouched, Zenon DEF GenuineInv
<1>3. ASSUME NEW r \in Readers, Work(r) \/ Fails(r), Watch PROVE Genuine(q)'
  <2>1. CASE q = r
    BY <1>3, <2>1, GenuineStep, Zenon DEF GenuineInv, BoundedInv
  <2>2. CASE q # r
    BY <1>3, <2>2, OthersUntouched, GenuineUntouched, Zenon DEF GenuineInv, BoundedInv
  <2> QED
    BY <2>1, <2>2, Zenon
<1> QED
  BY <1>1, <1>2, <1>3, Zenon DEF Next

\* What a call returns is what its object was at some time during the call,
\* whole, for any interleaving with other threads and programs (read_symlink,
\* read_buffer, open_child, read_limited, inspect).
THEOREM ResultsGenuine == Spec => []ResultIsGenuine
<1>1. GenuineInv => ResultIsGenuine
  BY Zenon DEF GenuineInv, Genuine, ResultIsGenuine
<1> QED
  BY <1>1, GenuineInit, GenuineNext, PTL DEF Spec

-----------------------------------------------------------------------------
(* What LimitExceeded says.                                                 *)

TooLarge(r) ==
    \/ \E s \in seen[r] \ {Absent} : Len(s) > job[r].max
    \/ job[r].max = Usize /\ job[r].op # "read"
    \/ job[r].op = "list" /\ \E s \in seen[r] : Cardinality({i \in DOMAIN s : s[i] = 0}) > job[r].count

Exceeded(r) == pc[r] = "done" /\ ~result[r].ok /\ result[r].error = "LimitExceeded"

LimitReal(r) == Exceeded(r) => TooLarge(r)

\* The attribute calls are given an open file.
Handed(r) == job[r].op \in {"get", "set", "remove", "list"} => fd[r] \in Objects

LEMMA HandedStep ==
    ASSUME TypeInv, NEW r \in Readers, Handed(r), Work(r) \/ Fails(r)
    PROVE  Handed(r)'
<1>1. job' = job
  BY ZenonT(120) DEF Work, Validate, Inspect, OpenAt, Classify, ReadLimited, Reserve, ReadSymlink, Get, List,
         Set, Remove, OpenStream, NextName, ReadDir, Fails
<1>2. fd' = fd \/ job[r].op \in {"directory", "read"}
  BY ZenonT(120) DEF Work, Validate, Inspect, OpenAt, Classify, ReadLimited, Reserve, ReadSymlink, Get, List,
         Set, Remove, OpenStream, NextName, ReadDir, Fails
<1> QED
  BY <1>1, <1>2, Zenon DEF Handed

LEMMA LimitUntouched ==
    ASSUME NEW q \in Readers, LimitReal(q), Untouched(q), Watch
    PROVE  LimitReal(q)'
<1>1. seen[q] \subseteq seen'[q]
  BY SeenGrows, Zenon
<1>2. Exceeded(q)' => Exceeded(q)
  BY ZenonT(120) DEF Untouched, Exceeded
<1>3. TooLarge(q) => TooLarge(q)'
  <2>1. job'[q] = job[q]
    BY Zenon DEF Untouched
  <2> QED
    BY <1>1, <2>1, ZenonT(120) DEF TooLarge
<1> QED
  BY <1>2, <1>3, Zenon DEF LimitReal

LEMMA ParseLimit ==
    ASSUME NEW list, NEW count, Parse(list, count) = Err("LimitExceeded")
    PROVE  Cardinality({i \in DOMAIN list : list[i] = 0}) > count
<1>1. Err("Io") # Err("LimitExceeded") /\ Ok(list) # Err("LimitExceeded")
  <2>1. Err("Io").error = "Io" /\ Err("LimitExceeded").error = "LimitExceeded"
    BY Zenon DEF Err
  <2>2. Ok(list).ok /\ ~Err("LimitExceeded").ok
    BY Zenon DEF Ok, Err
  <2> QED
    BY <2>1, <2>2, Zenon
<1> QED
  BY <1>1, ZenonT(120) DEF Parse

LEMMA LimitStep ==
    ASSUME TypeInv, NEW r \in Readers, Bounded(r), Genuine(r), Handed(r), Work(r) \/ Fails(r), Watch
    PROVE  LimitReal(r)'
<1>d. r \in DOMAIN pc /\ r \in DOMAIN result
  BY Zenon DEF TypeInv
<1>j. job' = job /\ dir' = dir /\ size' = size
  BY ZenonT(120) DEF Work, Validate, Inspect, OpenAt, Classify, ReadLimited, Reserve, ReadSymlink, Get, List,
         Set, Remove, OpenStream, NextName, ReadDir, Fails, world
<1>n. job[r].max \in Nat
  BY JobType, Zenon
<1> USE DEF Goto, Return
\* Other errors and successes say nothing of the limit.
<1>e. ASSUME NEW e, e # "LimitExceeded", result'[r] = Err(e) PROVE LimitReal(r)'
  BY <1>e, SMTT(120) DEF LimitReal, Exceeded, Err
<1>o. ASSUME NEW v, result'[r] = Ok(v) PROVE LimitReal(r)'
  <2>1. result'[r].ok
    BY <1>o DEF Ok
  <2> QED
    BY <2>1, Zenon DEF LimitReal, Exceeded
<1>g. ASSUME NEW s, pc'[r] = s, s # "done" PROVE LimitReal(r)'
  BY <1>g, ZenonT(120) DEF LimitReal, Exceeded
\* A value that is in the history and too long.
<1>l. ASSUME NEW s \in seen'[r], s \in Seq(Nat), Len(s) > job[r].max PROVE LimitReal(r)'
  <2>1. s # Absent
    BY <1>l, ContentsAssumption, ZenonT(120)
  <2> QED
    BY <1>l, <1>j, <2>1, ZenonT(120) DEF LimitReal, TooLarge
<1>1. CASE Fails(r)
  <2>1. PICK e \in {"Io", "OutOfMemory"} : result'[r] = Err(e)
    BY <1>1, <1>d, Zenon DEF Fails
  <2> QED
    BY <2>1, <1>e, Zenon
<1>2. CASE Validate(r)
  <2>1. \/ pc'[r] = "ready" \/ result'[r] = Err("InvalidBasename") \/ result'[r] = Err("InvalidAttributeName")
    BY <1>2, <1>d, Zenon DEF Validate, Named, Attributes
  <2> QED
    BY <2>1, <1>e, <1>g, Zenon
<1>3. CASE Inspect(r)
  <2>1. result'[r] = Err("Io") \/ \E v : result'[r] = Ok(v)
    BY <1>3, <1>d, Zenon DEF Inspect, FromStatx
  <2> QED
    BY <2>1, <1>e, <1>o, Zenon
<1>4. CASE OpenAt(r)
  <2>1. result'[r] = Err("Io") \/ pc'[r] = "opened"
    BY <1>4, <1>d, Zenon DEF OpenAt
  <2> QED
    BY <2>1, <1>e, <1>g, Zenon
<1>5. CASE Classify(r)
  <2>1. result'[r] = Err("WrongKind") \/ (\E v : result'[r] = Ok(v)) \/ pc'[r] = "read"
    BY <1>5, <1>d, Zenon DEF Classify
  <2> QED
    BY <2>1, <1>e, <1>o, <1>g, Zenon
<1>6. CASE Set(r) \/ Remove(r)
  <2>1. \E v : result'[r] = Ok(v)
    BY <1>6, <1>d, Zenon DEF Set, Remove
  <2> QED
    BY <2>1, <1>o, Zenon
<1>7. CASE OpenStream(r) \/ NextName(r) \/ ReadDir(r)
  <2>1. (\E v : result'[r] = Ok(v)) \/ pc'[r] = "listing" \/ pc'[r] = "reading"
    BY <1>7, <1>d, ZenonT(120) DEF OpenStream, NextName, ReadDir, Yield
  <2> QED
    BY <2>1, <1>o, <1>g, Zenon
<1>8. CASE Reserve(r)
  <2>1. pc'[r] = "fill" \/ (job[r].max = Usize /\ job[r].op # "read")
    BY <1>8, <1>d, Zenon DEF Reserve
  <2>2. CASE job[r].max = Usize /\ job[r].op # "read"
    BY <1>j, <2>2, ZenonT(120) DEF LimitReal, TooLarge
  <2> QED
    BY <2>1, <2>2, <1>g, Zenon
<1>9. CASE ReadLimited(r)
  <2> DEFINE left == job[r].max - Len(bytes[r])
  <2>1. PICK count \in Chunks(r, Request(left)) :
           \/ result'[r] = Ok(bytes[r])
           \/ count > left
           \/ pc'[r] = "read"
    BY <1>9, <1>d, ZenonT(120) DEF ReadLimited
  <2>2. /\ pc[r] = "read" /\ job[r].op = "read" /\ fd' = fd /\ fd[r] \in Objects
        /\ pos[r] \in Nat /\ size[fd[r]] \in Nat /\ pos[r] = Len(bytes[r])
    BY <1>9, ZenonT(120) DEF ReadLimited, Genuine, Bounded, TypeInv
  <2>3. fd[r] # Absent
    BY <2>2, ContentsAssumption, ZenonT(120)
  <2>4. Upto(size[fd[r]]) \in seen'[r]
    BY <1>j, <2>2, <2>3, SeenGrows, Zenon DEF Target
  <2>5. CASE count > left
    <3>1. left \in Nat
      <4>1. Len(bytes[r]) <= job[r].max
        BY ZenonT(120) DEF Bounded
      <4> QED
        BY <1>n, <2>2, <4>1, Difference, Zenon
    <3>2. Request(left) \in Nat
      <4> HIDE DEF left
      <4> QED
        BY <3>1, LeastBounds, Zenon
    <3>3. count \in Nat /\ (count # 0 => pos[r] + count <= size[fd[r]])
      <4> HIDE DEF left
      <4> QED
        BY <2>2, <3>2, ChunksBounds, Zenon
    <3>4. size[fd[r]] > job[r].max
      BY <1>n, <2>2, <2>5, <3>1, <3>3, SMTT(30)
    <3>5. Upto(size[fd[r]]) \in Seq(Nat) /\ Len(Upto(size[fd[r]])) = size[fd[r]]
      BY <2>2, UptoType, Zenon
    <3> QED
      BY <2>4, <3>4, <3>5, <1>l, ZenonT(60)
  <2> QED
    BY <2>1, <2>5, <1>o, <1>g, Zenon
<1>10. CASE ReadSymlink(r)
  <2> DEFINE o == dir[job[r].name]
             count == Least(Len(Text[o]), cap[r])
  <2>1. /\ pc[r] = "fill" /\ job[r].op = "readlink"
        /\ \/ result'[r] = Err("Io") \/ (\E v : result'[r] = Ok(v)) \/ pc'[r] = "fill"
           \/ IsLink(o) /\ count > job[r].max
    BY <1>10, <1>d, ZenonT(120) DEF ReadSymlink, Grow
  <2>2. CASE IsLink(o) /\ count > job[r].max
    <3>1. o \in Objects
      BY <2>2, NamedType, Zenon DEF IsLink
    <3>2. Text[o] \in Seq(Nat) /\ Len(Text[o]) \in Nat /\ cap[r] \in Nat
      BY <3>1, ContentsAssumption DEF TypeInv
    <3>3. Len(Text[o]) > job[r].max
      <4>1. count \in Nat /\ count <= Len(Text[o])
        BY <3>2, LeastType, ZenonT(60)
      <4>2. count > job[r].max /\ job[r].max \in Nat
        BY <1>n, <2>2, ZenonT(60)
      <4> HIDE DEF count
      <4> QED
        BY <3>2, <4>1, <4>2, Exceeds, ZenonT(60)
    <3>4. Text[o] \in seen'[r]
      BY <1>j, <2>1, <2>2, SeenGrows, Zenon DEF Target
    <3> QED
      BY <3>2, <3>3, <3>4, <1>l, Zenon
  <2> QED
    BY <2>1, <2>2, <1>e, <1>o, <1>g, ZenonT(60)
\* read_buffer returns LimitExceeded of its own accord only for a value that is too long.
<1>b. ASSUME NEW value \in Seq(Nat), NEW finish, ReadBuffer(r, value, finish), pc[r] = "fill", value \in seen'[r]
      PROVE  LimitReal(r)' \/ result'[r] = finish
  <2>1. \/ Len(value) > cap[r] /\ cap[r] = job[r].max + 1
        \/ Len(value) > job[r].max
        \/ pc'[r] = "fill" \/ result'[r] = finish
    BY <1>b, <1>d, Zenon DEF ReadBuffer, Grow, Exhausted, Ceiling
  <2>2. Len(value) \in Nat /\ cap[r] \in Nat
    BY <1>b, NamedType, LenIs, ZenonT(30)
  <2>3. \/ Len(value) > job[r].max
        \/ pc'[r] = "fill" \/ result'[r] = finish
    BY <1>n, <2>1, <2>2, SMTT(30)
  <2> QED
    BY <2>3, <1>b, <1>l, <1>g, Zenon
<1>11. CASE Get(r)
  <2> DEFINE value == attr[fd[r]]
  <2>1. /\ pc[r] = "fill" /\ job[r].op = "get" /\ fd' = fd /\ attr' = attr
        /\ (\E v : result'[r] = Ok(v)) \/ (value # Absent /\ ReadBuffer(r, value, Ok(value)))
    BY <1>11, <1>d, ZenonT(120) DEF Get, world
  <2>2. CASE value # Absent /\ ReadBuffer(r, value, Ok(value))
    <3>1. fd[r] \in Objects
      BY <2>1, Zenon DEF Handed
    <3>2. value \in Seq(Nat)
      BY <2>2, <3>1, ContentsAssumption, Zenon DEF TypeInv
    <3>3. value \in seen'[r]
      BY <1>j, <2>1, SeenGrows, Zenon DEF Target
    <3> QED
      BY <2>1, <2>2, <3>2, <3>3, <1>b, <1>o, Zenon
  <2> QED
    BY <2>1, <2>2, <1>o, Zenon
<1>12. CASE List(r)
  <2> DEFINE value == Listing(fd[r])
  <2>1. /\ pc[r] = "fill" /\ job[r].op = "list" /\ fd' = fd /\ attr' = attr
        /\ ReadBuffer(r, value, Parse(value, job[r].count))
    BY <1>12, ZenonT(120) DEF List, world
  <2>2. value \in Seq(Nat)
    <3>1. Others[fd[r]] \in Seq(Nat)
      BY <2>1, ContentsAssumption, Zenon DEF Handed
    <3>2. <<1, 0>> \in Seq(Nat) /\ <<>> \in Seq(Nat)
      OBVIOUS
    <3>3. (IF attr[fd[r]] = Absent THEN <<>> ELSE <<1, 0>>) \in Seq(Nat)
      BY <3>2, ZenonT(30)
    <3> QED
      BY <3>1, <3>3, ConcatType, Zenon DEF Listing
  <2>3. value \in seen'[r]
    <3>1. Listing(fd[r])' = value
      BY <2>1, Zenon DEF Listing
    <3>2. Target(r)' = {Listing(fd[r])'}
      BY <1>j, <2>1, Zenon DEF Target
    <3>3. pc[r] # "done"
      BY <2>1, Zenon
    <3> QED
      BY <3>1, <3>2, <3>3, SeenGrows, Zenon
  <2>4. CASE result'[r] = Parse(value, job[r].count)
    <3>1. CASE Parse(value, job[r].count) = Err("LimitExceeded")
      <4>1. Cardinality({i \in DOMAIN value : value[i] = 0}) > job[r].count
        BY <3>1, ParseLimit, Zenon
      <4> HIDE DEF value
      <4> QED
        BY <1>j, <2>1, <2>3, <4>1, ZenonT(120) DEF LimitReal, TooLarge
    <3>2. CASE Parse(value, job[r].count) # Err("LimitExceeded")
      <4>1. Parse(value, job[r].count) = Err("Io") \/ Parse(value, job[r].count) = Ok(value)
        BY <3>2, ZenonT(120) DEF Parse
      <4> QED
        BY <2>4, <4>1, <1>e, <1>o, Zenon
    <3> QED
      BY <3>1, <3>2, Zenon
  <2> QED
    <3> HIDE DEF value
    <3> QED
      BY <2>1, <2>2, <2>3, <2>4, <1>b, ZenonT(60)
<1> QED
  BY <1>1, <1>2, <1>3, <1>4, <1>5, <1>6, <1>7, <1>8, <1>9, <1>10, <1>11, <1>12, Zenon DEF Work

LimitInv == GenuineInv /\ \A r \in Readers : Handed(r) /\ LimitReal(r)

LEMMA LimitNext == LimitInv /\ [Next]_vars => LimitInv'
<1> SUFFICES ASSUME LimitInv, [Next]_vars, NEW q \in Readers PROVE Handed(q)' /\ LimitReal(q)'
  BY GenuineNext, Zenon DEF LimitInv
<1>i. TypeInv /\ Bounded(q) /\ Genuine(q) /\ Handed(q) /\ LimitReal(q)
  BY Zenon DEF LimitInv, GenuineInv, BoundedInv
<1>u. ASSUME Untouched(q) PROVE Handed(q)'
  BY <1>i, <1>u, Zenon DEF Handed, Untouched
<1>1. CASE UNCHANGED vars
  <2>1. job' = job /\ fd' = fd /\ pc' = pc /\ result' = result /\ seen' = seen
    BY <1>1, Zenon DEF vars
  <2>2. Handed(q)'
    BY <1>i, <2>1, Zenon DEF Handed
  <2>3. LimitReal(q)'
    BY <1>i, <2>1, ZenonT(120) DEF LimitReal, Exceeded, TooLarge
  <2> QED
    BY <2>2, <2>3, Zenon
<1>2. CASE Outside /\ Watch
  <2>1. Untouched(q)
    BY <1>2, ZenonT(120) DEF Outside, Replace, Resize, Change, stream, Untouched
  <2> QED
    BY <1>2, <1>i, <1>u, <2>1, LimitUntouched, Zenon
<1>3. ASSUME NEW r \in Readers, Work(r) \/ Fails(r), Watch PROVE Handed(q)' /\ LimitReal(q)'
  <2>1. CASE q = r
    BY <1>3, <1>i, <2>1, LimitStep, HandedStep, Zenon
  <2>2. CASE q # r
    BY <1>3, <1>i, <1>u, <2>2, OthersUntouched, LimitUntouched, Zenon
  <2> QED
    BY <2>1, <2>2, Zenon
<1> QED
  BY <1>1, <1>2, <1>3, Zenon DEF Next

\* A call that returns LimitExceeded does so because of its object, for any
\* interleaving with other threads and programs (read_limited, read_symlink,
\* read_buffer, Names::parse).
THEOREM LimitsReal == Spec => []LimitIsReal
<1>1. Init => LimitInv
  <2> SUFFICES ASSUME Init, NEW r \in Readers PROVE Handed(r) /\ LimitReal(r)
    BY GenuineInit, Zenon DEF LimitInv
  <2>1. Handed(r)
    BY TypeInit, JobType, ZenonT(30) DEF Init, Handed
  <2>2. result[r] = Err("Pending")
    BY Zenon DEF Init, Pending
  <2>3. ~Exceeded(r)
    BY <2>2, SMTT(120) DEF Exceeded, Err
  <2> QED
    BY <2>1, <2>3, Zenon DEF LimitReal
<1>2. LimitInv => LimitIsReal
  BY ZenonT(120) DEF LimitInv, LimitReal, Exceeded, TooLarge, LimitIsReal
<1> QED
  BY <1>1, <1>2, LimitNext, PTL DEF Spec

-----------------------------------------------------------------------------
(* What a stream of names returns.                                          *)

NoError(s) == \A i \in DOMAIN s : s[i].ok
Unlisted(s, n) == \A i \in DOMAIN s : s[i] # Ok(n)
ListedOnce(s, n) == \E k \in DOMAIN s : \A i \in DOMAIN s : s[i] = Ok(n) <=> i = k
ErrorIsLast(s) == \A i \in DOMAIN s : ~s[i].ok => i = Len(s)

\* A name that was there all the time is either still ahead or listed.
Tracked(r, n) == IF n \in ahead[r] THEN Unlisted(out[r], n) ELSE ListedOnce(out[r], n)

Streaming(r) == job[r].op = "names" =>
    /\ pc[r] \in {"start", "ready", "listing", "reading", "done"}
    /\ pc[r] \in {"start", "ready"} => out[r] = <<>>
    /\ ErrorIsLast(out[r])
    /\ pc[r] = "reading" \/ (pc[r] = "listing" /\ ~finished[r]) => NoError(out[r])
    /\ pc[r] = "listing" /\ finished[r] => ~NoError(out[r])
    /\ pc[r] \in {"listing", "reading"} => stayed[r] \subseteq Present
    /\ pc[r] \in {"listing", "reading"} /\ NoError(out[r]) => \A n \in stayed[r] : Tracked(r, n)
    /\ Succeeded(r) /\ NoError(out[r]) => \A n \in stayed[r] : ListedOnce(out[r], n)

\* What Append does to a list of items.
LEMMA AppendIndex ==
    ASSUME NEW s \in Seq(Items), NEW item \in Items
    PROVE  /\ DOMAIN s = 1..Len(s) /\ Len(s) \in Nat /\ DOMAIN Append(s, item) = 1..(Len(s) + 1)
           /\ Len(Append(s, item)) = Len(s) + 1
           /\ \A i \in 1..Len(s) : Append(s, item)[i] = s[i]
           /\ Append(s, item)[Len(s) + 1] = item
  OBVIOUS

LEMMA OkDiffers == ASSUME NEW m, NEW n, Ok(m) = Ok(n) PROVE m = n
<1>1. Ok(m).value = m /\ Ok(n).value = n
  BY Zenon DEF Ok
<1> QED
  BY <1>1, Zenon

LEMMA OkIsOk == ASSUME NEW m PROVE Ok(m).ok
  BY Zenon DEF Ok

LEMMA ErrIsNot == ASSUME NEW e PROVE ~Err(e).ok
  BY Zenon DEF Err

\* A name joins the list.
\* t lists x besides what s lists.
Lists(s, t, x) ==
    /\ NoError(t) /\ ErrorIsLast(t)
    /\ Unlisted(s, x) => ListedOnce(t, x)
    /\ \A n : n # x /\ Unlisted(s, n) => Unlisted(t, n)
    /\ \A n : n # x /\ ListedOnce(s, n) => ListedOnce(t, n)

LEMMA AppendName ==
    ASSUME NEW s \in Seq(Items), NEW x \in Names, NoError(s)
    PROVE  Lists(s, Append(s, Ok(x)), x)
<1> DEFINE t == Append(s, Ok(x))
           l == Len(s)
<1>1. /\ DOMAIN s = 1..l /\ l \in Nat /\ DOMAIN t = 1..(l + 1) /\ Len(t) = l + 1
      /\ \A i \in 1..l : t[i] = s[i]
      /\ t[l + 1] = Ok(x)
  <2>1. Ok(x) \in Items
    BY Zenon DEF Items
  <2> QED
    BY <2>1, AppendIndex, Zenon
<1> HIDE DEF t, l
<1>2. \A i \in DOMAIN t : i = l + 1 \/ (i \in DOMAIN s /\ t[i] = s[i])
  BY <1>1
<1>3. l + 1 \in DOMAIN t /\ l + 1 \notin DOMAIN s /\ DOMAIN s \subseteq DOMAIN t
  BY <1>1
<1>4. NoError(t)
  BY <1>1, <1>2, OkIsOk, ZenonT(120) DEF NoError
<1>5. ErrorIsLast(t)
  BY <1>4, ZenonT(120) DEF ErrorIsLast, NoError
<1>6. ASSUME Unlisted(s, x) PROVE ListedOnce(t, x)
  <2>1. \A i \in DOMAIN t : t[i] = Ok(x) <=> i = l + 1
    BY <1>1, <1>2, <1>6, ZenonT(120) DEF Unlisted
  <2> QED
    BY <1>3, <2>1, ZenonT(120) DEF ListedOnce
<1>7. ASSUME NEW n, n # x, Unlisted(s, n) PROVE Unlisted(t, n)
  BY <1>1, <1>2, <1>7, OkDiffers, ZenonT(120) DEF Unlisted
<1>8. ASSUME NEW n, n # x, ListedOnce(s, n) PROVE ListedOnce(t, n)
  <2>1. PICK k \in DOMAIN s : \A i \in DOMAIN s : s[i] = Ok(n) <=> i = k
    BY <1>8, Zenon DEF ListedOnce
  <2>2. t[l + 1] # Ok(n) /\ l + 1 # k
    BY <1>1, <1>3, <1>8, <2>1, OkDiffers, ZenonT(120)
  <2>3. \A i \in DOMAIN t : t[i] = Ok(n) <=> i = k
    BY <1>2, <2>1, <2>2, ZenonT(120)
  <2> QED
    BY <1>3, <2>1, <2>3, ZenonT(120) DEF ListedOnce
<1> QED
  BY <1>4, <1>5, <1>6, <1>7, <1>8, ZenonT(60) DEF t, Lists

\* An error ends the list.
LEMMA AppendError ==
    ASSUME NEW s \in Seq(Items), NEW e \in {"Io", "OutOfMemory", "LimitExceeded"}, NoError(s)
    PROVE  ~NoError(Append(s, Err(e))) /\ ErrorIsLast(Append(s, Err(e)))
<1> DEFINE t == Append(s, Err(e))
           l == Len(s)
<1>1. /\ DOMAIN s = 1..l /\ l \in Nat /\ DOMAIN t = 1..(l + 1) /\ Len(t) = l + 1
      /\ \A i \in 1..l : t[i] = s[i]
      /\ t[l + 1] = Err(e)
  <2>1. Err(e) \in Items
    BY Zenon DEF Items
  <2> QED
    BY <2>1, AppendIndex, Zenon
<1> HIDE DEF t, l
<1>2. \A i \in DOMAIN t : i = l + 1 \/ (i \in DOMAIN s /\ t[i] = s[i])
  BY <1>1
<1>3. l + 1 \in DOMAIN t
  BY <1>1
<1>4. ~NoError(t)
  BY <1>1, <1>3, ErrIsNot, ZenonT(120) DEF NoError
<1>5. ErrorIsLast(t)
  BY <1>1, <1>2, ZenonT(120) DEF ErrorIsLast, NoError
<1> QED
  BY <1>4, <1>5, Zenon DEF t

\* What a stream of another thread, or another program, does to this one.
LEMMA StreamUntouched ==
    ASSUME NEW q \in Readers, Streaming(q), Untouched(q), Watch,
           \A n \in Names : dir[n] # Absent => (n \in ahead'[q] <=> n \in ahead[q])
    PROVE  Streaming(q)'
<1> SUFFICES ASSUME job[q].op = "names" PROVE Streaming(q)'
  BY ZenonT(60) DEF Streaming, Untouched
<1>1. /\ job'[q] = job[q] /\ pc'[q] = pc[q] /\ out'[q] = out[q] /\ finished'[q] = finished[q]
      /\ result'[q] = result[q]
  BY Zenon DEF Untouched
<1>2. CASE pc[q] \in {"listing", "reading"}
  <2>1. stayed'[q] = stayed[q] \cap Present'
    BY <1>2, Zenon DEF Watch
  <2>2. stayed[q] \subseteq Present
    BY <1>2, ZenonT(60) DEF Streaming
  <2>3. \A n \in stayed'[q] : Tracked(q, n) => Tracked(q, n)'
    BY <1>1, <2>1, <2>2, ZenonT(120) DEF Tracked, Present
  <2>4. ~Succeeded(q)'
    BY <1>1, <1>2, Zenon DEF Succeeded
  <2> QED
    BY <1>1, <1>2, <2>1, <2>3, <2>4, ZenonT(120) DEF Streaming
<1>3. CASE pc[q] = "done"
  <2>1. stayed'[q] = stayed[q]
    BY <1>3, Zenon DEF Watch
  <2> QED
    BY <1>1, <1>3, <2>1, ZenonT(120) DEF Streaming, Succeeded
<1>4. CASE pc[q] \in {"start", "ready"}
  BY <1>1, <1>4, ZenonT(120) DEF Streaming, Succeeded
<1> QED
  BY <1>2, <1>3, <1>4, ZenonT(60) DEF Streaming

\* Every stream has a description of its own.
OwnDescription == \A r \in Readers : desc[r] = r

LEMMA OwnStep == ASSUME TypeInv, OwnDescription, NEW r \in Readers, Work(r) \/ Fails(r) PROVE OwnDescription'
<1>1. desc' = desc \/ desc' = [desc EXCEPT ![r] = r]
  BY ZenonT(120) DEF Work, Validate, Inspect, OpenAt, Classify, ReadLimited, Reserve, ReadSymlink, Get, List,
         Set, Remove, OpenStream, NextName, ReadDir, Fails, stream, Reopened
<1> QED
  BY <1>1, Zenon DEF OwnDescription, TypeInv

\* A stream moves on in its own description only.
LEMMA AheadStep ==
    ASSUME TypeInv, OwnDescription, NEW r \in Readers, NEW q \in Readers, q # r, Work(r) \/ Fails(r)
    PROVE  ahead'[q] = ahead[q]
<1>1. ahead' = ahead \/ (\E a : ahead' = [ahead EXCEPT ![r] = a]) \/ (\E a : ahead' = [ahead EXCEPT ![desc[r]] = a])
  BY ZenonT(120) DEF Work, Validate, Inspect, OpenAt, Classify, ReadLimited, Reserve, ReadSymlink, Get, List,
         Set, Remove, OpenStream, NextName, ReadDir, Fails, stream, Reopened
<1> QED
  BY <1>1, Zenon DEF OwnDescription, TypeInv

\* A step of the stream itself.
LEMMA StreamStep ==
    ASSUME TypeInv, OwnDescription, NEW r \in Readers, Bounded(r), Streaming(r), Work(r) \/ Fails(r), Watch
    PROVE  Streaming(r)'
<1>j. job' = job /\ dir' = dir
  BY ZenonT(120) DEF Work, Validate, Inspect, OpenAt, Classify, ReadLimited, Reserve, ReadSymlink, Get, List,
         Set, Remove, OpenStream, NextName, ReadDir, Fails, world
<1> SUFFICES ASSUME job[r].op = "names" PROVE Streaming(r)'
  BY <1>j, ZenonT(60) DEF Streaming
<1>d. /\ r \in DOMAIN pc /\ r \in DOMAIN result /\ r \in DOMAIN ahead /\ r \in DOMAIN out /\ r \in DOMAIN finished
      /\ out[r] \in Seq(Items) /\ ahead[r] \subseteq Names \cup Dots
  BY Zenon DEF TypeInv
<1>p. Present' = Present
  BY <1>j, Zenon DEF Present
<1> USE DEF Goto, Return
<1>e. NoError(<<>>) /\ ErrorIsLast(<<>>)
  BY SMTT(60) DEF NoError, ErrorIsLast
<1>1. CASE Validate(r) \/ Fails(r)
  <2>1. out' = out /\ pc[r] \in {"start", "ready"}
    BY <1>1, ZenonT(60) DEF Validate, Fails, stream, Streaming
  <2>2. pc'[r] = "ready" \/ (pc'[r] = "done" /\ \E e : result'[r] = Err(e))
    BY <1>1, <1>d, Zenon DEF Validate, Fails
  <2>3. out'[r] = <<>>
    BY <2>1, ZenonT(60) DEF Streaming
  <2>4. ~Succeeded(r)'
    BY <2>2, ErrIsNot, ZenonT(120) DEF Succeeded
  <2>5. pc'[r] \in {"ready", "done"}
    BY <2>2, ZenonT(60)
  <2> QED
    BY <1>e, <2>3, <2>4, <2>5, ZenonT(60) DEF Streaming
<1>2. CASE OpenStream(r)
  <2>1. pc[r] = "ready" /\ pc'[r] = "listing" /\ out' = out /\ finished'[r] = FALSE /\ ahead'[r] = Names \cup Dots
    BY <1>2, <1>d, Zenon DEF OpenStream, Reopened
  <2>2. out'[r] = <<>>
    BY <2>1, ZenonT(60) DEF Streaming
  <2>3. stayed'[r] = Present'
    BY <1>j, <2>1, ZenonT(60) DEF Watch
  <2>4. \A n \in stayed'[r] : Tracked(r, n)'
    <3>1. \A n \in stayed'[r] : n \in ahead'[r]
      BY <2>1, <2>3, ZenonT(30) DEF Present
    <3>2. \A n : Unlisted(<<>>, n)
      BY DEF Unlisted
    <3> QED
      BY <2>2, <3>1, <3>2, ZenonT(60) DEF Tracked
  <2>5. ~Succeeded(r)'
    BY <2>1, ZenonT(30) DEF Succeeded
  <2> QED
    BY <1>e, <2>1, <2>2, <2>3, <2>4, <2>5, ZenonT(60) DEF Streaming
<1>3. CASE NextName(r)
  <2>1. pc[r] = "listing" /\ out' = out /\ ahead' = ahead
    BY <1>3, ZenonT(30) DEF NextName
  <2>2. stayed'[r] = stayed[r] /\ stayed[r] \subseteq Present
    <3>1. stayed'[r] = stayed[r] \cap Present'
      BY <1>j, <2>1, ZenonT(60) DEF Watch
    <3> QED
      BY <1>p, <2>1, <3>1, Zenon DEF Streaming
  <2>3. CASE finished[r] /\ pc'[r] = "done"
    <3>1. ~NoError(out[r])
      BY <2>1, <2>3, ZenonT(60) DEF Streaming
    <3> QED
      BY <2>1, <2>3, <3>1, ZenonT(60) DEF Streaming
  <2>4. CASE ~finished[r] /\ pc'[r] = "reading"
    <3>1. NoError(out[r])
      BY <2>1, <2>4, ZenonT(60) DEF Streaming
    <3>2. \A n \in stayed'[r] : Tracked(r, n)'
      BY <2>1, <2>2, <3>1, Zenon DEF Streaming, Tracked
    <3>3. ~Succeeded(r)'
      BY <2>4, Zenon DEF Succeeded
    <3> QED
      BY <1>p, <2>1, <2>2, <2>4, <3>1, <3>2, <3>3, ZenonT(60) DEF Streaming
  <2> QED
    BY <1>3, <1>d, <2>3, <2>4, Zenon DEF NextName
<1>4. CASE ReadDir(r)
  <2>1. pc[r] = "reading" /\ finished[r] /\ NoError(out[r]) /\ ErrorIsLast(out[r])
    BY <1>4, ZenonT(60) DEF ReadDir, Bounded, Streaming
  <2>2. stayed'[r] = stayed[r] /\ stayed[r] \subseteq Present /\ stayed[r] \subseteq Names
    <3>1. stayed'[r] = stayed[r] \cap Present'
      BY <1>j, <2>1, ZenonT(60) DEF Watch
    <3>2. stayed[r] \subseteq Present
      BY <2>1, ZenonT(30) DEF Streaming
    <3> QED
      BY <1>p, <3>1, <3>2, ZenonT(60) DEF Present
  <2>3. \A n \in stayed[r] : Tracked(r, n)
    BY <2>1, Zenon DEF Streaming
  <2>4. desc[r] = r
    BY Zenon DEF OwnDescription
  <2>5. CASE Entries(r) = {} /\ pc'[r] = "done" /\ out' = out
    <3>1. \A n \in stayed[r] : n \notin ahead[r]
      BY <2>2, <2>4, <2>5, ZenonT(60) DEF Entries, Present
    <3>2. \A n \in stayed'[r] : ListedOnce(out'[r], n)
      BY <2>2, <2>3, <2>5, <3>1, ZenonT(60) DEF Tracked
    <3> QED
      BY <2>1, <2>5, <3>2, ZenonT(60) DEF Streaming
  <2>6. ASSUME NEW x \in Entries(r), ahead' = [ahead EXCEPT ![desc[r]] = @ \ {x}],
               x \in Dots, pc'[r] = "reading", out' = out
        PROVE  Streaming(r)'
    <3>1. ahead'[r] = ahead[r] \ {x}
      BY <1>d, <2>4, <2>6, ZenonT(60)
    <3>2. \A n \in stayed[r] : n # x
      BY <2>2, <2>6, JobsAssumption, ZenonT(60)
    <3>3. \A n \in stayed'[r] : Tracked(r, n)'
      BY <2>2, <2>3, <2>6, <3>1, <3>2, ZenonT(60) DEF Tracked
    <3>4. ~Succeeded(r)'
      BY <2>6, Zenon DEF Succeeded
    <3> QED
      BY <1>p, <2>1, <2>2, <2>6, <3>3, <3>4, ZenonT(60) DEF Streaming
  <2>7. ASSUME NEW e \in {"Io", "OutOfMemory", "LimitExceeded"}, out' = [out EXCEPT ![r] = Append(@, Err(e))],
               pc'[r] = "listing", finished' = finished
        PROVE  Streaming(r)'
    <3>1. out'[r] = Append(out[r], Err(e))
      BY <1>d, <2>7, ZenonT(60)
    <3>2. ~NoError(out'[r]) /\ ErrorIsLast(out'[r])
      BY <1>d, <2>1, <3>1, AppendError, ZenonT(60)
    <3> QED
      BY <1>p, <2>1, <2>2, <2>7, <3>2, ZenonT(60) DEF Streaming
  <2>8. ASSUME NEW x \in Entries(r), ahead' = [ahead EXCEPT ![desc[r]] = @ \ {x}],
               x \notin Dots, out' = [out EXCEPT ![r] = Append(@, Ok(x))],
               pc'[r] = "listing", finished'[r] = FALSE
        PROVE  Streaming(r)'
    <3>1. ahead'[r] = ahead[r] \ {x} /\ out'[r] = Append(out[r], Ok(x))
      BY <1>d, <2>4, <2>8, ZenonT(60)
    <3>2. x \in ahead[r] /\ x \in Names
      BY <1>d, <2>4, <2>8, ZenonT(60) DEF Entries
    <3>3. /\ NoError(out'[r]) /\ ErrorIsLast(out'[r])
          /\ Unlisted(out[r], x) => ListedOnce(out'[r], x)
          /\ \A n : n # x /\ Unlisted(out[r], n) => Unlisted(out'[r], n)
          /\ \A n : n # x /\ ListedOnce(out[r], n) => ListedOnce(out'[r], n)
      <4>1. out[r] \in Seq(Items) /\ NoError(out[r])
        BY <1>d, <2>1, ZenonT(60)
      <4>2. Lists(out[r], Append(out[r], Ok(x)), x)
        BY <3>2, <4>1, AppendName, ZenonT(60)
      <4>3. Lists(out[r], out'[r], x)
        BY <3>1, <4>2, ZenonT(60)
      <4> QED
        BY <4>3, ZenonT(60) DEF Lists
    <3>4. \A n \in stayed'[r] : Tracked(r, n)'
      BY <2>2, <2>3, <3>1, <3>2, <3>3, ZenonT(120) DEF Tracked
    <3>5. ~Succeeded(r)'
      BY <2>8, Zenon DEF Succeeded
    <3> QED
      BY <1>p, <2>2, <2>8, <3>3, <3>4, <3>5, ZenonT(60) DEF Streaming
  <2> QED
    <3>1. \/ Entries(r) = {} /\ pc'[r] = "done" /\ out' = out
          \/ \E x \in Entries(r) :
                /\ ahead' = [ahead EXCEPT ![desc[r]] = @ \ {x}]
                /\ \/ x \in Dots /\ pc'[r] = "reading" /\ out' = out
                   \/ \E e \in {"Io", "OutOfMemory", "LimitExceeded"} :
                         out' = [out EXCEPT ![r] = Append(@, Err(e))] /\ pc'[r] = "listing" /\ finished' = finished
                   \/ /\ x \notin Dots /\ out' = [out EXCEPT ![r] = Append(@, Ok(x))]
                      /\ pc'[r] = "listing" /\ finished'[r] = FALSE
      BY <1>4, <1>d, ZenonT(120) DEF ReadDir, Yield
    <3> QED
      BY <2>5, <2>6, <2>7, <2>8, <3>1, ZenonT(120)
<1>5. CASE Work(r) /\ ~Validate(r) /\ ~OpenStream(r) /\ ~NextName(r) /\ ~ReadDir(r)
  <2>1. pc[r] \in {"opened", "read", "fill"} \/ job[r].op # "names"
    BY <1>5, ZenonT(60) DEF Work, Inspect, OpenAt, Classify, ReadLimited, Reserve, ReadSymlink, Get, List, Set, Remove
  <2> QED
    BY <2>1, ZenonT(60) DEF Streaming
<1> QED
  BY <1>1, <1>2, <1>3, <1>4, <1>5, ZenonT(60)

ListingInv == BoundedInv /\ OwnDescription /\ \A r \in Readers : Streaming(r)

LEMMA ListingNext == ListingInv /\ [Next]_vars => ListingInv'
<1> SUFFICES ASSUME ListingInv, [Next]_vars PROVE ListingInv'
  BY Zenon
<1>i. TypeInv /\ OwnDescription /\ \A r \in Readers : Bounded(r) /\ Streaming(r)
  BY Zenon DEF ListingInv, BoundedInv
<1>b. BoundedInv'
  BY BoundedNext, Zenon DEF ListingInv
<1>1. CASE UNCHANGED vars
  <2>1. /\ job' = job /\ pc' = pc /\ out' = out /\ finished' = finished /\ stayed' = stayed
        /\ result' = result /\ ahead' = ahead /\ dir' = dir /\ desc' = desc
    BY <1>1, Zenon DEF vars, world, stream
  <2>2. OwnDescription'
    BY <1>i, <2>1, Zenon DEF OwnDescription
  <2>3. ASSUME NEW q \in Readers PROVE Streaming(q)'
    BY <1>i, <2>1, ZenonT(120) DEF Streaming, Succeeded, Tracked, Present
  <2> QED
    BY <1>b, <2>2, <2>3, Zenon DEF ListingInv
<1>2. CASE Outside /\ Watch
  <2>1. desc' = desc
    BY <1>2, ZenonT(60) DEF Outside, Replace, Resize, Change, stream
  <2>2. OwnDescription'
    BY <1>i, <2>1, Zenon DEF OwnDescription
  <2>3. ASSUME NEW q \in Readers PROVE Streaming(q)'
    <3>1. Untouched(q)
      BY <1>2, ZenonT(120) DEF Outside, Replace, Resize, Change, stream, Untouched
    <3>2. ahead' = ahead \/ \E n, d : dir[n] = Absent /\ ahead' = [ahead EXCEPT ![d] = @ \cup {n}]
      BY <1>2, ZenonT(120) DEF Outside, Replace, Resize, Change, stream
    <3>3. \A n \in Names : dir[n] # Absent => (n \in ahead'[q] <=> n \in ahead[q])
      <4>1. DOMAIN ahead = Readers
        BY <1>i, Zenon DEF TypeInv
      <4> QED
        BY <3>2, <4>1, Zenon
    <3> QED
      BY <1>2, <1>i, <3>1, <3>3, StreamUntouched, Zenon
  <2> QED
    BY <1>b, <2>2, <2>3, Zenon DEF ListingInv
<1>3. ASSUME NEW r \in Readers, Work(r) \/ Fails(r), Watch PROVE ListingInv'
  <2>1. OwnDescription'
    BY <1>3, <1>i, OwnStep, Zenon
  <2>2. ASSUME NEW q \in Readers PROVE Streaming(q)'
    <3>1. CASE q = r
      BY <1>3, <1>i, <3>1, StreamStep, Zenon
    <3>2. CASE q # r
      BY <1>3, <1>i, <3>2, OthersUntouched, AheadStep, StreamUntouched, Zenon
    <3> QED
      BY <3>1, <3>2, Zenon
  <2> QED
    BY <1>b, <2>1, <2>2, Zenon DEF ListingInv
<1> QED
  BY <1>1, <1>2, <1>3, Zenon DEF Next

LEMMA ListingInit == Init => ListingInv
<1> SUFFICES ASSUME Init PROVE OwnDescription /\ \A r \in Readers : Streaming(r)
  BY BoundedInit, Zenon DEF ListingInv
<1>1. OwnDescription
  BY Zenon DEF Init, OwnDescription
<1>2. ASSUME NEW r \in Readers PROVE Streaming(r)
  <2>1. out[r] = <<>> /\ pc[r] \in {"start", "done"} /\ result[r] = Err("Pending")
    BY ZenonT(60) DEF Init, Pending
  <2>2. ~Succeeded(r)
    BY <2>1, ErrIsNot, Zenon DEF Succeeded
  <2>3. ErrorIsLast(<<>>)
    BY DEF ErrorIsLast
  <2> QED
    BY <2>1, <2>2, <2>3, Zenon DEF Streaming
<1> QED
  BY <1>1, <1>2, Zenon

LEMMA OnceIsOne ==
    ASSUME NEW s, NEW n, ListedOnce(s, n)
    PROVE  \E k \in DOMAIN s : {i \in DOMAIN s : s[i] = Ok(n)} = {k}
<1>1. PICK k \in DOMAIN s : \A i \in DOMAIN s : s[i] = Ok(n) <=> i = k
  BY Zenon DEF ListedOnce
<1>2. {i \in DOMAIN s : s[i] = Ok(n)} = {k}
  BY <1>1, Zenon
<1> QED
  BY <1>2, Zenon

\* Streams of one directory do not take entries from each other, an error ends a
\* stream for good, and a stream that ends without one has returned every name
\* that was there all the time, exactly once: for any number of threads, names and
\* changes by other programs (names, Names::next).
THEOREM ListingsComplete == Spec => []ListingComplete
<1>1. ListingInv => ListingComplete
  <2> SUFFICES ASSUME ListingInv, NEW r \in Readers, job[r].op = "names"
               PROVE  LET items == out[r]
                          failed == {i \in DOMAIN items : ~items[i].ok}
                      IN  /\ failed \subseteq {Len(items)}
                          /\ Succeeded(r) /\ failed = {} =>
                                \A n \in stayed[r] : \E k \in DOMAIN items : {i \in DOMAIN items : items[i] = Ok(n)} = {k}
    BY Zenon DEF ListingComplete
  <2> DEFINE failed == {i \in DOMAIN out[r] : ~out[r][i].ok}
  <2>1. /\ ErrorIsLast(out[r])
        /\ Succeeded(r) /\ NoError(out[r]) => \A n \in stayed[r] : ListedOnce(out[r], n)
    BY Zenon DEF ListingInv, Streaming
  <2>2. failed \subseteq {Len(out[r])}
    BY <2>1, Zenon DEF ErrorIsLast
  <2>3. failed = {} => NoError(out[r])
    BY Zenon DEF NoError
  <2>4. Succeeded(r) /\ failed = {} =>
           \A n \in stayed[r] : \E k \in DOMAIN out[r] : {i \in DOMAIN out[r] : out[r][i] = Ok(n)} = {k}
    BY <2>1, <2>3, OnceIsOne, ZenonT(60)
  <2> QED
    BY <2>2, <2>4, Zenon
<1> QED
  BY <1>1, ListingInit, ListingNext, PTL DEF Spec
=============================================================================
