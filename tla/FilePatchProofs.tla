--------------------------- MODULE FilePatchProofs ---------------------------
(***************************************************************************)
(* Proofs about FilePatch for all contents, lengths, ceilings and windows, *)
(* any number of writes to the mapped source, and any damage to one field  *)
(* of the patch.  An apply is described by what it has established when it *)
(* stands at its k-th step, and its answer, when nothing disturbs it, by a *)
(* function of the patch, the source and the ceiling (Verdict).            *)
(***************************************************************************)
EXTENDS FilePatch, WellFoundedInduction, TLAPS

\* Decoding in the port looks at the window once more.
Off(i) == IF i = "zig" THEN 0 ELSE 1

\* The window's logarithm is LogMin or what patchWindowLog gives.
Logs == {LogMin} \cup {WindowLog(a, b) : a \in Nat, b \in Nat}

StoredPatch ==
    [magic : BOOLEAN, whole : BOOLEAN, sizeA : Nat, sizeB : Nat, hashA : Blobs, hashB : Blobs,
     prefix : Blobs, content : Blobs, intact : BOOLEAN,
     log : Logs]

TypeInv ==
    /\ source \in Blobs /\ target \in Blobs
    /\ patch \in StoredPatch
    /\ writes \in Nat /\ ceiling \in Nat
    /\ faulty \in BOOLEAN /\ damaged \in BOOLEAN
    /\ pc \in [Impls -> Nat]
    /\ buffer \in [Impls -> SUBSET Blobs] /\ slot \in [Impls -> SUBSET Blobs]
    /\ size \in [Impls -> Nat]
    /\ error \in [Impls -> SUBSET Errors]

\* What an apply that stands at its k-th step has found to hold.
Established(k) ==
    /\ k > 1 => patch.magic /\ patch.whole
    /\ k > 2 => patch.sizeA = Size[source]
    /\ k > 3 /\ writes = 0 => patch.hashA = source
    /\ k > 4 => ~Exceeds(patch.sizeB, ceiling)
    /\ k > 5 => WindowFits(Size[source], patch.sizeB)

\* The buffer, from its allocation to the comparison of its hash.
BufferState(i) ==
    /\ pc[i] <= 6 + Off(i) => buffer[i] = {}
    /\ pc[i] > 6 + Off(i) => buffer[i] # {} /\ size[i] = patch.sizeB
    /\ pc[i] > 7 + Off(i) =>
          /\ \E b \in Blobs : buffer[i] = {b} /\ Size[b] = size[i]
          /\ source = patch.prefix /\ writes = 0 => patch.intact /\ buffer[i] = {patch.content}
    /\ pc[i] > 8 + Off(i) => buffer[i] = {patch.hashB}

\* The answer that the patch, the source and the ceiling call for.
Verdict ==
    IF ~patch.magic THEN {"InvalidMagic"}
    ELSE IF ~patch.whole THEN {"Truncated"}
    ELSE IF patch.sizeA # Size[source] THEN {"SizeMismatch"}
    ELSE IF patch.hashA # source THEN {"SourceHashMismatch"}
    ELSE IF Exceeds(patch.sizeB, ceiling) THEN {"ResourceLimitExceeded"}
    ELSE IF ~WindowFits(Size[source], patch.sizeB) THEN {"WindowTooLarge"}
    ELSE IF ~patch.intact \/ Size[patch.content] # patch.sizeB THEN {"DecompressionFailed"}
    ELSE IF patch.content # patch.hashB THEN {"TargetHashMismatch"}
    ELSE {}

\* Nothing disturbs an apply with the encoder's source.
Calm == ~faulty /\ writes = 0 /\ source = patch.prefix

\* The state of an apply that has returned.
Returned(i) ==
    /\ error[i] = {} =>
          /\ Established(6)
          /\ slot[i] = buffer[i] /\ buffer[i] = {patch.hashB}
          /\ size[i] = patch.sizeB /\ Size[patch.hashB] = patch.sizeB
          /\ Calm => patch.content = patch.hashB
    /\ error[i] # {} => slot[i] = {} /\ buffer[i] = {}
    /\ Calm => error[i] = Verdict

ApplyInv(i) ==
    /\ pc[i] <= 9 + Off(i)
    /\ made # "ready" => pc[i] = 1
    /\ pc[i] # 0 => slot[i] = {} /\ error[i] = {} /\ Established(pc[i]) /\ BufferState(i)
    /\ pc[i] = 0 => Returned(i)

VerifiedInv == TypeInv /\ \A i \in Impls : ApplyInv(i)

-----------------------------------------------------------------------------
\* Where an apply is when it is at a step of a given name.
LEMMA Positions ==
  ASSUME NEW i \in Impls, pc[i] \in Nat, pc[i] <= 9 + Off(i)
  PROVE  /\ At(i, "parse") => pc[i] = 1
         /\ At(i, "size") => pc[i] = 2
         /\ At(i, "hash") => pc[i] = 3
         /\ At(i, "limit") => pc[i] = 4
         /\ At(i, "window") => pc[i] \in 5..(5 + Off(i))
         /\ At(i, "alloc") => pc[i] = 6 + Off(i)
         /\ At(i, "decode") => pc[i] = 7 + Off(i)
         /\ At(i, "check") => pc[i] = 8 + Off(i)
         /\ At(i, "own") => pc[i] = 9 + Off(i)
<1>1. CASE i = "zig"
  <2>1. Steps(i) = ZigSteps /\ pc[i] \in 0..9 BY <1>1 DEF Steps, Off
  <2> QED BY <1>1, <2>1 DEF At, ZigSteps, Off
<1>2. CASE i # "zig"
  <2>1. Steps(i) = RustSteps /\ pc[i] \in 0..10 BY <1>2 DEF Steps, Off
  <2> QED BY <1>2, <2>1 DEF At, RustSteps, Off
<1> QED BY <1>1, <1>2

\* Before anything ran.
LEMMA InitVerified == Init => VerifiedInv
<1> SUFFICES ASSUME Init PROVE VerifiedInv
  OBVIOUS
<1>1. (CHOOSE b \in Blobs : TRUE) \in Blobs BY DEF Init
<1>2. patch \in StoredPatch
  BY <1>1, FilePatchAssumption DEF Init, StoredPatch, Logs
<1>3. TypeInv
  BY <1>2, FilePatchAssumption DEF Init, TypeInv
<1>4. ASSUME NEW i \in Impls PROVE ApplyInv(i)
  BY DEF Init, ApplyInv, Established, BufferState, Off
<1> QED BY <1>3, <1>4 DEF VerifiedInv

\* Until the patch is delivered every apply stands at its first step.
LEMMA BeforeDelivery ==
  ASSUME VerifiedInv, TypeInv', made # "ready", UNCHANGED applying
  PROVE  VerifiedInv'
<1>1. ASSUME NEW i \in Impls PROVE ApplyInv(i)'
  BY DEF VerifiedInv, ApplyInv, Established, BufferState, Off, applying
<1> QED BY <1>1 DEF VerifiedInv

\* A write by another program keeps the length of the source.
LEMMA WriteVerified ==
  ASSUME VerifiedInv, ExternalWrite
  PROVE  VerifiedInv'
<1>1. /\ source' \in Blobs /\ Size[source'] = Size[source] /\ writes' = writes + 1
      /\ UNCHANGED <<target, faulty, patch, made, damaged, ceiling, applying>>
  BY DEF ExternalWrite
<1>2. writes' \in Nat /\ writes' # 0 BY <1>1 DEF VerifiedInv, TypeInv
<1>3. TypeInv' BY <1>1, <1>2 DEF VerifiedInv, TypeInv, applying
<1>4. ASSUME NEW i \in Impls PROVE ApplyInv(i)'
  <2>1. ApplyInv(i) BY DEF VerifiedInv
  <2>2. \A k \in Nat : Established(k) => Established(k)'
    BY <1>1, <1>2 DEF Established, Exceeds, WindowFits
  <2>3. BufferState(i) => BufferState(i)'
    BY <1>1, <1>2 DEF BufferState, applying
  <2>4. Returned(i) => Returned(i)'
    BY <1>1, <1>2, <2>2 DEF Returned, Calm, applying
  <2>5. pc[i] \in Nat BY DEF VerifiedInv, TypeInv
  <2> QED BY <1>1, <2>1, <2>2, <2>3, <2>4, <2>5 DEF ApplyInv, applying
<1> QED BY <1>3, <1>4 DEF VerifiedInv

-----------------------------------------------------------------------------
(* A step of one apply.                                                    *)

\* What no step of an apply changes.
Given == <<inputs, patch, made, damaged, ceiling>>

\* The applies share nothing but the inputs.
LEMMA OthersKept ==
  ASSUME VerifiedInv, TypeInv', NEW i \in Impls, UNCHANGED Given, ApplyInv(i)',
         \A j \in Impls : j # i => /\ pc'[j] = pc[j] /\ buffer'[j] = buffer[j] /\ size'[j] = size[j]
                                   /\ slot'[j] = slot[j] /\ error'[j] = error[j]
  PROVE  VerifiedInv'
<1>1. ASSUME NEW j \in Impls, j # i PROVE ApplyInv(j)'
  <2>1. ApplyInv(j) BY DEF VerifiedInv
  <2>2. /\ pc'[j] = pc[j] /\ buffer'[j] = buffer[j] /\ size'[j] = size[j]
        /\ slot'[j] = slot[j] /\ error'[j] = error[j]
    BY <1>1
  <2>3. \A k : Established(k)' <=> Established(k)
    BY DEF Given, inputs, Established, Exceeds, WindowFits
  <2>4. Verdict' = Verdict /\ (Calm' <=> Calm)
    BY DEF Given, inputs, Verdict, Calm, Exceeds, WindowFits
  <2>5. BufferState(j) => BufferState(j)' BY <2>2 DEF Given, inputs, BufferState
  <2>6. Returned(j) => Returned(j)' BY <2>2, <2>3, <2>4 DEF Given, inputs, Returned
  <2> QED BY <2>1, <2>2, <2>3, <2>5, <2>6 DEF ApplyInv, Given
<1> QED BY <1>1 DEF VerifiedInv

\* An error return frees the buffer, and is the right one if nothing disturbed
\* the call.
LEMMA FailVerified ==
  ASSUME VerifiedInv, NEW i \in Impls, NEW e \in Errors, Fail(i, e), UNCHANGED Given,
         made = "ready", pc[i] # 0, Calm => Verdict = {e}
  PROVE  VerifiedInv'
<1>1. /\ pc'[i] = 0 /\ error'[i] = {e} /\ buffer'[i] = {} /\ slot'[i] = slot[i]
      /\ \A j \in Impls : j # i => /\ pc'[j] = pc[j] /\ buffer'[j] = buffer[j] /\ size'[j] = size[j]
                                   /\ slot'[j] = slot[j] /\ error'[j] = error[j]
  BY DEF Fail, Return, VerifiedInv, TypeInv
<1>2. TypeInv' BY DEF Fail, Return, VerifiedInv, TypeInv, Given, inputs
<1>3. slot[i] = {} BY DEF VerifiedInv, ApplyInv
<1>4. Verdict' = Verdict /\ (Calm' <=> Calm)
  BY DEF Given, inputs, Verdict, Calm, Exceeds, WindowFits
<1>5. Returned(i)' BY <1>1, <1>3, <1>4 DEF Returned
<1>6. ApplyInv(i)' BY <1>1, <1>5 DEF ApplyInv, Given, Off
<1> QED BY <1>1, <1>2, <1>6, OthersKept

\* A check that succeeds adds what it checked.
LEMMA ProceedVerified ==
  ASSUME VerifiedInv, NEW i \in Impls, Proceed(i), UNCHANGED <<buffer, size, slot, error>>,
         UNCHANGED Given, made = "ready", pc[i] # 0, pc[i] < 9 + Off(i),
         Established(pc[i] + 1), BufferState(i)'
  PROVE  VerifiedInv'
<1>1. /\ pc'[i] = pc[i] + 1 /\ pc[i] \in Nat
      /\ \A j \in Impls : j # i => pc'[j] = pc[j]
  BY DEF Proceed, VerifiedInv, TypeInv
<1>2. TypeInv' BY <1>1 DEF Proceed, VerifiedInv, TypeInv, Given, inputs
<1>3. Established(pc[i])' BY <1>1 DEF Given, inputs, Established, Exceeds, WindowFits
<1>4. slot[i] = {} /\ error[i] = {} BY DEF VerifiedInv, ApplyInv
<1>5. ApplyInv(i)' BY <1>1, <1>3, <1>4 DEF ApplyInv, Given, Off
<1> QED BY <1>1, <1>2, <1>5, OthersKept

\* A check of applyLimited or file::apply that succeeds before the buffer is there.
LEMMA PassVerified ==
  ASSUME VerifiedInv, NEW i \in Impls, Proceed(i), UNCHANGED <<buffer, size, slot, error>>,
         UNCHANGED Given, made = "ready", pc[i] # 0, pc[i] < 6 + Off(i), Established(pc[i] + 1)
  PROVE  VerifiedInv'
<1>1. pc[i] \in Nat BY DEF VerifiedInv, TypeInv
<1>2. pc'[i] = pc[i] + 1 /\ pc'[i] <= 6 + Off(i) BY <1>1 DEF Proceed, VerifiedInv, TypeInv, Off
<1>3. buffer[i] = {} BY <1>1 DEF VerifiedInv, ApplyInv, BufferState, Off
<1>4. BufferState(i)' BY <1>1, <1>2, <1>3 DEF BufferState, Off
<1>5. pc[i] < 9 + Off(i) BY <1>1 DEF Off
<1> QED BY <1>4, <1>5, ProceedVerified

\* The checks before the allocation.
LEMMA ChecksVerified ==
  ASSUME VerifiedInv, NEW i \in Impls,
         Info(i) \/ CheckSize(i) \/ CheckSource(i) \/ CheckLimit(i) \/ CheckWindow(i)
  PROVE  VerifiedInv'
<1>0. pc[i] \in Nat /\ pc[i] <= 9 + Off(i) /\ (pc[i] # 0 => Established(pc[i])) /\ patch \in StoredPatch
  BY DEF VerifiedInv, TypeInv, ApplyInv
<1>1. CASE Info(i)
  <2>1. At(i, "parse") /\ UNCHANGED Given BY <1>1 DEF Info, Check, Given
  <2>2. made = "ready" /\ pc[i] = 1 /\ pc[i] < 6 + Off(i)
    BY <1>0, <2>1, Positions DEF At, Off
  <2>3. CASE patch.magic /\ patch.whole
    <3>1. Proceed(i) /\ UNCHANGED <<buffer, size, slot, error>> BY <1>1, <2>3 DEF Info, Check
    <3>2. Established(pc[i] + 1) BY <2>2, <2>3 DEF Established
    <3> QED BY <2>1, <2>2, <3>1, <3>2, PassVerified
  <2>4. CASE patch.magic /\ ~patch.whole
    <3>1. Fail(i, "Truncated") BY <1>1, <2>4 DEF Info, Check
    <3>2. Verdict = {"Truncated"} BY <2>4 DEF Verdict
    <3> QED BY <2>1, <2>2, <3>1, <3>2, FailVerified DEF Errors
  <2>5. CASE ~patch.magic
    <3>1. Fail(i, "InvalidMagic") BY <1>1, <2>5 DEF Info, Check
    <3>2. Verdict = {"InvalidMagic"} BY <2>5 DEF Verdict
    <3> QED BY <2>1, <2>2, <3>1, <3>2, FailVerified DEF Errors
  <2> QED BY <2>3, <2>4, <2>5
<1>2. CASE CheckSize(i)
  <2>1. At(i, "size") /\ UNCHANGED Given BY <1>2 DEF CheckSize, Check, Given
  <2>2. made = "ready" /\ pc[i] = 2 /\ pc[i] # 0 /\ pc[i] < 6 + Off(i)
    BY <1>0, <2>1, Positions DEF At, Off
  <2>3. CASE patch.sizeA = Size[source]
    <3>1. Proceed(i) /\ UNCHANGED <<buffer, size, slot, error>> BY <1>2, <2>3 DEF CheckSize, Check
    <3>2. Established(pc[i] + 1) BY <1>0, <2>2, <2>3 DEF Established
    <3> QED BY <2>1, <2>2, <3>1, <3>2, PassVerified
  <2>4. CASE patch.sizeA # Size[source]
    <3>1. Fail(i, "SizeMismatch") BY <1>2, <2>4 DEF CheckSize, Check
    <3>2. Calm => Verdict = {"SizeMismatch"} BY <1>0, <2>2, <2>4 DEF Established, Verdict, Calm
    <3> QED BY <2>1, <2>2, <3>1, <3>2, FailVerified DEF Errors
  <2> QED BY <2>3, <2>4
<1>3. CASE CheckSource(i)
  <2>1. At(i, "hash") /\ UNCHANGED Given BY <1>3 DEF CheckSource, Check, Given
  <2>2. made = "ready" /\ pc[i] = 3 /\ pc[i] # 0 /\ pc[i] < 6 + Off(i)
    BY <1>0, <2>1, Positions DEF At, Off
  <2>3. CASE patch.hashA = source
    <3>1. Proceed(i) /\ UNCHANGED <<buffer, size, slot, error>> BY <1>3, <2>3 DEF CheckSource, Check
    <3>2. Established(pc[i] + 1) BY <1>0, <2>2, <2>3 DEF Established
    <3> QED BY <2>1, <2>2, <3>1, <3>2, PassVerified
  <2>4. CASE patch.hashA # source
    <3>1. Fail(i, "SourceHashMismatch") BY <1>3, <2>4 DEF CheckSource, Check
    <3>2. Calm => Verdict = {"SourceHashMismatch"} BY <1>0, <2>2, <2>4 DEF Established, Verdict, Calm
    <3> QED BY <2>1, <2>2, <3>1, <3>2, FailVerified DEF Errors
  <2> QED BY <2>3, <2>4
<1>4. CASE CheckLimit(i)
  <2>1. At(i, "limit") /\ UNCHANGED Given BY <1>4 DEF CheckLimit, Check, Given
  <2>2. made = "ready" /\ pc[i] = 4 /\ pc[i] # 0 /\ pc[i] < 6 + Off(i)
    BY <1>0, <2>1, Positions DEF At, Off
  <2>3. CASE ~Exceeds(patch.sizeB, ceiling)
    <3>1. Proceed(i) /\ UNCHANGED <<buffer, size, slot, error>> BY <1>4, <2>3 DEF CheckLimit, Check
    <3>2. Established(pc[i] + 1) BY <1>0, <2>2, <2>3 DEF Established
    <3> QED BY <2>1, <2>2, <3>1, <3>2, PassVerified
  <2>4. CASE Exceeds(patch.sizeB, ceiling)
    <3>1. Fail(i, "ResourceLimitExceeded") BY <1>4, <2>4 DEF CheckLimit, Check
    <3>2. Calm => Verdict = {"ResourceLimitExceeded"} BY <1>0, <2>2, <2>4 DEF Established, Verdict, Calm
    <3> QED BY <2>1, <2>2, <3>1, <3>2, FailVerified DEF Errors
  <2> QED BY <2>3, <2>4
<1>5. CASE CheckWindow(i)
  <2>1. At(i, "window") /\ UNCHANGED Given BY <1>5 DEF CheckWindow, Check, Given
  <2>2. made = "ready" /\ pc[i] > 4 /\ pc[i] # 0 /\ pc[i] < 6 + Off(i)
    BY <1>0, <2>1, Positions DEF At, Off
  <2>3. CASE WindowFits(Size[source], patch.sizeB)
    <3>1. Proceed(i) /\ UNCHANGED <<buffer, size, slot, error>> BY <1>5, <2>3 DEF CheckWindow, Check
    <3>2. Established(pc[i] + 1) BY <1>0, <2>2, <2>3 DEF Established
    <3> QED BY <2>1, <2>2, <3>1, <3>2, PassVerified
  <2>4. CASE ~WindowFits(Size[source], patch.sizeB)
    <3>1. Fail(i, "WindowTooLarge") BY <1>5, <2>4 DEF CheckWindow, Check
    <3>2. Calm => Verdict = {"WindowTooLarge"} BY <1>0, <2>2, <2>4, SMTT(60) DEF Established, Verdict, Calm
    <3> QED BY <2>1, <2>2, <3>1, <3>2, FailVerified DEF Errors
  <2> QED BY <2>3, <2>4
<1> QED BY <1>1, <1>2, <1>3, <1>4, <1>5

\* The allocation of the buffer, for which everything before was checked.
LEMMA AllocVerified ==
  ASSUME VerifiedInv, NEW i \in Impls, Alloc(i)
  PROVE  VerifiedInv'
<1>0. pc[i] \in Nat /\ pc[i] <= 9 + Off(i) /\ (pc[i] # 0 => ApplyInv(i))
  BY DEF VerifiedInv, TypeInv, ApplyInv
<1>1. At(i, "alloc") /\ UNCHANGED Given BY DEF Alloc, Given
<1>2. made = "ready" /\ pc[i] = 6 + Off(i) /\ pc[i] # 0
  BY <1>0, <1>1, Positions DEF At, Off
<1>3. CASE faulty /\ Fail(i, "OutOfMemory")
  <2>1. ~Calm BY <1>3 DEF Calm
  <2> QED BY <1>1, <1>2, <1>3, <2>1, FailVerified DEF Errors
<1>4. ASSUME NEW b \in Blobs, buffer' = [buffer EXCEPT ![i] = {b}],
             size' = [size EXCEPT ![i] = patch.sizeB], Proceed(i), UNCHANGED <<slot, error>>
      PROVE  VerifiedInv'
  <2>1. /\ pc'[i] = pc[i] + 1 /\ buffer'[i] = {b} /\ size'[i] = patch.sizeB
        /\ \A j \in Impls : j # i => pc'[j] = pc[j] /\ buffer'[j] = buffer[j] /\ size'[j] = size[j]
    BY <1>4 DEF Proceed, VerifiedInv, TypeInv
  <2>2. TypeInv' BY <1>1, <1>4 DEF Proceed, VerifiedInv, TypeInv, Given, inputs, StoredPatch
  <2>3. slot[i] = {} /\ error[i] = {} /\ Established(pc[i]) BY <1>0, <1>2 DEF ApplyInv
  <2>4. Established(pc[i])'
    BY <1>0, <1>1, <1>2, <2>1, <2>3 DEF Established, Given, inputs, Exceeds, WindowFits, Off
  <2>5. BufferState(i)' BY <1>1, <1>2, <2>1 DEF BufferState, Off, Given, inputs
  <2>6. ApplyInv(i)' BY <1>1, <1>2, <1>4, <2>1, <2>3, <2>4, <2>5, SMTT(60) DEF ApplyInv, Given, Off
  <2> QED BY <1>1, <1>4, <2>1, <2>2, <2>6, OthersKept
<1> QED BY <1>3, <1>4 DEF Alloc

\* Decompression fills the buffer with contents of its length.
LEMMA DecodeVerified ==
  ASSUME VerifiedInv, NEW i \in Impls, Decode(i)
  PROVE  VerifiedInv'
<1>0. pc[i] \in Nat /\ pc[i] <= 9 + Off(i) /\ (pc[i] # 0 => ApplyInv(i)) /\ patch \in StoredPatch
  BY DEF VerifiedInv, TypeInv, ApplyInv
<1>1. At(i, "decode") /\ UNCHANGED Given BY DEF Decode, Given
<1>2. made = "ready" /\ pc[i] = 7 + Off(i) /\ pc[i] # 0
  BY <1>0, <1>1, Positions DEF At, Off
<1>3. /\ slot[i] = {} /\ error[i] = {} /\ Established(pc[i]) /\ size[i] = patch.sizeB
  BY <1>0, <1>2, SMTT(60) DEF ApplyInv, BufferState, Off
<1>4. CASE /\ faulty \/ source # patch.prefix \/ ~\E b \in Decompressed(source) : Size[b] = size[i]
           /\ Fail(i, "DecompressionFailed")
  <2>1. ASSUME Calm PROVE ~patch.intact \/ Size[patch.content] # patch.sizeB
    BY <1>3, <1>4, <2>1 DEF Calm, Decompressed
  <2>2. Calm => Verdict = {"DecompressionFailed"}
    BY <1>2, <1>3, <2>1 DEF Calm, Established, Verdict, Off
  <2> QED BY <1>1, <1>2, <1>4, <2>2, FailVerified DEF Errors
<1>5. ASSUME NEW b \in Decompressed(source), Size[b] = size[i], buffer' = [buffer EXCEPT ![i] = {b}],
             Proceed(i), UNCHANGED <<size, slot, error>>
      PROVE  VerifiedInv'
  <2>0. /\ b \in Blobs
        /\ source = patch.prefix => patch.intact /\ b = patch.content
    BY <1>0, <1>5 DEF Decompressed, StoredPatch
  <2>1. /\ pc'[i] = pc[i] + 1 /\ buffer'[i] = {b}
        /\ \A j \in Impls : j # i => pc'[j] = pc[j] /\ buffer'[j] = buffer[j]
    BY <1>5 DEF Proceed, VerifiedInv, TypeInv
  <2>2. TypeInv' BY <1>1, <1>5, <2>0 DEF Proceed, VerifiedInv, TypeInv, Given, inputs
  <2>4. Established(pc[i])'
    BY <1>0, <1>1, <1>2, <1>3, <2>1 DEF Established, Given, inputs, Exceeds, WindowFits, Off
  <2>5. BufferState(i)' BY <1>1, <1>2, <1>3, <1>5, <2>0, <2>1, SMTT(60) DEF BufferState, Off, Given, inputs
  <2>6. ApplyInv(i)' BY <1>1, <1>2, <1>3, <1>5, <2>1, <2>4, <2>5, SMTT(60) DEF ApplyInv, Given, Off
  <2> QED BY <1>1, <1>5, <2>1, <2>2, <2>6, OthersKept
<1> QED BY <1>4, <1>5 DEF Decode

\* The comparison of the reconstruction's hash.
LEMMA TargetVerified ==
  ASSUME VerifiedInv, NEW i \in Impls, CheckTarget(i)
  PROVE  VerifiedInv'
<1>0. pc[i] \in Nat /\ pc[i] <= 9 + Off(i) /\ (pc[i] # 0 => ApplyInv(i))
  BY DEF VerifiedInv, TypeInv, ApplyInv
<1>1. At(i, "check") /\ UNCHANGED Given BY DEF CheckTarget, Check, Given
<1>2. made = "ready" /\ pc[i] = 8 + Off(i) /\ pc[i] # 0
  BY <1>0, <1>1, Positions DEF At, Off
<1>3. Established(pc[i]) /\ BufferState(i)
  BY <1>0, <1>2 DEF ApplyInv
<1>4. CASE buffer[i] = {patch.hashB}
  <2>1. Proceed(i) /\ UNCHANGED <<buffer, size, slot, error>> BY <1>4 DEF CheckTarget, Check
  <2>2. pc'[i] = pc[i] + 1 BY <2>1 DEF Proceed, VerifiedInv, TypeInv
  <2>3. Established(pc[i] + 1) BY <1>0, <1>2, <1>3, SMTT(60) DEF Established, Off
  <2>4. BufferState(i)' BY <1>1, <1>2, <1>3, <1>4, <2>1, <2>2, SMTT(60) DEF BufferState, Given, inputs, Off
  <2>5. pc[i] < 9 + Off(i) BY <1>2 DEF Off
  <2> QED BY <1>1, <1>2, <2>1, <2>3, <2>4, <2>5, ProceedVerified
<1>5. CASE buffer[i] # {patch.hashB}
  <2>1. Fail(i, "TargetHashMismatch") BY <1>5 DEF CheckTarget, Check
  <2>2. Calm => patch.intact /\ Size[patch.content] = patch.sizeB /\ patch.content # patch.hashB
    BY <1>2, <1>3, <1>5, SMTT(60) DEF Calm, BufferState, Off
  <2>3. Calm => Verdict = {"TargetHashMismatch"}
    BY <1>2, <1>3, <2>2, SMTT(60) DEF Calm, Established, Verdict, Off
  <2> QED BY <1>1, <1>2, <2>1, <2>3, FailVerified DEF Errors
<1> QED BY <1>4, <1>5

\* The result is handed over, or the port has no memory for its owner.
LEMMA OwnVerified ==
  ASSUME VerifiedInv, NEW i \in Impls, Own(i)
  PROVE  VerifiedInv'
<1>0. pc[i] \in Nat /\ pc[i] <= 9 + Off(i) /\ (pc[i] # 0 => ApplyInv(i))
  BY DEF VerifiedInv, TypeInv, ApplyInv
<1>1. At(i, "own") /\ UNCHANGED Given BY DEF Own, Given
<1>2. made = "ready" /\ pc[i] = 9 + Off(i) /\ pc[i] # 0
  BY <1>0, <1>1, Positions DEF At, Off
<1>3. CASE faulty /\ Fail(i, "OutOfMemory")
  <2>1. ~Calm BY <1>3 DEF Calm
  <2> QED BY <1>1, <1>2, <1>3, <2>1, FailVerified DEF Errors
<1>4. CASE Publish(i)
  <2>1. Established(pc[i]) /\ BufferState(i) /\ error[i] = {} BY <1>0, <1>2 DEF ApplyInv
  <2>2. /\ pc'[i] = 0 /\ slot'[i] = buffer[i] /\ UNCHANGED <<buffer, size, error>>
        /\ \A j \in Impls : j # i => pc'[j] = pc[j] /\ slot'[j] = slot[j]
    BY <1>4 DEF Publish, Return, VerifiedInv, TypeInv
  <2>3. TypeInv' BY <1>1, <1>4 DEF Publish, Return, VerifiedInv, TypeInv, Given, inputs
  <2>4. /\ buffer[i] = {patch.hashB} /\ size[i] = patch.sizeB /\ Size[patch.hashB] = patch.sizeB
        /\ Calm => patch.intact /\ patch.content = patch.hashB
    BY <1>2, <2>1, SMTT(60) DEF BufferState, Calm, Off
  <2>5. Established(6) BY <1>2, <2>1, SMTT(60) DEF Established, Off
  <2>6. Calm => Verdict = {} BY <2>4, <2>5 DEF Calm, Established, Verdict
  <2>7. Established(6)' /\ Verdict' = Verdict /\ (Calm' <=> Calm)
    BY <1>1, <2>5 DEF Given, inputs, Established, Verdict, Calm, Exceeds, WindowFits
  <2>8. Returned(i)' BY <1>1, <2>1, <2>2, <2>4, <2>6, <2>7 DEF Returned, Given
  <2>9. ApplyInv(i)' BY <1>1, <1>2, <2>2, <2>8 DEF ApplyInv, Given, Off
  <2> QED BY <1>1, <2>2, <2>3, <2>9, OthersKept
<1> QED BY <1>3, <1>4 DEF Own

\* Every step of an apply.
LEMMA ApplyVerified ==
  ASSUME VerifiedInv, NEW i \in Impls, Apply(i)
  PROVE  VerifiedInv'
<1>1. CASE Panic(i)
  <2>1. ~Calm /\ made = "ready" /\ pc[i] # 0 /\ UNCHANGED Given /\ Fail(i, "Panic")
    BY <1>1 DEF Panic, Calm, Given
  <2> QED BY <2>1, FailVerified DEF Errors
<1> QED BY <1>1, ChecksVerified, AllocVerified, DecodeVerified, TargetVerified, OwnVerified DEF Apply

\* Every step of an encode, and the delivery of the patch.
LEMMA EncodeVerified ==
  ASSUME VerifiedInv,
         EncodeWindow \/ EncodeHashSource \/ EncodeHashTarget \/ EncodeCompress \/ EncodeLimit \/ Deliver
  PROVE  VerifiedInv'
<1>0. TypeInv BY DEF VerifiedInv
<1>1. made # "ready" /\ UNCHANGED applying
  BY DEF EncodeWindow, EncodeHashSource, EncodeHashTarget, EncodeCompress, EncodeLimit, Deliver
<1>2. patch' \in StoredPatch
  <2>1. CASE EncodeWindow BY <1>0, <2>1 DEF EncodeWindow, TypeInv, StoredPatch, Logs
  <2>2. CASE EncodeHashSource BY <1>0, <2>2 DEF EncodeHashSource, TypeInv, StoredPatch
  <2>3. CASE EncodeHashTarget BY <1>0, <2>3 DEF EncodeHashTarget, TypeInv, StoredPatch
  <2>4. CASE EncodeCompress BY <1>0, <2>4 DEF EncodeCompress, TypeInv, StoredPatch
  <2>5. CASE EncodeLimit BY <1>0, <2>5 DEF EncodeLimit, TypeInv
  <2>6. CASE Deliver
    <3>1. ASSUME NEW d \in DamagedPatches PROVE d \in StoredPatch
      <4>1. \A b \in Blobs : Size[b] \in Nat BY FilePatchAssumption
      <4>2. patch \in StoredPatch BY <1>0 DEF TypeInv
      <4>3. /\ [patch EXCEPT !.magic = FALSE] \in StoredPatch
            /\ [patch EXCEPT !.whole = FALSE] \in StoredPatch
            /\ [patch EXCEPT !.intact = FALSE] \in StoredPatch
        BY <4>2 DEF StoredPatch
      <4>4. ASSUME NEW b \in Blobs
            PROVE  /\ [patch EXCEPT !.sizeA = Size[b]] \in StoredPatch
                   /\ [patch EXCEPT !.sizeB = Size[b]] \in StoredPatch
        BY <4>1, <4>2 DEF StoredPatch
      <4>5. ASSUME NEW b \in Blobs
            PROVE  /\ [patch EXCEPT !.hashA = b] \in StoredPatch
                   /\ [patch EXCEPT !.hashB = b] \in StoredPatch
                   /\ [patch EXCEPT !.prefix = b] \in StoredPatch
                   /\ [patch EXCEPT !.content = b] \in StoredPatch
        BY <4>2 DEF StoredPatch
      <4> QED BY <3>1, <4>3, <4>4, <4>5 DEF DamagedPatches
    <3> QED BY <1>0, <2>6, <3>1 DEF Deliver, TypeInv
  <2> QED BY <2>1, <2>2, <2>3, <2>4, <2>5, <2>6
<1>3. /\ source' \in Blobs /\ target' \in Blobs /\ writes' \in Nat /\ ceiling' \in Nat
      /\ faulty' \in BOOLEAN /\ damaged' \in BOOLEAN
  BY <1>0, FilePatchAssumption DEF EncodeWindow, EncodeHashSource, EncodeHashTarget, EncodeCompress,
     EncodeLimit, Deliver, TypeInv, inputs
<1>4. TypeInv' BY <1>0, <1>1, <1>2, <1>3 DEF TypeInv, applying
<1> QED BY <1>1, <1>4, BeforeDelivery

\* The invariant is inductive.
LEMMA VerifiedInductive == VerifiedInv /\ [Next]_vars => VerifiedInv'
<1> SUFFICES ASSUME VerifiedInv, [Next]_vars PROVE VerifiedInv'
  OBVIOUS
<1>1. CASE UNCHANGED vars
  <2>1. UNCHANGED Given /\ UNCHANGED <<pc, buffer, size, slot, error>>
    BY <1>1 DEF vars, Given, inputs
  <2>2. TypeInv' BY <1>1 DEF vars, VerifiedInv, TypeInv
  <2>3. \A k : Established(k)' <=> Established(k)
    BY <2>1 DEF Given, inputs, Established, Exceeds, WindowFits
  <2>4. Verdict' = Verdict /\ (Calm' <=> Calm)
    BY <2>1 DEF Given, inputs, Verdict, Calm, Exceeds, WindowFits
  <2>5. ASSUME NEW i \in Impls PROVE ApplyInv(i)'
    <3>1. ApplyInv(i) BY DEF VerifiedInv
    <3>2. BufferState(i) => BufferState(i)' BY <2>1 DEF Given, inputs, BufferState
    <3>3. Returned(i) => Returned(i)' BY <2>1, <2>3, <2>4 DEF Given, inputs, Returned
    <3> QED BY <2>1, <2>3, <3>1, <3>2, <3>3 DEF ApplyInv, Given
  <2> QED BY <2>2, <2>5 DEF VerifiedInv
<1>2. CASE Terminated
  BY <1>1, <1>2 DEF Terminated
<1> QED BY <1>1, <1>2, EncodeVerified, WriteVerified, ApplyVerified DEF Next

\* It holds in every state.
THEOREM VerifiedInvHolds == Spec => []VerifiedInv
  BY InitVerified, VerifiedInductive, PTL DEF Spec

\* Whatever is done to the patch, and to the source while it is mapped, an apply of
\* either implementation that returns 0 returns the bytes whose hash the patch names.
THEOREM OutputsVerified == Spec => []OutputVerified
<1>1. VerifiedInv => OutputVerified
  BY SMTT(60) DEF VerifiedInv, ApplyInv, Returned, Established, OutputVerified, Done
<1> QED BY <1>1, VerifiedInvHolds, PTL

\* No buffer is allocated over the ceiling or the window, or before the source was
\* checked, for every ceiling and every length a patch may state.
THEOREM BuffersBounded == Spec => []BufferBounded
<1>1. ASSUME VerifiedInv, NEW i \in Impls, buffer[i] # {}
      PROVE  /\ ~Exceeds(size[i], ceiling)
             /\ size[i] <= MaxWindow
             /\ writes = 0 => source = patch.hashA
  <2>1. ApplyInv(i) /\ pc[i] \in Nat BY <1>1 DEF VerifiedInv, TypeInv
  <2>2. Established(6) /\ size[i] = patch.sizeB
    <3>1. CASE pc[i] = 0
      <4>1. Returned(i) BY <2>1, <3>1 DEF ApplyInv
      <4> QED BY <1>1, <4>1 DEF Returned
    <3>2. CASE pc[i] # 0
      <4>1. Established(pc[i]) /\ BufferState(i) BY <2>1, <3>2 DEF ApplyInv
      <4>2. pc[i] \in Nat /\ pc[i] > 6 /\ size[i] = patch.sizeB
        BY <1>1, <2>1, <4>1 DEF BufferState, Off
      <4> QED BY <4>1, <4>2, SMTT(60) DEF Established
    <3> QED BY <3>1, <3>2
  <2> QED BY <2>2 DEF Established, WindowFits
<1>2. VerifiedInv => BufferBounded BY <1>1 DEF BufferBounded
<1> QED BY <1>2, VerifiedInvHolds, PTL

\* A failed apply of either implementation holds no memory and has not touched the
\* caller's slot; a successful one has handed over its one buffer.
THEOREM FailuresHoldNothing == Spec => []NothingHeldOnFailure
<1>1. VerifiedInv => NothingHeldOnFailure
  BY DEF VerifiedInv, ApplyInv, Returned, NothingHeldOnFailure, Done
<1> QED BY <1>1, VerifiedInvHolds, PTL

\* With the encoder's source and nothing to disturb them, the port and the reference
\* give the same answer to every patch, damaged or not.
THEOREM PortsAgree == Spec => []PortAgrees
<1>1. ASSUME VerifiedInv, Impls = {"zig", "rust"}, \A i \in Impls : Done(i), Calm
      PROVE  error["zig"] = error["rust"] /\ slot["zig"] = slot["rust"]
  BY <1>1 DEF VerifiedInv, ApplyInv, Returned, Done
<1>2. \A e : (ZigStatus(e) = 0) <=> (e = {})
  BY DEF ZigStatus
<1>3. \A e : (RustStatus(e) = 0) <=> (e = {})
  BY DEF RustStatus
<1>4. \A e : ZigStatus(e) = -4 => e = {"ResourceLimitExceeded"}
  BY DEF ZigStatus
<1>5. RustStatus({"ResourceLimitExceeded"}) = -4
  BY DEF RustStatus
<1>6. VerifiedInv => PortAgrees
  BY <1>1, <1>2, <1>3, <1>4, <1>5 DEF PortAgrees, Calm
<1> QED BY <1>6, VerifiedInvHolds, PTL

-----------------------------------------------------------------------------
(* Round trips.                                                            *)

Encoding == {"window", "hashSource", "hashTarget", "compress", "limit", "stored"}

\* The fields of a patch that was made from inputs that did not change, and was
\* not damaged, at each step of encode.
EncodedInv ==
    /\ made \in Encoding \cup {"ready", "failed", "tooLarge"}
    /\ made # "ready" => ~damaged
    /\ ~damaged /\ writes = 0 /\ made \notin {"failed", "tooLarge"} =>
          /\ patch.magic /\ patch.whole /\ patch.intact
          /\ patch.sizeB = Size[target]
          /\ made \in Encoding => patch.sizeA = Size[source]
          /\ made # "window" => WindowFits(patch.sizeA, patch.sizeB)
          /\ made \in Encoding \ {"window", "hashSource"} => patch.hashA = source
          /\ made \notin {"window", "hashSource"} => patch.sizeA = Size[patch.hashA]
          /\ made \in {"compress", "limit", "stored", "ready"} => patch.hashB = target
          /\ made \in {"limit", "stored", "ready"} => patch.prefix = patch.hashA /\ patch.content = target

\* encode describes the inputs it was given.
LEMMA EncodedHolds == Spec => []EncodedInv
<1>1. Init => EncodedInv
  BY DEF Init, EncodedInv, Encoding
<1>2. VerifiedInv /\ EncodedInv /\ [Next]_vars => EncodedInv'
  <2> SUFFICES ASSUME VerifiedInv, EncodedInv, [Next]_vars PROVE EncodedInv'
    OBVIOUS
  <2>0. patch \in StoredPatch /\ writes \in Nat BY DEF VerifiedInv, TypeInv
  <2>1. CASE UNCHANGED <<inputs, patch, made, damaged>>
    BY <2>1 DEF EncodedInv, inputs, WindowFits
  <2>2. CASE EncodeWindow
    <3>1. CASE WindowFits(patch.sizeA, patch.sizeB)
      <4>1. /\ made = "window" /\ made' = "hashSource" /\ UNCHANGED <<inputs, damaged>>
            /\ patch' = [patch EXCEPT !.log = WindowLog(patch.sizeA, patch.sizeB)]
        BY <2>2, <3>1 DEF EncodeWindow
      <4>2. /\ patch'.magic = patch.magic /\ patch'.whole = patch.whole /\ patch'.intact = patch.intact
            /\ patch'.sizeA = patch.sizeA /\ patch'.sizeB = patch.sizeB
        BY <2>0, <4>1 DEF StoredPatch
      <4> QED BY <3>1, <4>1, <4>2 DEF EncodedInv, Encoding, inputs, WindowFits
    <3>2. CASE ~WindowFits(patch.sizeA, patch.sizeB)
      BY <2>2, <3>2 DEF EncodeWindow, EncodedInv
    <3> QED BY <3>1, <3>2
  <2>3. CASE EncodeHashSource
    <3>1. /\ made = "hashSource" /\ made' = "hashTarget" /\ UNCHANGED <<inputs, damaged>>
          /\ patch' = [patch EXCEPT !.hashA = source]
      BY <2>3 DEF EncodeHashSource
    <3>2. /\ patch'.magic = patch.magic /\ patch'.whole = patch.whole /\ patch'.intact = patch.intact
          /\ patch'.sizeA = patch.sizeA /\ patch'.sizeB = patch.sizeB /\ patch'.hashA = source
      BY <2>0, <3>1 DEF StoredPatch
    <3> QED BY <3>1, <3>2 DEF EncodedInv, Encoding, inputs, WindowFits
  <2>4. CASE EncodeHashTarget
    <3>1. /\ made = "hashTarget" /\ made' = "compress" /\ UNCHANGED <<inputs, damaged>>
          /\ patch' = [patch EXCEPT !.hashB = target]
      BY <2>4 DEF EncodeHashTarget
    <3>2. /\ patch'.magic = patch.magic /\ patch'.whole = patch.whole /\ patch'.intact = patch.intact
          /\ patch'.sizeA = patch.sizeA /\ patch'.sizeB = patch.sizeB /\ patch'.hashA = patch.hashA
          /\ patch'.hashB = target
      BY <2>0, <3>1 DEF StoredPatch
    <3> QED BY <3>1, <3>2 DEF EncodedInv, Encoding, inputs, WindowFits
  <2>5. CASE EncodeCompress
    <3>1. CASE made' = "failed" BY <2>5, <3>1 DEF EncodeCompress, EncodedInv
    <3>2. CASE made' # "failed"
      <4>1. /\ made = "compress" /\ made' = "limit" /\ UNCHANGED <<inputs, damaged>>
            /\ patch' = [patch EXCEPT !.prefix = source, !.content = target]
        BY <2>5, <3>2 DEF EncodeCompress
      <4>2. /\ patch'.magic = patch.magic /\ patch'.whole = patch.whole /\ patch'.intact = patch.intact
            /\ patch'.sizeA = patch.sizeA /\ patch'.sizeB = patch.sizeB /\ patch'.hashA = patch.hashA
            /\ patch'.hashB = patch.hashB /\ patch'.prefix = source /\ patch'.content = target
        BY <2>0, <4>1 DEF StoredPatch
      <4> QED BY <4>1, <4>2 DEF EncodedInv, Encoding, inputs, WindowFits
    <3> QED BY <3>1, <3>2
  <2>6. CASE EncodeLimit
    BY <2>6 DEF EncodeLimit, EncodedInv, Encoding, inputs, WindowFits
  <2>7. CASE Deliver
    <3>1. /\ made = "stored" /\ made' = "ready" /\ target' = target /\ writes' = writes
          /\ ~damaged' => ~damaged /\ patch' = patch
      BY <2>7 DEF Deliver, EncodedInv
    <3> QED BY <3>1 DEF EncodedInv, Encoding, WindowFits
  <2>8. CASE ExternalWrite
    <3>1. writes' # 0 /\ made' = made /\ damaged' = damaged BY <2>0, <2>8 DEF ExternalWrite
    <3> QED BY <3>1 DEF EncodedInv
  <2>9. ASSUME NEW i \in Impls, Apply(i) PROVE UNCHANGED <<inputs, patch, made, damaged>>
    BY <2>9, Zenon DEF Apply, Info, CheckSize, CheckSource, CheckLimit, CheckWindow, Check, Alloc, Decode,
                CheckTarget, Own, Panic
  <2>10. CASE Terminated \/ UNCHANGED vars
    BY <2>1, <2>10 DEF Terminated, vars, inputs
  <2> QED BY <2>1, <2>2, <2>3, <2>4, <2>5, <2>6, <2>7, <2>8, <2>9, <2>10 DEF Next
<1> QED BY <1>1, <1>2, VerifiedInvHolds, PTL DEF Spec

\* For every pair of contents within the window: the patch that encode makes turns its
\* source into its target, unless the ceiling forbids it, in both implementations.
THEOREM AlwaysRoundTrips == Spec => []RoundTrips
<1>1. ASSUME VerifiedInv, EncodedInv, NEW i \in Impls, Done(i), ~damaged, Calm
      PROVE  IF Exceeds(Size[target], ceiling) THEN error[i] = {"ResourceLimitExceeded"}
             ELSE error[i] = {} /\ slot[i] = {target}
  <2>1. error[i] = Verdict /\ (error[i] = {} => slot[i] = {patch.hashB})
    BY <1>1 DEF VerifiedInv, ApplyInv, Returned, Done
  <2>2. /\ patch.magic /\ patch.whole /\ patch.intact /\ patch.sizeB = Size[target]
        /\ patch.hashA = source /\ patch.sizeA = Size[source] /\ patch.hashB = target
        /\ patch.content = target /\ WindowFits(patch.sizeA, patch.sizeB)
    BY <1>1 DEF EncodedInv, Calm, Done
  <2>3. CASE Exceeds(Size[target], ceiling)
    <3>1. Verdict = {"ResourceLimitExceeded"} BY <2>2, <2>3 DEF Verdict
    <3> QED BY <2>1, <2>3, <3>1
  <2>4. CASE ~Exceeds(Size[target], ceiling)
    <3>1. Verdict = {} BY <2>2, <2>4 DEF Verdict
    <3> QED BY <2>1, <2>2, <2>4, <3>1
  <2> QED BY <2>3, <2>4
<1>2. VerifiedInv /\ EncodedInv => RoundTrips
  BY <1>1 DEF RoundTrips, Calm
<1> QED BY <1>2, VerifiedInvHolds, EncodedHolds, PTL

-----------------------------------------------------------------------------
(* The window.  Facts about all numbers are proved by their least          *)
(* counterexample.                                                         *)

LEMMA LeastOf ==
  ASSUME NEW T \in SUBSET Nat, T # {}
  PROVE  \E n \in T : \A m \in T : n <= m
<1>1. IsWellFoundedOn(OpToRel(<, Nat), Nat)
  BY NatLessThanWellFounded
<1>2. \A m, n \in Nat : <<m, n>> \in OpToRel(<, Nat) <=> m < n
  BY DEF OpToRel
<1>3. PICK R : IsWellFoundedOn(R, Nat) /\ \A m, n \in Nat : <<m, n>> \in R <=> m < n
  BY <1>1, <1>2, Zenon
<1>4. IsWellFoundedOn(R, Nat)
  BY <1>3, Zenon
<1>5. \A m, n \in Nat : <<m, n>> \in R <=> m < n
  BY <1>3, Zenon
<1>6. PICK n \in T : \A m \in T : ~(<<m, n>> \in R)
  BY <1>4, WFMin, Zenon
<1>7. n \in Nat /\ \A m \in T : m \in Nat /\ ~(m < n)
  BY <1>5, <1>6
<1> QED BY <1>7

\* f doubles up to n.
Doubles(n, f) == f = [k \in 0..n |-> IF k = 0 THEN 1 ELSE 2 * f[k - 1]]

LEMMA DoublesExist == \A n \in Nat : \E f \in [0..n -> Nat] : Doubles(n, f)
<1> DEFINE T == {n \in Nat : ~\E f \in [0..n -> Nat] : Doubles(n, f)}
<1> SUFFICES ASSUME T # {} PROVE FALSE
  OBVIOUS
<1>1. PICK n \in T : \A m \in T : n <= m
  BY LeastOf
<1>2. n # 0
  <2>1. Doubles(0, [k \in 0..0 |-> 1]) BY DEF Doubles
  <2> QED BY <2>1
<1>3. n - 1 \in Nat /\ n - 1 \notin T
  BY <1>1, <1>2
<1>4. PICK f \in [0..(n - 1) -> Nat] : Doubles(n - 1, f)
  BY <1>3
<1> DEFINE g == [k \in 0..n |-> IF k = n THEN 2 * f[n - 1] ELSE f[k]]
<1>5. g \in [0..n -> Nat] BY <1>2, <1>4
<1>6. Doubles(n, g) BY <1>2, <1>4 DEF Doubles
<1> QED BY <1>5, <1>6

LEMMA DoublesUnique ==
  ASSUME NEW m \in Nat, NEW n \in Nat, NEW f \in [0..m -> Nat], NEW g \in [0..n -> Nat],
         Doubles(m, f), Doubles(n, g)
  PROVE  \A k \in 0..m : k <= n => f[k] = g[k]
<1> DEFINE T == {k \in Nat : k <= m /\ k <= n /\ f[k] # g[k]}
<1> SUFFICES ASSUME T # {} PROVE FALSE
  OBVIOUS
<1>1. PICK k \in T : \A j \in T : k <= j
  BY LeastOf
<1>2. k # 0 BY DEF Doubles
<1>3. f[k - 1] = g[k - 1] BY <1>1, <1>2
<1> QED BY <1>2, <1>3 DEF Doubles

\* The recursion of PowerOfTwo has a solution.
LEMMA PowerOfTwoDef ==
  /\ PowerOfTwo \in [Nat -> Nat]
  /\ PowerOfTwo[0] = 1
  /\ \A k \in Nat : PowerOfTwo[k + 1] = 2 * PowerOfTwo[k]
<1> DEFINE up == [n \in Nat |-> CHOOSE f \in [0..n -> Nat] : Doubles(n, f)]
           p == [n \in Nat |-> up[n][n]]
<1>1. \A n \in Nat : up[n] \in [0..n -> Nat] /\ Doubles(n, up[n])
  BY DoublesExist
<1> HIDE DEF up
<1>2. ASSUME NEW n \in Nat, n # 0 PROVE up[n][n - 1] = up[n - 1][n - 1]
  <2>1. n - 1 \in Nat BY <1>2
  <2>2. \A k \in 0..n : k <= n - 1 => up[n][k] = up[n - 1][k]
    BY <1>1, <2>1, DoublesUnique
  <2> QED BY <2>1, <2>2
<1>3. ASSUME NEW n \in Nat PROVE p[n] = IF n = 0 THEN 1 ELSE 2 * p[n - 1]
  <2>1. up[n] = [k \in 0..n |-> IF k = 0 THEN 1 ELSE 2 * up[n][k - 1]]
    BY <1>1 DEF Doubles
  <2>2. up[n][n] = IF n = 0 THEN 1 ELSE 2 * up[n][n - 1]
    BY <2>1
  <2> QED BY <1>2, <2>2
<1>4. p = [n \in Nat |-> IF n = 0 THEN 1 ELSE 2 * p[n - 1]]
  BY <1>3
<1>5. \E f : f = [n \in Nat |-> IF n = 0 THEN 1 ELSE 2 * f[n - 1]]
  BY <1>4, Zenon
<1>6. PowerOfTwo = [n \in Nat |-> IF n = 0 THEN 1 ELSE 2 * PowerOfTwo[n - 1]]
  BY <1>5, Zenon DEF PowerOfTwo
<1> DEFINE T == {n \in Nat : PowerOfTwo[n] \notin Nat}
<1>7. T = {}
  <2> SUFFICES ASSUME T # {} PROVE FALSE
    OBVIOUS
  <2>1. PICK n \in T : \A m \in T : n <= m
    BY LeastOf
  <2>2. n # 0 BY <1>6
  <2>3. PowerOfTwo[n - 1] \in Nat BY <2>1, <2>2
  <2> QED BY <1>6, <2>2, <2>3
<1>8. \A n \in Nat : PowerOfTwo[n] \in Nat BY <1>7
<1> QED BY <1>6, <1>8

LEMMA PowerOfTwoMonotone ==
  ASSUME NEW m \in Nat, NEW n \in Nat, m <= n
  PROVE  PowerOfTwo[m] <= PowerOfTwo[n]
<1> DEFINE T == {k \in Nat : m <= k /\ ~(PowerOfTwo[m] <= PowerOfTwo[k])}
<1> SUFFICES ASSUME T # {} PROVE FALSE
  BY PowerOfTwoDef
<1>1. PICK k \in T : \A j \in T : k <= j
  BY LeastOf
<1>2. k # m BY PowerOfTwoDef
<1>3. k - 1 \in Nat /\ m <= k - 1 /\ k - 1 \notin T BY <1>1, <1>2
<1>4. PowerOfTwo[m] <= PowerOfTwo[k - 1] BY <1>3
<1>5. PowerOfTwo[(k - 1) + 1] = 2 * PowerOfTwo[k - 1] BY <1>3, PowerOfTwoDef
<1>6. (k - 1) + 1 = k OBVIOUS
<1>7. PowerOfTwo[m] \in Nat /\ PowerOfTwo[k - 1] \in Nat /\ PowerOfTwo[k] \in Nat
  BY <1>3, PowerOfTwoDef
<1> QED BY <1>4, <1>5, <1>6, <1>7

\* 64 - @clz(n) is the bit length of n.
LEMMA BitLengthIs ==
  ASSUME NEW n \in Nat, n <= MaxWindow
  PROVE  /\ BitLength(n) \in 0..(LogMax + 1)
         /\ n < PowerOfTwo[BitLength(n)]
         /\ BitLength(n) # 0 => PowerOfTwo[BitLength(n) - 1] <= n
<1> DEFINE T == {k \in Nat : n < PowerOfTwo[k]}
<1>1. LogMax + 1 \in T
  <2>1. PowerOfTwo[LogMax + 1] = 2 * PowerOfTwo[LogMax] /\ PowerOfTwo[LogMax] \in Nat
    BY FilePatchAssumption, PowerOfTwoDef
  <2>2. PowerOfTwo[0] = 1 /\ PowerOfTwo[0] <= PowerOfTwo[LogMax]
    BY FilePatchAssumption, PowerOfTwoDef, PowerOfTwoMonotone
  <2> QED BY <2>1, <2>2, FilePatchAssumption DEF MaxWindow
<1>2. PICK k \in T : \A j \in T : k <= j
  BY <1>1, LeastOf
<1>3. k \in 0..(LogMax + 1) BY <1>1, <1>2, FilePatchAssumption
<1>4. n < PowerOfTwo[k] /\ (k = 0 \/ PowerOfTwo[k - 1] <= n)
  <2>1. k # 0 => k - 1 \in Nat /\ k - 1 \notin T BY <1>2
  <2>2. k # 0 => PowerOfTwo[k - 1] \in Nat BY <2>1, PowerOfTwoDef
  <2> QED BY <2>1, <2>2
<1>5. \E j \in 0..(LogMax + 1) : n < PowerOfTwo[j] /\ (j = 0 \/ PowerOfTwo[j - 1] <= n)
  BY <1>3, <1>4
<1> QED BY <1>5 DEF BitLength

\* The comment on patchWindowLog, of the function itself.
LEMMA WindowLogIs ==
  ASSUME NEW a \in Nat, NEW b \in Nat, WindowFits(a, b)
  PROVE  /\ WindowLog(a, b) \in LogMin..LogMax
         /\ a <= PowerOfTwo[WindowLog(a, b)] /\ b <= PowerOfTwo[WindowLog(a, b)]
         /\ PowerOfTwo[WindowLog(a, b)] <= MaxWindow
<1> DEFINE n == Larger(a, b)
           raw == BitLength(n)
<1>1. n \in Nat /\ n <= MaxWindow /\ a <= n /\ b <= n BY DEF Larger, WindowFits
<1> HIDE DEF n
<1>2. raw \in 0..(LogMax + 1) /\ n < PowerOfTwo[raw] BY <1>1, BitLengthIs
<1>3. WindowLog(a, b) = IF raw < LogMin THEN LogMin ELSE IF raw > LogMax THEN LogMax ELSE raw
  BY DEF WindowLog, n
<1> HIDE DEF raw
<1>4. WindowLog(a, b) \in LogMin..LogMax BY <1>2, <1>3, FilePatchAssumption
<1>5. PowerOfTwo[WindowLog(a, b)] <= MaxWindow
  BY <1>4, FilePatchAssumption, PowerOfTwoMonotone DEF MaxWindow
<1>6. n <= PowerOfTwo[WindowLog(a, b)]
  <2>1. CASE raw > LogMax
    BY <1>1, <1>2, <1>3, <2>1, FilePatchAssumption DEF MaxWindow
  <2>2. CASE ~(raw > LogMax)
    <3>1. raw \in Nat /\ WindowLog(a, b) \in Nat /\ raw <= WindowLog(a, b)
      BY <1>2, <1>3, <2>2, FilePatchAssumption
    <3>2. PowerOfTwo[raw] <= PowerOfTwo[WindowLog(a, b)] BY <3>1, PowerOfTwoMonotone
    <3>3. PowerOfTwo[raw] \in Nat /\ PowerOfTwo[WindowLog(a, b)] \in Nat BY <3>1, PowerOfTwoDef
    <3> QED BY <1>1, <1>2, <3>2, <3>3
  <2> QED BY <2>1, <2>2
<1>7. PowerOfTwo[WindowLog(a, b)] \in Nat BY <1>4, FilePatchAssumption, PowerOfTwoDef
<1> QED BY <1>1, <1>4, <1>5, <1>6, <1>7

\* From patchWindowLog to delivery, the frame's window is the one of the source
\* that is mapped, whatever is written to it.
WindowInv ==
    /\ made \in Encoding => patch.sizeA = Size[source]
    /\ made \in Encoding \ {"window"} =>
          /\ WindowFits(patch.sizeA, patch.sizeB)
          /\ patch.log = WindowLog(patch.sizeA, patch.sizeB)

LEMMA WindowInvHolds == Spec => []WindowInv
<1>1. Init => WindowInv
  BY DEF Init, WindowInv, Encoding
<1>2. VerifiedInv /\ WindowInv /\ [Next]_vars => WindowInv'
  <2> SUFFICES ASSUME VerifiedInv, WindowInv, [Next]_vars PROVE WindowInv'
    OBVIOUS
  <2>0. patch \in StoredPatch BY DEF VerifiedInv, TypeInv
  <2>1. CASE /\ Size[source'] = Size[source] /\ made' = made
             /\ patch'.sizeA = patch.sizeA /\ patch'.sizeB = patch.sizeB /\ patch'.log = patch.log
    BY <2>1 DEF WindowInv, WindowFits
  <2>2. CASE EncodeWindow
    <3>1. CASE WindowFits(patch.sizeA, patch.sizeB)
      <4>1. /\ made = "window" /\ made' = "hashSource" /\ source' = source
            /\ patch' = [patch EXCEPT !.log = WindowLog(patch.sizeA, patch.sizeB)]
        BY <2>2, <3>1 DEF EncodeWindow, inputs
      <4>2. /\ patch'.sizeA = patch.sizeA /\ patch'.sizeB = patch.sizeB
            /\ patch'.log = WindowLog(patch.sizeA, patch.sizeB)
        BY <2>0, <4>1 DEF StoredPatch
      <4> QED BY <3>1, <4>1, <4>2 DEF WindowInv, Encoding, WindowFits
    <3>2. CASE ~WindowFits(patch.sizeA, patch.sizeB)
      BY <2>2, <3>2 DEF EncodeWindow, WindowInv, Encoding
    <3> QED BY <3>1, <3>2
  <2>3. CASE EncodeHashSource \/ EncodeHashTarget \/ EncodeCompress \/ EncodeLimit
    <3>1. /\ made \in Encoding \ {"window"} /\ source' = source
          /\ patch'.sizeA = patch.sizeA /\ patch'.sizeB = patch.sizeB /\ patch'.log = patch.log
      BY <2>0, <2>3 DEF EncodeHashSource, EncodeHashTarget, EncodeCompress, EncodeLimit,
                        inputs, StoredPatch, Encoding
    <3> QED BY <3>1 DEF WindowInv, Encoding, WindowFits
  <2>4. CASE Deliver
    BY <2>4 DEF Deliver, WindowInv, Encoding
  <2>5. CASE ExternalWrite
    BY <2>1, <2>5 DEF ExternalWrite
  <2>6. ASSUME NEW i \in Impls, Apply(i) PROVE WindowInv'
    <3>1. UNCHANGED <<inputs, patch, made>>
      BY <2>6, Zenon DEF Apply, Info, CheckSize, CheckSource, CheckLimit, CheckWindow, Check, Alloc, Decode,
                  CheckTarget, Own, Panic
    <3> QED BY <2>1, <3>1 DEF inputs
  <2>7. CASE Terminated \/ UNCHANGED vars
    BY <2>1, <2>7 DEF Terminated, vars
  <2> QED BY <2>2, <2>3, <2>4, <2>5, <2>6, <2>7 DEF Next
<1> QED BY <1>1, <1>2, VerifiedInvHolds, PTL DEF Spec

\* For all lengths and all limits of the codec: while a frame is made, and when
\* it is stored, its window reaches from the start of the target to the first
\* byte of the source, and is one a decoder accepts.
THEOREM PrefixesInWindow == Spec => []PrefixInWindow
<1>1. VerifiedInv /\ WindowInv => PrefixInWindow
  <2> SUFFICES ASSUME VerifiedInv, WindowInv, made \in {"compress", "limit", "stored"}
               PROVE  Size[source] <= PowerOfTwo[patch.log] /\ PowerOfTwo[patch.log] <= MaxWindow
    BY DEF PrefixInWindow
  <2>1. patch.sizeA \in Nat /\ patch.sizeB \in Nat BY DEF VerifiedInv, TypeInv, StoredPatch
  <2>2. /\ patch.sizeA = Size[source] /\ WindowFits(patch.sizeA, patch.sizeB)
        /\ patch.log = WindowLog(patch.sizeA, patch.sizeB)
    BY DEF WindowInv, Encoding
  <2> QED BY <2>1, <2>2, WindowLogIs
<1> QED BY <1>1, VerifiedInvHolds, WindowInvHolds, PTL
=============================================================================
