------------------------------ MODULE FilePatch ------------------------------
(***************************************************************************)
(* File patches (ZDIF v4): zstd_patch.encode and applyLimited behind       *)
(* difz_diff_limited and difz_patch_limited (src/src), and the Rust port   *)
(* behind difz_file_encode and difz_file_apply (src/rust).  Both           *)
(* implementations apply the same patch, so that their answers can be      *)
(* compared.  The command line maps its input files, so another program    *)
(* can change the bytes between two reads of the same input.               *)
(*                                                                         *)
(* A blob stands for the contents of a file and for its BLAKE3 hash.  A    *)
(* frame is the prefix it was made with and the contents it decodes to.    *)
(***************************************************************************)
EXTENDS Integers, Sequences

CONSTANTS
    Blobs, Size,        \* contents and their lengths
    LogMin, LogMax,     \* ZSTD_WINDOWLOG_MIN and ZSTD_WINDOWLOG_MAX
    PatchLengths,       \* lengths an encoded patch may have
    Ceilings,           \* max_output_bytes; 0 is unlimited
    Impls,              \* the implementations that apply: a subset of {"zig", "rust"}
    MaxWrites,          \* writes by another program to the mapped source
    Damages,            \* may a stored patch be damaged?
    Faults              \* may allocations and the codec fail, and Rust panic?  A set of answers

ASSUME FilePatchAssumption ==
    /\ Size \in [Blobs -> Nat]
    /\ LogMin \in Nat /\ LogMax \in Nat /\ LogMin <= LogMax
    /\ MaxWrites \in Nat
    /\ PatchLengths \subseteq Nat /\ Ceilings \subseteq Nat
    /\ Impls \subseteq {"zig", "rust"}
    /\ Damages \in BOOLEAN /\ Faults \subseteq BOOLEAN

\* 1 << k.
PowerOfTwo[k \in Nat] == IF k = 0 THEN 1 ELSE 2 * PowerOfTwo[k - 1]

\* 1 << window_log_max, MAX_INPUT_LEN.
MaxWindow == PowerOfTwo[LogMax]

VARIABLES
    source, target,     \* what the mapped inputs hold now
    patch,              \* the patch's fields
    made,               \* where encode is, or what it answered
    damaged, writes,
    faulty,             \* may calls of this run fail?
    ceiling,            \* max_output_bytes of the call that runs
    pc,                 \* pc[i]: the step implementation i's apply is at, 0 when it returned
    buffer,             \* buffer[i]: i's reconstruction buffer: {} or {what it holds}
    size,               \* size[i]: the length of that buffer
    slot,               \* slot[i]: what the caller's result slot points to
    error               \* error[i]: the error i's apply met

vars == <<source, target, patch, made, damaged, writes, faulty, ceiling, pc, buffer, size, slot, error>>
inputs == <<source, target, writes, faulty>>
applying == <<pc, buffer, size, slot, error>>

Patch == [magic : BOOLEAN, whole : BOOLEAN, sizeA : Nat, sizeB : Nat, hashA : Blobs,
          hashB : Blobs, prefix : Blobs, content : Blobs, intact : BOOLEAN,
          log : LogMin..LogMax]

Optional(S) == {{}} \cup {{x} : x \in S}

Errors == {"InvalidMagic", "Truncated", "SizeMismatch", "SourceHashMismatch",
           "ResourceLimitExceeded", "WindowTooLarge", "OutOfMemory",
           "DecompressionFailed", "TargetHashMismatch", "Panic"}

TypeOK ==
    /\ {source, target} \subseteq Blobs
    /\ patch \in Patch
    /\ made \in {"window", "hashSource", "hashTarget", "compress", "limit",
                 "stored", "ready", "failed", "tooLarge"}
    /\ damaged \in BOOLEAN /\ writes \in 0..MaxWrites /\ ceiling \in Ceilings
    /\ pc \in [Impls -> 0..10]
    /\ {buffer, slot} \subseteq [Impls -> Optional(Blobs)]
    /\ size \in [Impls -> Nat]
    /\ error \in [Impls -> Optional(Errors)]

Init ==
    /\ source \in Blobs /\ target \in Blobs
    /\ LET b == CHOOSE b \in Blobs : TRUE IN
          patch = [magic |-> TRUE, whole |-> TRUE, sizeA |-> Size[source], sizeB |-> Size[target],
                   hashA |-> b, hashB |-> b, prefix |-> b, content |-> b, intact |-> TRUE,
                   log |-> LogMin]
    /\ made = "window" /\ damaged = FALSE /\ writes = 0
    /\ faulty \in Faults /\ ceiling \in Ceilings
    /\ pc = [i \in Impls |-> 1]
    /\ buffer = [i \in Impls |-> {}] /\ slot = buffer
    /\ size = [i \in Impls |-> 0]
    /\ error = [i \in Impls |-> {}]

\* Fault: the buffer is allocated before the ceiling is looked at.
ZigStepsAllocFirst ==
    <<"parse", "size", "hash", "alloc", "limit", "window", "decode", "check", "own">>

\* The steps of applyLimited, in its order, and difz_patch_limited's last one.
ZigSteps == <<"parse", "size", "hash", "limit", "window", "alloc", "decode", "check", "own">>

\* Fault: the ceiling is looked at before the source.
RustStepsLimitFirst ==
    <<"parse", "limit", "size", "hash", "window", "window", "alloc", "decode", "check", "own">>

\* The steps of file::apply, of the decode it calls, and of produce.
RustSteps ==
    <<"parse", "size", "hash", "limit", "window", "window", "alloc", "decode", "check", "own">>

Steps(i) == IF i = "zig" THEN ZigSteps ELSE RustSteps

At(i, step) == made = "ready" /\ pc[i] # 0 /\ Steps(i)[pc[i]] = step

-----------------------------------------------------------------------------
(* Encoding.                                                               *)

\* patchWindowLog accepts the pair of lengths.
WindowFits(a, b) == a <= MaxWindow /\ b <= MaxWindow

Larger(a, b) == IF a < b THEN b ELSE a

\* Fault: floor(log2(n)), without the one.
BitLengthShort(n) ==
    CHOOSE k \in 0..LogMax : n < PowerOfTwo[k + 1] /\ (k = 0 \/ PowerOfTwo[k] <= n)

\* 64 - @clz(n).
BitLength(n) ==
    CHOOSE k \in 0..(LogMax + 1) : n < PowerOfTwo[k] /\ (k = 0 \/ PowerOfTwo[k - 1] <= n)

\* patchWindowLog of two lengths that fit.
WindowLog(a, b) ==
    LET raw == BitLength(Larger(a, b))
    IN  IF raw < LogMin THEN LogMin ELSE IF raw > LogMax THEN LogMax ELSE raw

Exceeds(n, max) == max # 0 /\ n > max

EncodeWindow ==
    /\ made = "window"
    /\ \/ /\ WindowFits(patch.sizeA, patch.sizeB)
          /\ patch' = [patch EXCEPT !.log = WindowLog(patch.sizeA, patch.sizeB)]
          /\ made' = "hashSource"
       \/ /\ ~WindowFits(patch.sizeA, patch.sizeB)
          /\ made' = "failed"
          /\ UNCHANGED patch
    /\ UNCHANGED <<inputs, damaged, ceiling, applying>>

EncodeHashSource ==
    /\ made = "hashSource"
    /\ patch' = [patch EXCEPT !.hashA = source]
    /\ made' = "hashTarget"
    /\ UNCHANGED <<inputs, damaged, ceiling, applying>>

EncodeHashTarget ==
    /\ made = "hashTarget"
    /\ patch' = [patch EXCEPT !.hashB = target]
    /\ made' = "compress"
    /\ UNCHANGED <<inputs, damaged, ceiling, applying>>

\* The prefix is referenced earlier, and read here.
EncodeCompress ==
    /\ made = "compress"
    /\ \/ patch' = [patch EXCEPT !.prefix = source, !.content = target] /\ made' = "limit"
       \/ faulty /\ made' = "failed" /\ UNCHANGED patch
    /\ UNCHANGED <<inputs, damaged, ceiling, applying>>

\* difz_diff_limited and difz_file_encode free a patch that is too long.
EncodeLimit ==
    /\ made = "limit"
    /\ \E n \in PatchLengths : made' = IF Exceeds(n, ceiling) THEN "tooLarge" ELSE "stored"
    /\ UNCHANGED <<inputs, patch, damaged, ceiling, applying>>

\* A patch whose stored bytes differ from the encoded ones in one field.
DamagedPatches ==
    {[patch EXCEPT !.magic = FALSE], [patch EXCEPT !.whole = FALSE],
     [patch EXCEPT !.intact = FALSE]}
    \cup {[patch EXCEPT !.sizeA = Size[b]] : b \in Blobs}
    \cup {[patch EXCEPT !.sizeB = Size[b]] : b \in Blobs}
    \cup {[patch EXCEPT !.hashA = b] : b \in Blobs}
    \cup {[patch EXCEPT !.hashB = b] : b \in Blobs}
    \cup {[patch EXCEPT !.prefix = b] : b \in Blobs}
    \cup {[patch EXCEPT !.content = b] : b \in Blobs}

\* Later, apply is called with some source, a ceiling of its own, and the patch
\* as it is read back.
Deliver ==
    /\ made = "stored"
    /\ source' \in Blobs
    /\ ceiling' \in Ceilings
    /\ \/ UNCHANGED <<patch, damaged>>
       \/ Damages /\ patch' \in DamagedPatches /\ damaged' = (patch' # patch)
    /\ made' = "ready"
    /\ UNCHANGED <<target, writes, faulty, applying>>

\* Another program writes to a mapped source while difz reads it.
ExternalWrite ==
    /\ writes < MaxWrites
    /\ \/ made \in {"hashTarget", "compress"}
       \/ made = "ready" /\ \E i \in Impls : At(i, "limit") \/ At(i, "window") \/ At(i, "alloc") \/ At(i, "decode")
    /\ source' \in {b \in Blobs : Size[b] = Size[source]}
    /\ writes' = writes + 1
    /\ UNCHANGED <<target, faulty, patch, made, damaged, ceiling, applying>>

-----------------------------------------------------------------------------
(* Applying.                                                               *)

Proceed(i) == pc' = [pc EXCEPT ![i] = @ + 1]

Return(i) == pc' = [pc EXCEPT ![i] = 0]

\* Fault: no errdefer.
FailKeepsBuffer(i, e) ==
    /\ Return(i)
    /\ error' = [error EXCEPT ![i] = {e}]
    /\ UNCHANGED <<buffer, size, slot>>

\* An error return: the errdefer, or the drop of the Vec, frees the buffer.
Fail(i, e) ==
    /\ Return(i)
    /\ error' = [error EXCEPT ![i] = {e}]
    /\ buffer' = [buffer EXCEPT ![i] = {}]
    /\ UNCHANGED <<size, slot>>

\* A check of applyLimited that changes nothing when it succeeds.
Check(i, step, ok, e) ==
    /\ At(i, step)
    /\ IF ok THEN Proceed(i) /\ UNCHANGED <<buffer, size, slot, error>> ELSE Fail(i, e)
    /\ UNCHANGED <<inputs, patch, made, damaged, ceiling>>

Info(i) ==
    IF patch.magic THEN Check(i, "parse", patch.whole, "Truncated")
    ELSE Check(i, "parse", FALSE, "InvalidMagic")

\* Fault: the size is compared with the target's.
CheckSizeWrong(i) == Check(i, "size", patch.sizeB = Size[source], "SizeMismatch")

CheckSize(i) == Check(i, "size", patch.sizeA = Size[source], "SizeMismatch")

CheckSource(i) == Check(i, "hash", patch.hashA = source, "SourceHashMismatch")

CheckLimit(i) ==
    Check(i, "limit", ~Exceeds(patch.sizeB, ceiling), "ResourceLimitExceeded")

CheckWindow(i) ==
    Check(i, "window", WindowFits(Size[source], patch.sizeB), "WindowTooLarge")

Alloc(i) ==
    /\ At(i, "alloc")
    /\ \/ /\ \E b \in Blobs : buffer' = [buffer EXCEPT ![i] = {b}]
          /\ size' = [size EXCEPT ![i] = patch.sizeB]
          /\ Proceed(i)
          /\ UNCHANGED <<slot, error>>
       \/ faulty /\ Fail(i, "OutOfMemory")
    /\ UNCHANGED <<inputs, patch, made, damaged, ceiling>>

\* What the decoder may produce: with another prefix than the encoder's, an
\* error or anything at all.
Decompressed(prefix) ==
    IF ~patch.intact THEN {}
    ELSE IF prefix = patch.prefix THEN {patch.content} ELSE Blobs

\* The decoder fills the whole buffer, or it is an error.
Decode(i) ==
    /\ At(i, "decode")
    /\ \/ \E b \in Decompressed(source) :
             /\ Size[b] = size[i]
             /\ buffer' = [buffer EXCEPT ![i] = {b}]
             /\ Proceed(i)
             /\ UNCHANGED <<size, slot, error>>
       \/ /\ \/ faulty
             \/ source # patch.prefix
             \/ ~\E b \in Decompressed(source) : Size[b] = size[i]
          /\ Fail(i, "DecompressionFailed")
    /\ UNCHANGED <<inputs, patch, made, damaged, ceiling>>

\* Fault: the reconstruction's hash is not compared.
CheckTargetSkipped(i) == Check(i, "check", TRUE, "TargetHashMismatch")

CheckTarget(i) == Check(i, "check", buffer[i] = {patch.hashB}, "TargetHashMismatch")

\* Storing the result is the last thing difz_patch_limited does.
Publish(i) ==
    /\ slot' = [slot EXCEPT ![i] = buffer[i]]
    /\ Return(i)
    /\ UNCHANGED <<buffer, size, error>>

\* Rust first moves the bytes into an owner, whose allocation may fail.
Own(i) ==
    /\ At(i, "own")
    /\ Publish(i) \/ (faulty /\ i = "rust" /\ Fail(i, "OutOfMemory"))
    /\ UNCHANGED <<inputs, patch, made, damaged, ceiling>>

\* A panic anywhere in difz_file_apply unwinds into guard.
Panic(i) ==
    /\ faulty /\ i = "rust" /\ made = "ready" /\ pc[i] # 0
    /\ Fail(i, "Panic")
    /\ UNCHANGED <<inputs, patch, made, damaged, ceiling>>

\* difz_patch_limited's status.
ZigStatus(e) ==
    IF e = {} THEN 0 ELSE IF e = {"ResourceLimitExceeded"} THEN -4 ELSE -1

\* difz_file_apply's status.
RustStatus(e) ==
    CASE e = {} -> 0
      [] e \in {{"SizeMismatch"}, {"SourceHashMismatch"}} -> -2
      [] e \in {{"WindowTooLarge"}, {"ResourceLimitExceeded"}} -> -4
      [] e = {"OutOfMemory"} -> -5
      [] e = {"Panic"} -> -7
      [] OTHER -> -1

Terminated ==
    /\ made \in {"failed", "tooLarge"} \/ (made = "ready" /\ \A i \in Impls : pc[i] = 0)
    /\ UNCHANGED vars

Apply(i) ==
    \/ Info(i) \/ CheckSize(i) \/ CheckSource(i) \/ CheckLimit(i) \/ CheckWindow(i)
    \/ Alloc(i) \/ Decode(i) \/ CheckTarget(i) \/ Own(i) \/ Panic(i)

Next ==
    \/ EncodeWindow \/ EncodeHashSource \/ EncodeHashTarget \/ EncodeCompress \/ EncodeLimit
    \/ Deliver \/ ExternalWrite
    \/ \E i \in Impls : Apply(i)
    \/ Terminated

Spec == Init /\ [][Next]_vars

-----------------------------------------------------------------------------
Done(i) == made = "ready" /\ pc[i] = 0

\* Whatever is written to the source while it is mapped, and whatever happened
\* to the patch: an apply that returns 0 returns bytes with the hash and the
\* length the patch names, within the caller's ceiling.
OutputVerified ==
    \A i \in Impls : Done(i) /\ error[i] = {} =>
        /\ slot[i] = {patch.hashB}
        /\ Size[patch.hashB] = patch.sizeB
        /\ ~Exceeds(patch.sizeB, ceiling)

\* The comment on applyLimited: the source is checked before the buffer is
\* allocated, and the buffer never exceeds the ceiling or the codec's window.
BufferBounded ==
    \A i \in Impls : buffer[i] # {} =>
        /\ ~Exceeds(size[i], ceiling)
        /\ size[i] <= MaxWindow
        /\ writes = 0 => source = patch.hashA

\* The comment on patchWindowLog: at the start of the target, a match at the
\* first byte of the source is within the frame's window; and no frame asks for
\* a window that a decoder with the maximum set refuses.
PrefixInWindow ==
    made \in {"compress", "limit", "stored"} =>
        Size[source] <= PowerOfTwo[patch.log] /\ PowerOfTwo[patch.log] <= MaxWindow

\* A call that fails keeps no buffer and leaves the caller's slot as it was; a
\* call that succeeds hands over its one buffer.
NothingHeldOnFailure ==
    \A i \in Impls : Done(i) =>
        IF error[i] = {} THEN slot[i] = buffer[i] /\ slot[i] # {}
        ELSE slot[i] = {} /\ buffer[i] = {}

\* An undamaged patch, made without a write to its inputs, turns its source into
\* its target unless the ceiling forbids it.
RoundTrips ==
    \A i \in Impls :
        Done(i) /\ ~damaged /\ writes = 0 /\ ~faulty /\ source = patch.prefix =>
            IF Exceeds(Size[target], ceiling) THEN error[i] = {"ResourceLimitExceeded"}
            ELSE error[i] = {} /\ slot[i] = {target}

\* The Rust port answers as the reference does: the same bytes, or the same
\* error; -2 and -4 are its finer statuses for errors the reference reports
\* as -1.
PortAgrees ==
    Impls = {"zig", "rust"} /\ (\A i \in Impls : Done(i)) /\ ~faulty
        /\ writes = 0 /\ source = patch.prefix =>
        /\ error["zig"] = error["rust"] /\ slot["zig"] = slot["rust"]
        /\ (ZigStatus(error["zig"]) = 0) <=> (RustStatus(error["rust"]) = 0)
        /\ ZigStatus(error["zig"]) = -4 => RustStatus(error["rust"]) = -4
=============================================================================
