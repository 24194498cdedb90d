------------------------------ MODULE LinuxAcl ------------------------------
(***************************************************************************)
(* Access control lists on Linux: from the two attributes of the kernel to *)
(* the native bundle and the portable entries of a metadata record, and    *)
(* back (rust/src/linux_acl.rs).  The reference makes the same checks      *)
(* (src/src/native_acl.zig), whose capture and restore say when each form  *)
(* is used.                                                                *)
(*                                                                         *)
(* As in Metadata, an integer of any width is one number; u32 is 0..MaxId. *)
(* The letters of a principal are ASCII codes.                             *)
(***************************************************************************)
EXTENDS RestorePlan

CONSTANTS
    KernelAcls,     \* what a file's attributes may hold: [access, default]
    MaxId           \* the largest u32

VARIABLES
    kernel,         \* the attributes captured, if any
    restored        \* the attributes to restore, if any

aclVars == <<kernel, restored>>

AclMagic == 9

\* Tags of the kernel and of AceTag.
KernelTag == <<1, 4, 32, 2, 8, 16>>
AceTag(k) == CHOOSE t \in Tags : KernelTag[t] = k

\* Read, write and execute are 4, 2, 1 to the kernel and 1, 2, 4 here.
SwapBits(p) == 4 * (p % 2) + 2 * ((p \div 2) % 2) + p \div 4

Entries(bytes) == [i \in 1..((Len(bytes) - 1) \div 3) |->
    [tag |-> bytes[3 * i - 1], perm |-> bytes[3 * i], id |-> bytes[3 * i + 1]]]

KernelBytes(entries) ==
    <<2>> \o FlattenSeq([i \in DOMAIN entries |-> <<entries[i].tag, entries[i].perm, entries[i].id>>])

\* PosixAcl::new, entry by entry.
PosixAclIsValid(bytes) ==
    LET entry(s, e) ==
            [ok |-> /\ s.ok /\ e.perm <= 7 /\ e.tag >= s.tag /\ e.tag \in Range(KernelTag)
                    /\ IF e.tag \in {2, 8} THEN e.id # MaxId /\ ~(e.tag = s.tag /\ e.id <= s.id)
                       ELSE e.id = MaxId /\ e.tag # s.tag,
             tag |-> e.tag, id |-> e.id, base |-> s.base \cup {e.tag}]
        end == FoldLeft(entry, [ok |-> TRUE, tag |-> 0, id |-> 0, base |-> {}], Entries(bytes))
    IN  \/ bytes = <<>>
        \/ /\ bytes # <<>> /\ (Len(bytes) - 1) % 3 = 0 /\ bytes[1] = 2
           /\ end.ok /\ {1, 4, 32} \subseteq end.base
           /\ end.base \cap {2, 8} # {} => 16 \in end.base

\* decimal.
Decimal(id) ==
    LET digits[n \in 0..MaxId] == IF n < 10 THEN <<48 + n>> ELSE Append(digits[n \div 10], 48 + (n % 10))
    IN  digits[id]

\* PosixAcl::portable.
Portable(bytes) ==
    IF bytes = <<>> THEN <<>>
    ELSE [i \in DOMAIN Entries(bytes) |->
            LET e == Entries(bytes)[i]
            IN  [tag |-> AceTag(e.tag), bits |-> SwapBits(e.perm),
                 name |-> IF e.tag \in {2, 8} THEN Decimal(e.id) ELSE <<>>]]

\* principal: the id that a name spells; {} when it spells none.
Principal(name) ==
    LET signed == name # <<>> /\ name[1] \in {43, 45}
        digits == IF signed THEN Tail(name) ELSE name
        read == SelectSeq(digits, LAMBDA b : b # 95)
        value == FoldLeft(LAMBDA n, b : 10 * n + (b - 48), 0, read)
    IN  IF \/ digits = <<>> \/ Head(digits) = 95 \/ Last(digits) = 95
           \/ ~(Range(read) \subseteq 48..57)
           \/ signed /\ name[1] = 45 /\ ~(Range(read) \subseteq {48})
           \/ value > MaxId
        THEN {} ELSE {value}

EntryLess(d, e) == d.tag < e.tag \/ (d.tag = e.tag /\ d.id < e.id)

\* Fault: entries keep the order of the record, which compares names as text.
EncodePortableUnsorted(aces) ==
    IF aces = <<>> THEN [error |-> "", bytes |-> <<>>]
    ELSE IF \E a \in Range(aces) : a.tag \in Named /\ Principal(a.name) = {}
    THEN [error |-> "UnrepresentableAcl", bytes |-> <<>>]
    ELSE LET entry(a) == [tag |-> KernelTag[a.tag], perm |-> SwapBits(a.bits),
                          id |-> IF a.tag \in Named THEN CHOOSE n \in Principal(a.name) : TRUE ELSE MaxId]
             bytes == KernelBytes(SortSeq([i \in DOMAIN aces |-> entry(aces[i])], LAMBDA d, e : d.tag < e.tag))
         IN  [error |-> IF PosixAclIsValid(bytes) THEN "" ELSE "InvalidAcl", bytes |-> bytes]

\* encode_portable.  Entries that compare equal are refused in either order.
EncodePortable(aces) ==
    IF aces = <<>> THEN [error |-> "", bytes |-> <<>>]
    ELSE IF \E a \in Range(aces) : a.tag \in Named /\ Principal(a.name) = {}
    THEN [error |-> "UnrepresentableAcl", bytes |-> <<>>]
    ELSE LET entry(a) == [tag |-> KernelTag[a.tag], perm |-> SwapBits(a.bits),
                          id |-> IF a.tag \in Named THEN CHOOSE n \in Principal(a.name) : TRUE ELSE MaxId]
             bytes == KernelBytes(SortSeq([i \in DOMAIN aces |-> entry(aces[i])], EntryLess))
         IN  [error |-> IF PosixAclIsValid(bytes) THEN "" ELSE "InvalidAcl", bytes |-> bytes]

\* LinuxAcl::encode and decode.
Bundle(access, default) == <<AclMagic, Len(access), Len(default)>> \o access \o default

BundleIsValid(b) ==
    /\ Len(b) >= 3 /\ b[1] = AclMagic /\ b[2] + b[3] = Len(b) - 3
    /\ PosixAclIsValid(SubSeq(b, 4, 3 + b[2])) /\ PosixAclIsValid(SubSeq(b, 4 + b[2], Len(b)))

-----------------------------------------------------------------------------
RefuseAcl(e) == pc' = "acl refused" /\ error' = e

\* capture.  The portable entries may also travel alone, as they do to a record
\* that leaves the native form behind.
CaptureAcl ==
    /\ pc = "kernel"
    /\ \E k \in kernel, bundled \in BOOLEAN :
          IF ~PosixAclIsValid(k.access) \/ ~PosixAclIsValid(k.default)
          THEN RefuseAcl("InvalidAcl") /\ UNCHANGED <<raw, meta>>
          ELSE /\ raw' = [Empty EXCEPT
                             !.aces = Portable(k.access),
                             !.acl = IF ~bundled \/ (k.access = <<>> /\ k.default = <<>>) THEN {}
                                     ELSE {[origin |-> 1, bytes |-> Bundle(k.access, k.default)]}]
               /\ meta' = raw' /\ Goto("omit")
    /\ UNCHANGED <<omit, Normalizing, Decoding, planVars, aclVars>>

\* restore: a Linux bundle as it is, otherwise the portable entries.
RestoreAcl ==
    /\ pc = "canonical"
    /\ IF \E a \in meta.acl : a.origin = 1
       THEN \E a \in meta.acl :
               IF BundleIsValid(a.bytes)
               THEN /\ restored' = {[access |-> SubSeq(a.bytes, 4, 3 + a.bytes[2]),
                                     default |-> SubSeq(a.bytes, 4 + a.bytes[2], Len(a.bytes))]}
                    /\ Goto("acl restored")
               ELSE RefuseAcl("InvalidAcl") /\ UNCHANGED restored
       ELSE LET e == EncodePortable(meta.aces)
            IN  IF e.error # "" THEN RefuseAcl(e.error) /\ UNCHANGED restored
                ELSE restored' = {[access |-> e.bytes, default |-> <<>>]} /\ Goto("acl restored")
    /\ UNCHANGED <<raw, omit, meta, Normalizing, Decoding, planVars, kernel>>

AclEnded == pc \in {"acl refused", "acl restored"} /\ UNCHANGED <<allVars, aclVars>>

AclInit ==
    /\ restored = {}
    /\ \/ kernel = {} /\ PlanInit
       \/ /\ \E k \in KernelAcls : kernel = {k}
          /\ Start(Empty, {}, <<>>, "kernel") /\ caps = NoCaps /\ plan = NoPlan

AclNext == (PlanNext /\ UNCHANGED aclVars) \/ CaptureAcl \/ RestoreAcl \/ AclEnded

-----------------------------------------------------------------------------
\* What the kernel accepts: entries in strict order of tag and id, owner, group
\* and others among them, and a mask wherever somebody is named.
KernelAccepts(bytes) ==
    bytes # <<>> =>
        LET s == Entries(bytes)
            tags == {e.tag : e \in Range(s)}
        IN  /\ bytes = KernelBytes(s) /\ Increasing(s, EntryLess)
            /\ \A e \in Range(s) : e.perm \in 0..7 /\ ((e.id = MaxId) <=> e.tag \in {1, 4, 16, 32})
            /\ {1, 4, 32} \subseteq tags /\ tags \subseteq {1, 2, 4, 8, 16, 32}
            /\ tags \cap {2, 8} # {} => 16 \in tags

\* No permission is lost on the way to a record and back.  A bundle restores both
\* lists, and portable entries the access list, though the record sorts
\* principals as text and the kernel as numbers; whatever is restored the kernel
\* accepts, with one entry for each of the record's; and a list is refused only
\* if the kernel could not have held it.
AclsKept ==
    LET mine == meta.acl = {}
        sameEntry(a, e) == e.tag = KernelTag[a.tag] /\ SwapBits(e.perm) = a.bits
                           /\ (a.tag \in Named => e.id \in Principal(a.name))
    IN  /\ pc = "acl restored" =>
              \A r \in restored :
                  /\ KernelAccepts(r.access) /\ KernelAccepts(r.default)
                  /\ \A k \in kernel : r.access = k.access /\ (~mine => r.default = k.default)
                  /\ mine /\ meta.aces # <<>> =>
                        /\ Len(Entries(r.access)) = Len(meta.aces)
                        /\ \A a \in Range(meta.aces) : \E e \in Range(Entries(r.access)) : sameEntry(a, e)
        /\ pc = "acl refused" => \A k \in kernel : ~KernelAccepts(k.access) \/ ~KernelAccepts(k.default)
        /\ pc \in {"omit", "canonical"} => \A k \in kernel : KernelAccepts(k.access) /\ KernelAccepts(k.default)
=============================================================================
