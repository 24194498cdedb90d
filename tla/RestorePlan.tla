----------------------------- MODULE RestorePlan -----------------------------
(***************************************************************************)
(* Planning the restore of a canonical record: what is applied natively,   *)
(* what is kept in a sidecar attribute, and which compromises are          *)
(* reported.  The port's RestorePlan::new runs family by family            *)
(* (rust/src/metadata_restore.rs) and is compared with the reference's     *)
(* planRestore (src/src/metadata.zig).  A filesystem probe may turn single *)
(* capabilities of the operating system on or off.                         *)
(***************************************************************************)
EXTENDS Metadata

CONSTANTS
    Capabilities,   \* [os, able]: 1 Linux, 2 macOS, 3 Windows, and what works
    MaxCompromises  \* the size of the array of compromises

\* There is room for one compromise of each kind that a plan can need.
ASSUME RoomAssumption == MaxCompromises \in Nat /\ MaxCompromises >= 8

ASSUME SystemsAssumption == \A c \in Capabilities : c.os \in 1..3

VARIABLES
    caps, plan      \* plan: [next, actions, compromises]

planVars == <<caps, plan>>

NoPlan == [next |-> "", actions |-> {}, compromises |-> <<>>]
NoCaps == [os |-> 0, able |-> {}]

ForOs(os) ==
    [os |-> os,
     able |-> CASE os = 1 -> {"holes", "hardlink", "portable", "native", "transport"}
                [] os = 2 -> {"btime", "holes", "hardlink", "portable", "native", "flags", "info", "transport"}
                [] os = 3 -> {"btime", "hardlink", "native", "transport"}]

RawAccepted(os, name) ==
    CASE os = 1 -> name[1] = 1
      [] os = 2 -> TRUE
      [] os = 3 -> name[1] # 3

Logical(m) == \E x \in Range(m.xattrs) : x.class = 1
RawGood(m, c) == \E x \in Range(m.xattrs) : x.class = 2 /\ RawAccepted(c.os, x.name)
RawBad(m, c) == \E x \in Range(m.xattrs) : x.class = 2 /\ ~RawAccepted(c.os, x.name)
NativeHere(m, c) == \E a \in m.acl : a.origin = c.os /\ "native" \in c.able
NativeElsewhere(m, c) == m.acl # {} /\ ~NativeHere(m, c)

\* Families that are applied as a whole or kept as a whole, in order.
Simple(m) ==
    <<[name |-> "btime", here |-> m.btime # {}], [name |-> "flags", here |-> m.flags # 0],
      [name |-> "info", here |-> m.info # {}], [name |-> "holes", here |-> m.holes # <<>>],
      [name |-> "hardlink", here |-> m.link # {}]>>

Native(name) == [name |-> name, sidecar |-> FALSE]
Sidecar(name) == [name |-> name, sidecar |-> TRUE]

-----------------------------------------------------------------------------
(* The reference.                                                          *)

KeptIf(here, name) == IF here THEN <<name>> ELSE <<>>

\* What planRestore keeps in sidecars, in the order in which it reports it.
Kept(m, c) ==
    LET unable(f) == KeptIf(f.here /\ f.name \notin c.able, f.name)
    IN  KeptIf(RawBad(m, c), "raw") \o KeptIf(NativeElsewhere(m, c), "native")
        \o KeptIf(m.aces # <<>> /\ ~NativeHere(m, c) /\ "portable" \notin c.able, "portable")
        \o unable(Simple(m)[1]) \o unable(Simple(m)[2]) \o unable(Simple(m)[3]) \o unable(Simple(m)[4])
        \o unable(Simple(m)[5])

Applied(m, c) ==
    {n \in {"logical", "raw", "native", "portable", "times", "btime", "flags", "info", "holes", "hardlink"} :
        CASE n = "logical" -> Logical(m)
          [] n = "raw" -> RawGood(m, c)
          [] n = "native" -> NativeHere(m, c)
          [] n = "portable" -> m.aces # <<>> /\ ~NativeHere(m, c) /\ "portable" \in c.able
          [] n = "times" -> m.mtime # {} \/ m.atime # {}
          [] OTHER -> n \in c.able /\ \E f \in Range(Simple(m)) : f.name = n /\ f.here}

PlanRestore(m, c) ==
    [impossible |-> "transport" \notin c.able /\ (Logical(m) \/ Kept(m, c) # <<>>),
     actions |-> {Native(n) : n \in Applied(m, c)} \cup {Sidecar(n) : n \in Range(Kept(m, c))},
     compromises |-> Kept(m, c)]

-----------------------------------------------------------------------------
(* The port.                                                               *)

\* Actions and sidecars join the plan unless there is nowhere to keep them, or
\* no room to report them.
Extend(native, sidecars, needed, label) ==
    IF \/ needed /\ "transport" \notin caps.able
       \/ Len(plan.compromises) + Len(sidecars) > MaxCompromises
    THEN pc' = "failed" /\ error' = "PlanImpossible" /\ UNCHANGED plan
    ELSE /\ plan' = [next |-> label,
                     actions |-> plan.actions \cup {Native(n) : n \in native}
                                 \cup {Sidecar(n) : n \in Range(sidecars)},
                     compromises |-> plan.compromises \o sidecars]
         /\ pc' = (IF label = "done" THEN "planned" ELSE pc) /\ UNCHANGED error

MetaUnchanged == UNCHANGED <<raw, omit, meta, Normalizing, Decoding, caps>>

StartPlan ==
    /\ pc = "canonical"
    /\ caps' \in Capabilities
    /\ plan' = [NoPlan EXCEPT !.next = "xattrs"]
    /\ pc' = "plan"
    /\ UNCHANGED <<raw, omit, meta, error, Normalizing, Decoding>>

\* Fault: an attribute that this system refuses needs no sidecar.
PlanXattrsDrops ==
    /\ pc = "plan" /\ plan.next = "xattrs"
    /\ Extend((IF Logical(meta) THEN {"logical"} ELSE {}) \cup (IF RawGood(meta, caps) THEN {"raw"} ELSE {}),
              <<>>, Logical(meta), "acl")
    /\ MetaUnchanged

PlanXattrs ==
    /\ pc = "plan" /\ plan.next = "xattrs"
    /\ Extend((IF Logical(meta) THEN {"logical"} ELSE {}) \cup (IF RawGood(meta, caps) THEN {"raw"} ELSE {}),
              IF RawBad(meta, caps) THEN <<"raw">> ELSE <<>>,
              Logical(meta) \/ RawBad(meta, caps), "acl")
    /\ MetaUnchanged

\* Fault: the portable entries come along only when there is no native ACL.
PlanAclEither ==
    /\ pc = "plan" /\ plan.next = "acl"
    /\ LET portable == meta.aces # <<>> /\ "portable" \in caps.able
       IN  IF NativeHere(meta, caps) THEN Extend({"native"}, <<>>, FALSE, "times")
           ELSE IF meta.acl # {} THEN Extend({}, <<"native">>, TRUE, "times")
           ELSE Extend(IF portable THEN {"portable"} ELSE {}, <<>>, FALSE, "times")
    /\ MetaUnchanged

PlanAcl ==
    /\ pc = "plan" /\ plan.next = "acl"
    /\ LET apply == IF meta.aces # <<>> /\ "portable" \in caps.able THEN {"portable"} ELSE {}
           keep == IF meta.aces # <<>> /\ "portable" \notin caps.able THEN <<"portable">> ELSE <<>>
       IN  IF NativeHere(meta, caps) THEN Extend({"native"}, <<>>, FALSE, "times")
           ELSE IF meta.acl # {} THEN Extend(apply, <<"native">> \o keep, TRUE, "times")
           ELSE Extend(apply, keep, keep # <<>>, "times")
    /\ MetaUnchanged

PlanTimes ==
    /\ pc = "plan" /\ plan.next = "times"
    /\ Extend(IF meta.mtime # {} \/ meta.atime # {} THEN {"times"} ELSE {}, <<>>, FALSE, "btime")
    /\ MetaUnchanged

PlanSimple ==
    /\ pc = "plan"
    /\ \E i \in 1..5 :
          LET f == Simple(meta)[i]
              able == f.name \in caps.able
          IN  /\ f.name = plan.next
              /\ Extend(IF f.here /\ able THEN {f.name} ELSE {}, IF f.here /\ ~able THEN <<f.name>> ELSE <<>>,
                        f.here /\ ~able, IF i = 5 THEN "done" ELSE Simple(meta)[i + 1].name)
    /\ MetaUnchanged

-----------------------------------------------------------------------------
allVars == <<vars, planVars>>

Terminated ==
    /\ pc \in {"failed", "borrowed", "planned"} \/ (pc = "decoded" /\ sent = {})
    /\ UNCHANGED allVars

PlanInit == Init /\ caps = NoCaps /\ plan = NoPlan

PlanNext ==
    \/ MetadataNext /\ UNCHANGED planVars
    \/ StartPlan \/ PlanXattrs \/ PlanAcl \/ PlanTimes \/ PlanSimple \/ Terminated

-----------------------------------------------------------------------------
\* The port plans what the reference plans, and refuses what it refuses.
PlansAgree ==
    caps # NoCaps =>
        LET r == PlanRestore(meta, caps)
        IN  /\ pc = "planned" => ~r.impossible /\ plan.actions = r.actions /\ plan.compromises = r.compromises
            /\ pc = "failed" => r.impossible

\* Planning loses nothing silently.  Every part of a record is applied or kept in
\* a sidecar, and a part that is kept is reported; only portable entries may go
\* missing, where the native ACL they describe is applied itself.
NothingLost ==
    pc = "planned" =>
        LET somewhere(n) == Native(n) \in plan.actions \/ Sidecar(n) \in plan.actions
        IN  /\ \A x \in Range(meta.xattrs) :
                  /\ x.class = 1 => Native("logical") \in plan.actions
                  /\ x.class = 2 => (IF RawAccepted(caps.os, x.name) THEN Native("raw") ELSE Sidecar("raw")) \in plan.actions
            /\ meta.acl # {} => somewhere("native")
            /\ meta.aces # <<>> => somewhere("portable") \/ Native("native") \in plan.actions
            /\ \A f \in Range(Simple(meta)) : f.here <=> somewhere(f.name)
            /\ {a.name : a \in {b \in plan.actions : b.sidecar}} = Range(plan.compromises)

=============================================================================
