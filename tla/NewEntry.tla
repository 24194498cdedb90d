------------------------------ MODULE NewEntry ------------------------------
(***************************************************************************)
(* What difz promises of every output it commits into a parent directory:  *)
(* an output appears whole, in one step, under a name that was free, and   *)
(* no call ever changes or removes an entry that is already there.  A call *)
(* that reports success has published; a call that reports failure has     *)
(* not.  StagedApply (directory patches) and AtomicFile (patch files) are  *)
(* shown to implement this module.                                         *)
(***************************************************************************)
CONSTANTS
    Calls,      \* invocations of the library
    Names,      \* names in the parent directory
    Values,     \* complete outputs
    External,   \* any other program that creates or removes entries
    Absent,     \* no entry under this name
    PowerFails  \* may the machine stop?

VARIABLES
    shown,      \* shown[n]: the entry other programs find under n, or Absent
    status      \* status[p]: what is known of call p

vars == <<shown, status>>

Entry == [by : Calls \cup {External}, content : Values]

Status == {"idle", "pending", "published", "ok", "failed", "lost"}

TypeOK ==
    /\ shown \in [Names -> Entry \cup {Absent}]
    /\ status \in [Calls -> Status]

Init ==
    /\ shown = [n \in Names |-> Absent]
    /\ status = [p \in Calls |-> "idle"]

Begin(p) ==
    /\ status[p] = "idle"
    /\ status' = [status EXCEPT ![p] = "pending"]
    /\ UNCHANGED shown

\* The one step that makes an output visible.
Publish(p) ==
    /\ status[p] = "pending"
    /\ \E n \in Names, v \in Values :
          /\ shown[n] = Absent
          /\ shown' = [shown EXCEPT ![n] = [by |-> p, content |-> v]]
    /\ status' = [status EXCEPT ![p] = "published"]

Succeed(p) ==
    /\ status[p] = "published"
    /\ status' = [status EXCEPT ![p] = "ok"]
    /\ UNCHANGED shown

Fail(p) ==
    /\ status[p] \in {"idle", "pending"}
    /\ status' = [status EXCEPT ![p] = "failed"]
    /\ UNCHANGED shown

\* The process ended before the call returned.
Lose(p) ==
    /\ status[p] \in {"pending", "published"}
    /\ status' = [status EXCEPT ![p] = "lost"]
    /\ UNCHANGED shown

ExternalCreate(n, v) ==
    /\ shown[n] = Absent
    /\ shown' = [shown EXCEPT ![n] = [by |-> External, content |-> v]]
    /\ UNCHANGED status

ExternalRemove(n) ==
    /\ shown[n] # Absent
    /\ shown' = [shown EXCEPT ![n] = Absent]
    /\ UNCHANGED status

\* Entries may vanish, and come back; what there is, is whole.
PowerLoss ==
    /\ PowerFails
    /\ shown' \in [Names -> Entry \cup {Absent}]
    /\ status' = [p \in Calls |-> IF status[p] \in {"pending", "published"} THEN "lost"
                                  ELSE status[p]]

Next ==
    \/ \E p \in Calls : Begin(p) \/ Publish(p) \/ Succeed(p) \/ Fail(p) \/ Lose(p)
    \/ \E n \in Names, v \in Values : ExternalCreate(n, v)
    \/ \E n \in Names : ExternalRemove(n)
    \/ PowerLoss

Spec == Init /\ [][Next]_vars
=============================================================================
