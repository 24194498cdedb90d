---------------------------- MODULE EntryMetadata ----------------------------
(***************************************************************************)
(* Everything that an entry's metadata goes through: normalizing, coding,  *)
(* planning, the lists of Linux, and the transport of symlinks.  One call  *)
(* works on one record or on one transport.                                *)
(***************************************************************************)
EXTENDS LinuxAcl, SymlinkTransport

recordVars == <<allVars, aclVars>>

RecordIdle ==
    /\ Start(Empty, {}, <<>>, "idle") /\ caps = NoCaps /\ plan = NoPlan
    /\ kernel = {} /\ restored = {}

EntryInit == (AclInit /\ TransportIdle) \/ (RecordIdle /\ TransportInit)

EntryNext ==
    \/ AclNext /\ UNCHANGED transportVars
    \/ TransportNext /\ UNCHANGED recordVars

Spec == EntryInit /\ [][EntryNext]_<<recordVars, transportVars>>
=============================================================================
