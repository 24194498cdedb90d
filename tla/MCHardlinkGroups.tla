-------------------------- MODULE MCHardlinkGroups --------------------------
(* Every tree of four files, over every filter.                            *)
EXTENDS HardlinkGroups
=============================================================================
