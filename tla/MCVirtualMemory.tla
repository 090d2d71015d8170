--------------------------- MODULE MCVirtualMemory ---------------------------
(***************************************************************************)
(* Values for model checking CEVirtualMemory: protections that differ in    *)
(* the rights the code consults.                                            *)
(***************************************************************************)
EXTENDS CEVirtualMemory

ReadOrWrite == {{"READ"}, {"READ", "WRITE"}}
=============================================================================
