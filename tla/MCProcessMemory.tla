--------------------------- MODULE MCProcessMemory ---------------------------
(***************************************************************************)
(* An address space of twelve pages whose upper end looks like the real     *)
(* one: UserKData with three pages above it, which a stack does not fit in. *)
(***************************************************************************)
EXTENDS CEProcessMemory

AllRights == {{"READ", "WRITE", "EXEC"}}

\* One page each; the second image wants the page the TLS block is put on.
TwoImages == {[base |-> 1, size |-> 1], [base |-> 4, size |-> 1]}
=============================================================================
