--------------------------- MODULE CEProcessMemory ---------------------------
(***************************************************************************)
(* How a process fills its address space before its first instruction: the  *)
(* kernel's two pages, the images of the program and of its DLLs, and the   *)
(* main stack.  Every step is a call of CEVirtualMemory; the first failure  *)
(* ends the load.  The host is taken to have memory enough.                 *)
(***************************************************************************)
EXTENDS CEVirtualMemory

CONSTANTS UserKData,    \* 0xffffc000: three pages lie above this one
          Images,       \* [base, size] of the images that can be loaded
          StackSize     \* 1024 * 1024

VARIABLE phase   \* what the process has got last: "nothing", "tls", "kernel", "images",
                 \* "stack", or "failed"

processVars == <<vars, phase>>

Kept == UNCHANGED vars

ProcessInit == Init /\ phase = "nothing"

\* CEKernelInit: the TLS page, and UserKData if the TLS page could be had.
AllocateTls(p) ==
  /\ phase = "nothing"
  /\ \/ CEVirtualMemoryAllocate(PageSize, p) /\ phase' = "tls"
     \/ AllocateStatus(PageSize) # "OK" /\ Kept /\ phase' = "kernel"

MapUserKData(p) ==
  /\ phase = "tls"
  /\ phase' = "kernel"
  /\ \/ CEVirtualMemoryMap(UserKData, PageSize, p)
     \/ MapStatus(UserKData, PageSize) # "OK" /\ Kept

\* CEPEMap: at the preferred base, or wherever there is room if that is taken.  When a
\* write, a relocation or an import fails afterwards the image stays mapped.
MapImage(image, p) ==
  /\ phase \in {"kernel", "images"}
  /\ LET status == MapStatus(image.base, image.size) IN
     \/ CEVirtualMemoryMap(image.base, image.size, p) /\ phase' \in {"images", "failed"}
     \/ /\ status = "ADDRESS_CONFLICT"
        /\ CEVirtualMemoryAllocate(image.size, p)
        /\ phase' \in {"images", "failed"}
     \/ /\ status # "OK"
        /\ status = "ADDRESS_CONFLICT" => AllocateStatus(image.size) # "OK"
        /\ Kept /\ phase' = "failed"

\* CERuntimeLoadExecutable after CEPEMap.
AllocateMainStack(p) ==
  /\ phase = "images"
  /\ \/ CEVirtualMemoryAllocate(StackSize, p) /\ phase' = "stack"
     \/ AllocateStatus(StackSize) # "OK" /\ Kept /\ phase' = "failed"

ProcessNext ==
  \E p \in Protections :
     \/ AllocateTls(p)
     \/ MapUserKData(p)
     \/ \E image \in Images : MapImage(image, p)
     \/ AllocateMainStack(p)

ProcessSpec == ProcessInit /\ [][ProcessNext]_processVars
-----------------------------------------------------------------------------
\* "stack, heap and allocation" (Docs/COMPATIBILITY.md 8): a program whose images
\* are mapped gets its stack whenever the address space has room for one.
StackAvailable ==
  phase = "images" /\ FittingPages(StackSize) # {} => AllocateStatus(StackSize) = "OK"
=============================================================================
