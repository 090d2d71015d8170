-------------------------- MODULE CEVirtualMemory --------------------------
(***************************************************************************)
(* The guest address space as CEVirtualMemory.c keeps it: an array of       *)
(* regions in the order they were mapped and a cursor from which            *)
(* CEVirtualMemoryAllocate searches.  Addresses and sizes are 32-bit: Top   *)
(* stands for 2^32, and align_page wraps modulo Top as the C code does.     *)
(* A call that fails changes nothing; its status is an operator, so that    *)
(* properties can speak of every call that could be made in a state.        *)
(* A failing calloc is such a call: it leaves the table as it was.          *)
(***************************************************************************)
EXTENDS Naturals, Sequences

CONSTANTS PageSize,       \* CE_PAGE_SIZE
          Pages,          \* number of pages of the address space
          MaxRegions,     \* CE_VM_MAX_REGIONS
          InitialCursor,  \* 0x10000000, where allocation starts
          Protections,    \* the CEProtection values used, sets of rights
          Bytes,          \* the values of a byte
          AccessLengths   \* the lengths of the modelled reads and writes

ASSUME PageSizeAssumption == PageSize \in Nat \ {0}
ASSUME PagesAssumption == Pages \in Nat \ {0}
ASSUME MaxRegionsAssumption == MaxRegions \in Nat
ASSUME ProtectionsAssumption == Protections \subseteq SUBSET {"READ", "WRITE", "EXEC"}
ASSUME ZeroByteAssumption == 0 \in Bytes
ASSUME AccessLengthsAssumption == AccessLengths \subseteq Nat \ {0}

Top == PageSize * Pages
CEAddress == 0 .. Top - 1

ASSUME CursorAssumption == InitialCursor \in CEAddress /\ InitialCursor % PageSize = 0

VARIABLES regions,           \* vm->regions[0 .. region_count - 1]
          allocation_cursor  \* vm->allocation_cursor

vars == <<regions, allocation_cursor>>
-----------------------------------------------------------------------------
\* Round up to a page in 32-bit arithmetic: the top of the range wraps to 0.
align_page(value) ==
  LET v == (value + PageSize - 1) % Top IN v - (v % PageSize)

\* The sum of two 32-bit values is taken in 64 bits here, so it cannot wrap.
ranges_overlap(a, as, b, bs) == a < b + bs /\ b < a + as

\* Faulty variant of Conflicts: only an address inside the region conflicts.
StartsInside(base, size, r) == base >= r.base /\ base < r.base + r.size

Conflicts(base, size, r) == ranges_overlap(base, size, r.base, r.size)

Contains(r, address, length) ==
  address >= r.base /\ address + length <= r.base + r.size

\* i is the first index of regions for which P(_) holds.
IsFirst(i, P(_)) ==
  /\ i \in 1 .. Len(regions)
  /\ P(regions[i])
  /\ \A j \in 1 .. i - 1 : ~P(regions[j])

\* The region the C function find_region returns for this access.
find_region(i, address, length) == IsFirst(i, LAMBDA r : Contains(r, address, length))

Zeroed(n) == [o \in 0 .. n - 1 |-> 0]
-----------------------------------------------------------------------------
Init ==
  /\ regions = <<>>
  /\ allocation_cursor = InitialCursor

\* Faulty variant of MapStatus: the limit is noticed one region late.
MapStatusLateLimit(base, size) ==
  IF size = 0 \/ base % PageSize # 0 THEN "INVALID_ARGUMENT"
  ELSE IF base + align_page(size) > Top \/ Len(regions) > MaxRegions THEN "LIMIT"
  ELSE IF \E i \in 1 .. Len(regions) : Conflicts(base, align_page(size), regions[i])
       THEN "ADDRESS_CONFLICT"
  ELSE "OK"

\* Faulty variant of MapStatus: a region may start anywhere.
MapStatusAnywhere(base, size) ==
  IF size = 0 THEN "INVALID_ARGUMENT"
  ELSE IF base + align_page(size) > Top \/ Len(regions) >= MaxRegions THEN "LIMIT"
  ELSE IF \E i \in 1 .. Len(regions) : Conflicts(base, align_page(size), regions[i])
       THEN "ADDRESS_CONFLICT"
  ELSE "OK"

\* The status of CEVirtualMemoryMap, in the order the C function decides it.
MapStatus(base, size) ==
  IF size = 0 \/ base % PageSize # 0 THEN "INVALID_ARGUMENT"
  ELSE IF base + align_page(size) > Top \/ Len(regions) >= MaxRegions THEN "LIMIT"
  ELSE IF \E i \in 1 .. Len(regions) : Conflicts(base, align_page(size), regions[i])
       THEN "ADDRESS_CONFLICT"
  ELSE "OK"

\* The region becomes the last one and the cursor moves past it, unless it
\* lies below the cursor or ends at the very top of the address space.
CEVirtualMemoryMap(base, size, protection) ==
  /\ MapStatus(base, size) = "OK"
  /\ regions' = Append(regions, [base |-> base, size |-> align_page(size),
                                 protection |-> protection,
                                 bytes |-> Zeroed(align_page(size))])
  /\ allocation_cursor' = IF base >= allocation_cursor /\ base + align_page(size) < Top
                          THEN base + align_page(size)
                          ELSE allocation_cursor

\* Faulty variant of Advance: a page is left free behind the region.
AdvancePastGap(c, size) ==
  IF \E i \in 1 .. Len(regions) : Conflicts(c, size, regions[i])
  THEN LET i == CHOOSE i \in 1 .. Len(regions) :
                  IsFirst(i, LAMBDA r : Conflicts(c, size, r))
       IN align_page((regions[i].base + regions[i].size + 1) % Top)
  ELSE c

\* The search of CEVirtualMemoryAllocate: candidate c moves to the end of the
\* first region it conflicts with, region_count + 1 times at the most.
Advance(c, size) ==
  IF \E i \in 1 .. Len(regions) : Conflicts(c, size, regions[i])
  THEN LET i == CHOOSE i \in 1 .. Len(regions) :
                  IsFirst(i, LAMBDA r : Conflicts(c, size, r))
       IN align_page((regions[i].base + regions[i].size) % Top)
  ELSE c

AllocateCandidate(size) ==
  LET candidate[attempts \in 0 .. Len(regions)] ==
        IF attempts = 0 THEN align_page(allocation_cursor)
        ELSE Advance(candidate[attempts - 1], align_page(size))
  IN candidate[Len(regions)]

AllocateStatus(size) ==
  LET candidate == AllocateCandidate(size) IN
  IF size = 0 THEN "INVALID_ARGUMENT"
  ELSE IF \E i \in 1 .. Len(regions) : Conflicts(candidate, align_page(size), regions[i])
       THEN "ADDRESS_CONFLICT"
  ELSE MapStatus(candidate, align_page(size))

CEVirtualMemoryAllocate(size, protection) ==
  /\ AllocateStatus(size) = "OK"
  /\ \E candidate \in CEAddress :
        /\ candidate = AllocateCandidate(size)
        /\ CEVirtualMemoryMap(candidate, align_page(size), protection)

\* The protection of the whole region that contains the range is replaced.
CEVirtualMemoryProtect(address, size, protection) ==
  /\ size # 0
  /\ \E i \in 1 .. Len(regions) :
        /\ find_region(i, address, size)
        /\ regions' = [regions EXCEPT ![i].protection = protection]
  /\ UNCHANGED allocation_cursor

\* The regions after the freed one move down by one; the cursor stays.
CEVirtualMemoryFree(address) ==
  /\ address # 0
  /\ \E i \in 1 .. Len(regions) :
        /\ IsFirst(i, LAMBDA r : r.base = address)
        /\ regions' = [j \in 1 .. Len(regions) - 1 |->
                         IF j < i THEN regions[j] ELSE regions[j + 1]]
  /\ UNCHANGED allocation_cursor

QueryStatus(address) ==
  IF \E i \in 1 .. Len(regions) : Contains(regions[i], address, 1) THEN "OK" ELSE "NOT_FOUND"

\* Faulty variant of CEVirtualMemoryQuery: the size of the whole region.
QueryWholeRegion(address) ==
  LET i == CHOOSE i \in 1 .. Len(regions) : find_region(i, address, 1)
  IN [protection |-> regions[i].protection, remaining |-> regions[i].size]

\* What CEVirtualMemoryQuery reports of a mapped address.
CEVirtualMemoryQuery(address) ==
  LET i == CHOOSE i \in 1 .. Len(regions) : find_region(i, address, 1)
  IN [protection |-> regions[i].protection,
      remaining |-> regions[i].size - (address - regions[i].base)]

\* The status of an access that needs the given right on the whole range.
AccessStatus(address, length, right) ==
  IF \/ length = 0
     \/ \E i \in 1 .. Len(regions) :
           find_region(i, address, length) /\ right \in regions[i].protection
  THEN "OK" ELSE "ACCESS_VIOLATION"

\* The bytes a successful CEVirtualMemoryRead copies out.
CEVirtualMemoryRead(address, length) ==
  LET i == CHOOSE i \in 1 .. Len(regions) : find_region(i, address, length)
  IN [k \in 0 .. length - 1 |-> regions[i].bytes[address + k - regions[i].base]]

Stored(r, address, data, length) ==
  [o \in 0 .. r.size - 1 |->
     IF r.base + o \in address .. address + length - 1
     THEN data[r.base + o - address] ELSE r.bytes[o]]

\* Faulty variant of CEVirtualMemoryWrite: the protection is not looked at.
WriteUnprotected(address, data, length) ==
  /\ \E i \in 1 .. Len(regions) :
        /\ find_region(i, address, length)
        /\ regions' = [regions EXCEPT ![i].bytes = Stored(regions[i], address, data, length)]
  /\ UNCHANGED allocation_cursor

CEVirtualMemoryWrite(address, data, length) ==
  /\ \E i \in 1 .. Len(regions) :
        /\ find_region(i, address, length)
        /\ "WRITE" \in regions[i].protection
        /\ regions' = [regions EXCEPT ![i].bytes = Stored(regions[i], address, data, length)]
  /\ UNCHANGED allocation_cursor

CEVirtualMemoryDestroy == regions' = <<>> /\ allocation_cursor' = InitialCursor

Next ==
  \/ \E base, size \in CEAddress, p \in Protections : CEVirtualMemoryMap(base, size, p)
  \/ \E size \in CEAddress, p \in Protections : CEVirtualMemoryAllocate(size, p)
  \/ \E address, size \in CEAddress, p \in Protections :
        CEVirtualMemoryProtect(address, size, p)
  \/ \E address \in CEAddress : CEVirtualMemoryFree(address)
  \/ \E address \in CEAddress, length \in AccessLengths :
        \E data \in [0 .. length - 1 -> Bytes] : CEVirtualMemoryWrite(address, data, length)
  \/ CEVirtualMemoryDestroy

Spec == Init /\ [][Next]_vars
-----------------------------------------------------------------------------
Region == [base : CEAddress, size : CEAddress, protection : Protections,
           bytes : UNION {[0 .. n - 1 -> Bytes] : n \in CEAddress}]

\* The table holds regions within its limit, each with exactly its size in bytes and
\* none beyond the top, even where a size has wrapped to 0.
TableShaped ==
  /\ regions \in Seq(Region)
  /\ Len(regions) <= MaxRegions
  /\ allocation_cursor \in CEAddress
  /\ \A i \in 1 .. Len(regions) :
        /\ regions[i].bytes \in [0 .. regions[i].size - 1 -> Bytes]
        /\ regions[i].base + regions[i].size <= Top

\* Every region starts on a page and ends on one, and the cursor is a page address.
Aligned ==
  /\ allocation_cursor % PageSize = 0
  /\ \A i \in 1 .. Len(regions) :
        regions[i].base % PageSize = 0 /\ regions[i].size % PageSize = 0

\* The table keeps its shape and stays on page boundaries under every call, where the
\* cursor and the candidates wrap in 32 bits (CEVirtualMemory.c 7, 42-66 and 79).
TypeOK == TableShaped /\ Aligned

\* No guest address belongs to two regions: find_region's first match is the
\* only match, whatever the order of the table (ranges_overlap, 10-14 and 48-50).
RegionsDisjoint ==
  \A i, j \in 1 .. Len(regions) :
     i # j => ~Conflicts(regions[i].base, regions[i].size, regions[j])

\* The remaining size CEVirtualMemoryQuery reports is exactly how far an access
\* that starts at the address may reach: that many bytes are accessible with the
\* reported protection and one more never is, even when the next region adjoins.
QueryBoundsAccess ==
  \A a \in CEAddress : QueryStatus(a) = "OK" =>
     LET q == CEVirtualMemoryQuery(a) IN
     \A right \in {"READ", "WRITE"} :
        /\ right \in q.protection <=> AccessStatus(a, q.remaining, right) = "OK"
        /\ AccessStatus(a, q.remaining + 1, right) = "ACCESS_VIOLATION"

\* Page addresses where size bytes fit in unmapped space.
FittingPages(size) ==
  {a \in CEAddress :
     /\ a % PageSize = 0
     /\ a + size <= Top
     /\ \A i \in 1 .. Len(regions) : ~Conflicts(a, size, regions[i])}

Least(S) == CHOOSE a \in S : \A b \in S : a <= b

\* A successful allocation is the first fit at or above the cursor, and lies
\* below the cursor only when nothing above fits: the jump past a conflicting
\* region (79) skips no usable gap and the wrap to 0 comes last.
AllocateFirstFit ==
  \A size \in CEAddress : AllocateStatus(size) = "OK" =>
     LET fits == FittingPages(align_page(size))
         above == {a \in fits : a >= allocation_cursor}
     IN AllocateCandidate(size) = Least(IF above # {} THEN above ELSE fits)

\* The abstract address space: the non-empty regions, without their order.
Extents == {regions[i] : i \in {k \in 1 .. Len(regions) : regions[k].size > 0}}

Abstract == INSTANCE AddressSpace WITH space <- Extents

\* Every call, with the table's order, its first-match lookups and the search
\* from the cursor, does to the address space one of the abstract steps.
RefinesAddressSpace == Abstract!Spec
=============================================================================
