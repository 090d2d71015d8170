----------------------- MODULE CEVirtualMemoryProofs -----------------------
(***************************************************************************)
(* Theorems about CEVirtualMemory for every page size, address space size,  *)
(* region limit and set of protections: the table keeps its shape, no two   *)
(* regions overlap, queries and allocations mean what they report, and      *)
(* every call implements a step of AddressSpace.  A process takes only the  *)
(* steps of CEVirtualMemory, so that all of this holds for it.              *)
(***************************************************************************)
EXTENDS CEProcessMemory, NumberLemmas, SequenceTheorems, TLAPS

LEMMA TopPositive == Top \in Nat \ {0}
  BY PageSizeAssumption, PagesAssumption DEF Top

LEMMA RemainderBound ==
  ASSUME NEW v \in Nat, NEW d \in Nat \ {0}
  PROVE  v % d \in Nat /\ v % d < d /\ v % d <= v
  OBVIOUS

\* Rounding to a page stays within 32 bits (align_page, 6-8).
LEMMA AlignType == \A value \in Nat : align_page(value) \in CEAddress
<1> SUFFICES ASSUME NEW value \in Nat PROVE align_page(value) \in CEAddress
  OBVIOUS
<1> DEFINE v == (value + PageSize - 1) % Top
<1>1. value + PageSize - 1 \in Nat
  BY PageSizeAssumption
<1>2. v \in Nat /\ v < Top
  BY <1>1, TopPositive
<1>3. v % PageSize \in Nat /\ v % PageSize <= v
  BY <1>2, PageSizeAssumption, RemainderBound
<1> HIDE DEF v
<1>4. v - (v % PageSize) \in 0 .. Top - 1
  BY <1>2, <1>3, TopPositive
<1> QED
  BY <1>4 DEF v, align_page, CEAddress

LEMMA RegionBytes ==
  ASSUME NEW n \in CEAddress
  PROVE  /\ [0 .. n - 1 -> Bytes] \subseteq UNION {[0 .. k - 1 -> Bytes] : k \in CEAddress}
         /\ Zeroed(n) \in [0 .. n - 1 -> Bytes]
  BY ZeroByteAssumption DEF Zeroed

LEMMA InitType == Init => TableShaped
  BY CursorAssumption, MaxRegionsAssumption DEF Init, TableShaped

LEMMA MapType ==
  ASSUME TableShaped, NEW base \in CEAddress, NEW size \in CEAddress, NEW p \in Protections,
         CEVirtualMemoryMap(base, size, p)
  PROVE  TableShaped'
<1> DEFINE aligned == align_page(size)
           r == [base |-> base, size |-> aligned, protection |-> p, bytes |-> Zeroed(aligned)]
<1>1. aligned \in CEAddress /\ base + aligned <= Top /\ Len(regions) < MaxRegions
  <2>1. aligned \in CEAddress
    BY AlignType DEF CEAddress
  <2>2. base + aligned <= Top /\ ~(Len(regions) >= MaxRegions)
    BY <2>1, TopPositive DEF CEVirtualMemoryMap, MapStatus, CEAddress
  <2> QED
    BY <2>1, <2>2, MaxRegionsAssumption DEF TableShaped
<1> HIDE DEF aligned
<1>2. r \in Region /\ r.bytes \in [0 .. r.size - 1 -> Bytes]
  BY <1>1, RegionBytes DEF Region
<1> HIDE DEF r
<1>3. regions' = Append(regions, r)
  BY DEF CEVirtualMemoryMap, r, aligned
<1>4. allocation_cursor' \in CEAddress
  BY <1>1, TopPositive DEF CEVirtualMemoryMap, CEAddress, TableShaped, aligned
<1>5. r.base + r.size <= Top
  BY <1>1 DEF r
<1>6. /\ regions' \in Seq(Region) /\ Len(regions') = Len(regions) + 1
      /\ \A i \in 1 .. Len(regions) : regions'[i] = regions[i]
      /\ regions'[Len(regions) + 1] = r
  BY <1>2, <1>3, AppendProperties DEF TableShaped
<1> QED
  BY <1>1, <1>2, <1>4, <1>5, <1>6, MaxRegionsAssumption DEF TableShaped

LEMMA AllocateIsMap ==
  ASSUME NEW size \in CEAddress, NEW p \in Protections, CEVirtualMemoryAllocate(size, p)
  PROVE  \E base, n \in CEAddress : CEVirtualMemoryMap(base, n, p)
  BY AlignType DEF CEVirtualMemoryAllocate, CEAddress

\* Replacing one region by one of the same extent keeps the shape of the table.
LEMMA ExceptType ==
  ASSUME TableShaped, NEW i \in 1 .. Len(regions), NEW r \in Region,
         r.base = regions[i].base, r.size = regions[i].size,
         r.bytes \in [0 .. r.size - 1 -> Bytes],
         regions' = [regions EXCEPT ![i] = r], UNCHANGED allocation_cursor
  PROVE  TableShaped'
<1>1. /\ regions' \in Seq(Region) /\ Len(regions') = Len(regions)
      /\ \A j \in 1 .. Len(regions) : regions'[j] = IF j = i THEN r ELSE regions[j]
  BY ExceptSeq DEF TableShaped
<1>2. ASSUME NEW j \in 1 .. Len(regions')
      PROVE  /\ regions'[j].bytes \in [0 .. regions'[j].size - 1 -> Bytes]
             /\ regions'[j].base + regions'[j].size <= Top
  BY <1>1 DEF TableShaped
<1> QED
  BY <1>1, <1>2 DEF TableShaped

LEMMA RegionFields ==
  ASSUME TableShaped, NEW i \in 1 .. Len(regions)
  PROVE  /\ regions[i] \in Region
         /\ regions[i].base \in CEAddress /\ regions[i].size \in CEAddress
         /\ regions[i].protection \in Protections
         /\ regions[i].bytes \in [0 .. regions[i].size - 1 -> Bytes]
         /\ regions[i].base + regions[i].size <= Top
<1>1. regions[i] \in Region
  BY ElementOfSeq DEF TableShaped
<1> QED
  BY <1>1 DEF TableShaped, Region

LEMMA ProtectType ==
  ASSUME TableShaped, NEW address \in CEAddress, NEW size \in CEAddress, NEW p \in Protections,
         CEVirtualMemoryProtect(address, size, p)
  PROVE  TableShaped'
<1>1. PICK i \in 1 .. Len(regions) : regions' = [regions EXCEPT ![i].protection = p]
  BY DEF CEVirtualMemoryProtect
<1> DEFINE r == [regions[i] EXCEPT !.protection = p]
<1>2. /\ r \in Region /\ r.base = regions[i].base /\ r.size = regions[i].size
      /\ r.bytes = regions[i].bytes
  BY RegionFields DEF Region
<1>3. regions' = [regions EXCEPT ![i] = r]
  BY <1>1
<1> HIDE DEF r
<1> QED
  BY <1>2, <1>3, RegionFields, ExceptType DEF CEVirtualMemoryProtect

LEMMA StoredType ==
  ASSUME NEW r \in Region, r.bytes \in [0 .. r.size - 1 -> Bytes], NEW address \in CEAddress,
         NEW length \in Nat \ {0}, NEW data \in [0 .. length - 1 -> Bytes],
         Contains(r, address, length)
  PROVE  Stored(r, address, data, length) \in [0 .. r.size - 1 -> Bytes]
<1>1. r.base \in Nat /\ r.size \in Nat /\ address \in Nat
  BY TopPositive DEF Region, CEAddress
<1> QED
  BY <1>1, SMTT(40) DEF Stored

LEMMA WriteType ==
  ASSUME TableShaped, NEW address \in CEAddress, NEW length \in AccessLengths,
         NEW data \in [0 .. length - 1 -> Bytes],
         CEVirtualMemoryWrite(address, data, length)
  PROVE  TableShaped'
<1>1. PICK i \in 1 .. Len(regions) :
        /\ find_region(i, address, length)
        /\ regions' = [regions EXCEPT ![i].bytes = Stored(regions[i], address, data, length)]
  BY DEF CEVirtualMemoryWrite
<1> DEFINE stored == Stored(regions[i], address, data, length)
           r == [regions[i] EXCEPT !.bytes = stored]
<1>2. Contains(regions[i], address, length)
  BY <1>1 DEF find_region, IsFirst
<1>3. stored \in [0 .. regions[i].size - 1 -> Bytes]
  BY <1>2, RegionFields, StoredType, AccessLengthsAssumption
<1>4. regions' = [regions EXCEPT ![i] = r]
  BY <1>1
<1> HIDE DEF stored
<1>5. /\ r \in Region /\ r.base = regions[i].base /\ r.size = regions[i].size
      /\ r.bytes = stored
  BY <1>3, RegionFields, RegionBytes DEF Region
<1> HIDE DEF r
<1> QED
  BY <1>3, <1>4, <1>5, ExceptType DEF CEVirtualMemoryWrite

\* What Free leaves: every remaining entry is an old one, in the old order.
LEMMA FreeShift ==
  ASSUME TableShaped, NEW address \in CEAddress, CEVirtualMemoryFree(address)
  PROVE  \E i \in 1 .. Len(regions) :
           /\ regions[i].base = address
           /\ regions' \in Seq(Region)
           /\ Len(regions') = Len(regions) - 1
           /\ \A j \in 1 .. Len(regions') :
                 regions'[j] = IF j < i THEN regions[j] ELSE regions[j + 1]
<1>1. PICK i \in 1 .. Len(regions) :
        /\ regions[i].base = address
        /\ regions' = [j \in 1 .. Len(regions) - 1 |->
                         IF j < i THEN regions[j] ELSE regions[j + 1]]
  BY DEF CEVirtualMemoryFree, IsFirst
<1>2. Len(regions) \in Nat /\ Len(regions) - 1 \in Nat
  BY LenProperties DEF TableShaped
<1>3. \A j \in 1 .. Len(regions) - 1 : regions[j] \in Region /\ regions[j + 1] \in Region
  BY <1>2, RegionFields
<1>4. regions' \in Seq(Region) /\ Len(regions') = Len(regions) - 1
  BY <1>1, <1>2, <1>3, LenProperties
<1> QED
  BY <1>1, <1>2, <1>4

LEMMA FreeType ==
  ASSUME TableShaped, NEW address \in CEAddress, CEVirtualMemoryFree(address)
  PROVE  TableShaped'
<1>1. PICK i \in 1 .. Len(regions) :
        /\ regions' \in Seq(Region)
        /\ Len(regions') = Len(regions) - 1
        /\ \A j \in 1 .. Len(regions') :
              regions'[j] = IF j < i THEN regions[j] ELSE regions[j + 1]
  BY FreeShift
<1>2. Len(regions) \in Nat
  BY LenProperties DEF TableShaped
<1>3. ASSUME NEW j \in 1 .. Len(regions')
      PROVE  /\ regions'[j].bytes \in [0 .. regions'[j].size - 1 -> Bytes]
             /\ regions'[j].base + regions'[j].size <= Top
  <2>1. PICK k \in 1 .. Len(regions) : regions'[j] = regions[k]
    BY <1>1, <1>2
  <2> QED BY <2>1, RegionFields
<1>4. Len(regions') <= MaxRegions
  BY <1>1, <1>2, MaxRegionsAssumption DEF TableShaped
<1>5. allocation_cursor' = allocation_cursor
  BY DEF CEVirtualMemoryFree
<1> QED
  BY <1>1, <1>3, <1>4, <1>5 DEF TableShaped

LEMMA DestroyType == CEVirtualMemoryDestroy => TableShaped'
  BY CursorAssumption, MaxRegionsAssumption DEF CEVirtualMemoryDestroy, TableShaped

LEMMA NextType == TableShaped /\ [Next]_vars => TableShaped'
<1> SUFFICES ASSUME TableShaped, [Next]_vars PROVE TableShaped'
  OBVIOUS
<1>1. CASE \E base, size \in CEAddress, p \in Protections : CEVirtualMemoryMap(base, size, p)
  BY <1>1, MapType
<1>2. CASE \E size \in CEAddress, p \in Protections : CEVirtualMemoryAllocate(size, p)
  BY <1>2, AllocateIsMap, MapType
<1>3. CASE \E address, size \in CEAddress, p \in Protections :
              CEVirtualMemoryProtect(address, size, p)
  BY <1>3, ProtectType
<1>4. CASE \E address \in CEAddress : CEVirtualMemoryFree(address)
  BY <1>4, FreeType
<1>5. CASE \E address \in CEAddress, length \in AccessLengths :
              \E data \in [0 .. length - 1 -> Bytes] :
                 CEVirtualMemoryWrite(address, data, length)
  BY <1>5, WriteType
<1>6. CASE CEVirtualMemoryDestroy
  BY <1>6, DestroyType
<1>7. CASE UNCHANGED vars
  BY <1>7 DEF TableShaped, vars
<1> QED
  BY <1>1, <1>2, <1>3, <1>4, <1>5, <1>6, <1>7 DEF Next

\* The region table keeps its shape under every call: sizes match contents, no
\* region leaves the 32-bit space and the limit on regions holds.
LEMMA AlwaysShaped == Spec => []TableShaped
<1>1. Init => TableShaped
  BY InitType
<1>2. TableShaped /\ [Next]_vars => TableShaped'
  BY NextType
<1> QED
  BY <1>1, <1>2, PTL DEF Spec
-----------------------------------------------------------------------------
\* Overlap is symmetric, so Map's one-sided test (49) covers both directions.
LEMMA ConflictSymmetric ==
  ASSUME NEW r \in Region, NEW q \in Region, Conflicts(r.base, r.size, q)
  PROVE  Conflicts(q.base, q.size, r)
  BY DEF Conflicts, ranges_overlap

LEMMA MapEffect ==
  ASSUME TableShaped, NEW base \in CEAddress, NEW size \in CEAddress, NEW p \in Protections,
         CEVirtualMemoryMap(base, size, p)
  PROVE  /\ Len(regions) \in Nat
         /\ Len(regions') = Len(regions) + 1
         /\ \A i \in 1 .. Len(regions) : regions'[i] = regions[i]
         /\ regions'[Len(regions) + 1] =
               [base |-> base, size |-> align_page(size), protection |-> p,
                bytes |-> Zeroed(align_page(size))]
         /\ regions'[Len(regions) + 1] \in Region
         /\ base + align_page(size) <= Top
         /\ \A i \in 1 .. Len(regions) : ~Conflicts(base, align_page(size), regions[i])
<1> DEFINE aligned == align_page(size)
           r == [base |-> base, size |-> aligned, protection |-> p, bytes |-> Zeroed(aligned)]
<1>1. aligned \in CEAddress
  BY AlignType DEF CEAddress
<1>2. base + aligned <= Top /\ \A i \in 1 .. Len(regions) : ~Conflicts(base, aligned, regions[i])
  BY <1>1, TopPositive DEF CEVirtualMemoryMap, MapStatus, CEAddress
<1> HIDE DEF aligned
<1>3. r \in Region
  BY <1>1, RegionBytes DEF Region
<1> HIDE DEF r
<1>4. regions' = Append(regions, r)
  BY DEF CEVirtualMemoryMap, r, aligned
<1>5. /\ Len(regions) \in Nat /\ Len(regions') = Len(regions) + 1
      /\ \A i \in 1 .. Len(regions) : regions'[i] = regions[i]
      /\ regions'[Len(regions) + 1] = r
  BY <1>3, <1>4, AppendProperties, LenProperties DEF TableShaped
<1> QED
  BY <1>2, <1>3, <1>5 DEF r, aligned

LEMMA MapDisjoint ==
  ASSUME TableShaped, RegionsDisjoint, NEW base \in CEAddress, NEW size \in CEAddress,
         NEW p \in Protections, CEVirtualMemoryMap(base, size, p)
  PROVE  RegionsDisjoint'
<1> DEFINE n == Len(regions)
           r == regions'[n + 1]
<1>1. /\ n \in Nat /\ Len(regions') = n + 1 /\ r \in Region
      /\ \A i \in 1 .. n : regions'[i] = regions[i] /\ regions[i] \in Region
      /\ \A i \in 1 .. n : ~Conflicts(r.base, r.size, regions[i])
  <2>1. /\ n \in Nat /\ Len(regions') = n + 1 /\ r \in Region
        /\ \A i \in 1 .. n : regions'[i] = regions[i]
        /\ r = [base |-> base, size |-> align_page(size), protection |-> p,
                bytes |-> Zeroed(align_page(size))]
        /\ \A i \in 1 .. n : ~Conflicts(base, align_page(size), regions[i])
    BY MapEffect
  <2> HIDE DEF r
  <2>2. r.base = base /\ r.size = align_page(size)
    BY <2>1
  <2> QED
    BY <2>1, <2>2, RegionFields
<1>2. \A i \in 1 .. n : ~Conflicts(regions[i].base, regions[i].size, r)
  BY <1>1, ConflictSymmetric
<1>3. \A i, j \in 1 .. n : i # j => ~Conflicts(regions[i].base, regions[i].size, regions[j])
  BY DEF RegionsDisjoint
<1> HIDE DEF n, r
<1>4. ASSUME NEW i \in 1 .. n + 1, NEW j \in 1 .. n + 1, i # j
      PROVE  ~Conflicts(regions'[i].base, regions'[i].size, regions'[j])
  <2>1. i \in 1 .. n \/ (i = n + 1 /\ regions'[i] = r)
    BY <1>1 DEF r
  <2>2. j \in 1 .. n \/ (j = n + 1 /\ regions'[j] = r)
    BY <1>1 DEF r
  <2>3. CASE i \in 1 .. n /\ j \in 1 .. n
    BY <2>3, <1>1, <1>3, <1>4
  <2>4. CASE i \in 1 .. n /\ j = n + 1
    BY <2>4, <2>2, <1>1, <1>2
  <2>5. CASE i = n + 1 /\ j \in 1 .. n
    BY <2>5, <2>1, <1>1
  <2> QED
    BY <1>1, <1>4, <2>1, <2>2, <2>3, <2>4, <2>5
<1> QED
  BY <1>1, <1>4 DEF RegionsDisjoint, Conflicts

\* A step that keeps every region's place and extent keeps them disjoint.
LEMMA SameExtentsDisjoint ==
  ASSUME RegionsDisjoint, Len(regions') = Len(regions),
         \A i \in 1 .. Len(regions) :
            regions'[i].base = regions[i].base /\ regions'[i].size = regions[i].size
  PROVE  RegionsDisjoint'
  BY DEF RegionsDisjoint, Conflicts

LEMMA ProtectEffect ==
  ASSUME TableShaped, NEW address \in CEAddress, NEW size \in CEAddress, NEW p \in Protections,
         CEVirtualMemoryProtect(address, size, p)
  PROVE  \E i \in 1 .. Len(regions) :
           /\ regions[i].size > 0
           /\ Len(regions') = Len(regions)
           /\ \A j \in 1 .. Len(regions) :
                 regions'[j] = IF j = i THEN [regions[i] EXCEPT !.protection = p] ELSE regions[j]
<1>1. PICK i \in 1 .. Len(regions) :
        find_region(i, address, size) /\ regions' = [regions EXCEPT ![i].protection = p]
  BY DEF CEVirtualMemoryProtect
<1>2. Contains(regions[i], address, size) /\ size # 0
  BY <1>1 DEF find_region, IsFirst, CEVirtualMemoryProtect
<1>3. regions[i].size > 0
  BY <1>2, RegionFields, TopPositive DEF Contains, CEAddress
<1> DEFINE r == [regions[i] EXCEPT !.protection = p]
<1>4. r \in Region /\ regions' = [regions EXCEPT ![i] = r]
  BY <1>1, RegionFields DEF Region
<1> HIDE DEF r
<1>5. /\ Len(regions') = Len(regions)
      /\ \A j \in 1 .. Len(regions) : regions'[j] = IF j = i THEN r ELSE regions[j]
  BY <1>4, ExceptSeq DEF TableShaped
<1> QED
  BY <1>3, <1>5 DEF r

LEMMA WriteEffect ==
  ASSUME TableShaped, NEW address \in CEAddress, NEW length \in AccessLengths,
         NEW data \in [0 .. length - 1 -> Bytes],
         CEVirtualMemoryWrite(address, data, length)
  PROVE  \E i \in 1 .. Len(regions) :
           LET stored == Stored(regions[i], address, data, length) IN
           /\ Contains(regions[i], address, length)
           /\ "WRITE" \in regions[i].protection
           /\ stored \in [0 .. regions[i].size - 1 -> Bytes]
           /\ Len(regions') = Len(regions)
           /\ \A j \in 1 .. Len(regions) :
                 regions'[j] = IF j = i THEN [regions[i] EXCEPT !.bytes = stored] ELSE regions[j]
<1>1. PICK i \in 1 .. Len(regions) :
        /\ find_region(i, address, length)
        /\ "WRITE" \in regions[i].protection
        /\ regions' = [regions EXCEPT ![i].bytes = Stored(regions[i], address, data, length)]
  BY DEF CEVirtualMemoryWrite
<1> DEFINE stored == Stored(regions[i], address, data, length)
           r == [regions[i] EXCEPT !.bytes = stored]
<1>2. Contains(regions[i], address, length)
  BY <1>1 DEF find_region, IsFirst
<1>3. stored \in [0 .. regions[i].size - 1 -> Bytes]
  BY <1>2, RegionFields, StoredType, AccessLengthsAssumption
<1>4. regions' = [regions EXCEPT ![i] = r]
  BY <1>1
<1> HIDE DEF stored
<1>5. r \in Region
  BY <1>3, RegionFields, RegionBytes DEF Region
<1> HIDE DEF r
<1>6. /\ Len(regions') = Len(regions)
      /\ \A j \in 1 .. Len(regions) : regions'[j] = IF j = i THEN r ELSE regions[j]
  BY <1>4, <1>5, ExceptSeq DEF TableShaped
<1> QED
  BY <1>1, <1>2, <1>3, <1>6 DEF r, stored

LEMMA NextDisjoint == TableShaped /\ RegionsDisjoint /\ [Next]_vars => RegionsDisjoint'
<1> SUFFICES ASSUME TableShaped, RegionsDisjoint, [Next]_vars PROVE RegionsDisjoint'
  OBVIOUS
<1>1. CASE \E base, size \in CEAddress, p \in Protections : CEVirtualMemoryMap(base, size, p)
  BY <1>1, MapDisjoint
<1>2. CASE \E size \in CEAddress, p \in Protections : CEVirtualMemoryAllocate(size, p)
  BY <1>2, AllocateIsMap, MapDisjoint
<1>3. CASE \E address, size \in CEAddress, p \in Protections :
              CEVirtualMemoryProtect(address, size, p)
  <2>0. PICK address \in CEAddress, size \in CEAddress, p \in Protections :
           CEVirtualMemoryProtect(address, size, p)
    BY <1>3
  <2>1. PICK i \in 1 .. Len(regions) :
           /\ Len(regions') = Len(regions)
           /\ \A j \in 1 .. Len(regions) :
                 regions'[j] = IF j = i THEN [regions[i] EXCEPT !.protection = p] ELSE regions[j]
    BY <2>0, ProtectEffect
  <2>2. \A j \in 1 .. Len(regions) :
            regions'[j].base = regions[j].base /\ regions'[j].size = regions[j].size
    BY <2>1, RegionFields DEF Region
  <2> QED
    BY <2>1, <2>2, SameExtentsDisjoint
<1>4. CASE \E address \in CEAddress : CEVirtualMemoryFree(address)
  <2>1. PICK i \in 1 .. Len(regions) :
           /\ Len(regions') = Len(regions) - 1
           /\ \A j \in 1 .. Len(regions') :
                 regions'[j] = IF j < i THEN regions[j] ELSE regions[j + 1]
    BY <1>4, FreeShift
  <2> QED
    BY <2>1, LenProperties, SMTT(40) DEF TableShaped, RegionsDisjoint, Conflicts
<1>5. CASE \E address \in CEAddress, length \in AccessLengths :
              \E data \in [0 .. length - 1 -> Bytes] :
                 CEVirtualMemoryWrite(address, data, length)
  <2>1. PICK address \in CEAddress, length \in AccessLengths :
           \E data \in [0 .. length - 1 -> Bytes] : CEVirtualMemoryWrite(address, data, length)
    BY <1>5
  <2>2. PICK data \in [0 .. length - 1 -> Bytes] : CEVirtualMemoryWrite(address, data, length)
    BY <2>1
  <2>3. PICK i \in 1 .. Len(regions) :
           /\ Len(regions') = Len(regions)
           /\ \A j \in 1 .. Len(regions) : regions'[j] = IF j = i
                 THEN [regions[i] EXCEPT !.bytes = Stored(regions[i], address, data, length)]
                 ELSE regions[j]
    BY <2>2, WriteEffect
  <2>4. \A j \in 1 .. Len(regions) :
            regions'[j].base = regions[j].base /\ regions'[j].size = regions[j].size
    BY <2>3, RegionFields DEF Region
  <2> QED
    BY <2>3, <2>4, SameExtentsDisjoint
<1>6. CASE CEVirtualMemoryDestroy
  BY <1>6 DEF CEVirtualMemoryDestroy, RegionsDisjoint
<1>7. CASE UNCHANGED vars
  BY <1>7 DEF RegionsDisjoint, Conflicts, vars
<1> QED
  BY <1>1, <1>2, <1>3, <1>4, <1>5, <1>6, <1>7 DEF Next

\* No guest address is ever in two regions, so first-match lookup is the only
\* possible answer of find_region, Query, Protect, Read and Write.
THEOREM DisjointRegions == Spec => []RegionsDisjoint
<1>1. Init => RegionsDisjoint
  BY DEF Init, RegionsDisjoint
<1>2. TableShaped /\ RegionsDisjoint /\ [Next]_vars => RegionsDisjoint'
  BY NextDisjoint
<1> QED
  BY <1>1, <1>2, AlwaysShaped, PTL DEF Spec
-----------------------------------------------------------------------------
(***************************************************************************)
(* Refinement.  Disjointness makes the non-empty regions distinct records,  *)
(* so a change of one table entry is a change of one extent of the set.     *)
(***************************************************************************)
LEMMA NonEmptyDistinct ==
  ASSUME TableShaped, RegionsDisjoint, NEW i \in 1 .. Len(regions), NEW j \in 1 .. Len(regions),
         i # j, regions[i].size > 0
  PROVE  regions[i] # regions[j]
<1>1. ~Conflicts(regions[i].base, regions[i].size, regions[j])
  BY DEF RegionsDisjoint
<1>2. regions[i].base \in Nat /\ regions[i].size \in Nat
  BY RegionFields DEF CEAddress
<1> QED
  BY <1>1, <1>2 DEF Conflicts, ranges_overlap

LEMMA ReplaceExtent ==
  ASSUME TableShaped, RegionsDisjoint, NEW i \in 1 .. Len(regions), NEW r,
         regions[i].size > 0, r.size > 0, Len(regions') = Len(regions),
         \A j \in 1 .. Len(regions) : regions'[j] = IF j = i THEN r ELSE regions[j]
  PROVE  Extents' = (Extents \ {regions[i]}) \cup {r}
<1>1. \A j \in 1 .. Len(regions) : j # i => regions[j] # regions[i]
  BY NonEmptyDistinct
<1>2. ASSUME NEW e \in Extents' PROVE e \in (Extents \ {regions[i]}) \cup {r}
  BY <1>1, <1>2 DEF Extents
<1>3. ASSUME NEW e \in (Extents \ {regions[i]}) \cup {r} PROVE e \in Extents'
  <2>1. CASE e = r
    BY <2>1 DEF Extents
  <2>2. CASE e \in Extents \ {regions[i]}
    <3>1. PICK j \in 1 .. Len(regions) : e = regions[j] /\ regions[j].size > 0 /\ j # i
      BY <2>2 DEF Extents
    <3> QED
      BY <3>1 DEF Extents
  <2> QED
    BY <1>3, <2>1, <2>2
<1> QED
  BY <1>2, <1>3

LEMMA MapRefines ==
  ASSUME TableShaped, NEW base \in CEAddress, NEW size \in CEAddress, NEW p \in Protections,
         CEVirtualMemoryMap(base, size, p)
  PROVE  [Abstract!Next]_Extents
<1> DEFINE n == align_page(size)
           r == [base |-> base, size |-> n, protection |-> p, bytes |-> [o \in 0 .. n - 1 |-> 0]]
<1>1. /\ Len(regions) \in Nat /\ Len(regions') = Len(regions) + 1
      /\ \A i \in 1 .. Len(regions) : regions'[i] = regions[i]
      /\ regions'[Len(regions) + 1] = r
      /\ base + n <= Top
      /\ \A i \in 1 .. Len(regions) : ~Conflicts(base, n, regions[i])
  BY MapEffect DEF Zeroed
<1>2. n \in CEAddress
  BY AlignType DEF CEAddress
<1> HIDE DEF n
<1>r. r.base = base /\ r.size = n /\ r.bytes = [o \in 0 .. n - 1 |-> 0]
  OBVIOUS
<1>3. CASE n = 0
  <2>1. r.size = 0
    BY <1>3
  <2> HIDE DEF r
  <2>2. Extents' = Extents
    BY <1>1, <2>1 DEF Extents
  <2> QED
    BY <2>2
<1>4. CASE n > 0
  <2>1. r.size > 0
    BY <1>4
  <2>2. Extents' = Extents \cup {r}
    <3> HIDE DEF r
    <3> QED
      BY <1>1, <2>1 DEF Extents
  <2>3. \A e \in Extents : Abstract!Apart(base, n, e.base, e.size)
    <3>1. SUFFICES ASSUME NEW i \in 1 .. Len(regions), regions[i].size > 0
                   PROVE  Abstract!Apart(base, n, regions[i].base, regions[i].size)
      BY DEF Extents
    <3>2. /\ ~Conflicts(base, n, regions[i]) /\ base \in Nat /\ n \in Nat
          /\ regions[i].base \in Nat /\ regions[i].size \in Nat
      BY <1>1, <1>2, RegionFields DEF CEAddress
    <3> QED
      BY <3>2 DEF Conflicts, ranges_overlap, Abstract!Apart
  <2>4. base \in 0 .. Top - 1 /\ n \in 1 .. Top
    BY <1>2, <1>4, TopPositive DEF CEAddress
  <2>5. Abstract!Add(r)
    <3> HIDE DEF r
    <3> QED
      BY <1>1, <1>r, <2>2, <2>3 DEF Abstract!Add
  <2> QED
    BY <2>4, <2>5 DEF Abstract!Next
<1> QED
  BY <1>2, <1>3, <1>4 DEF CEAddress

LEMMA ProtectRefines ==
  ASSUME TableShaped, RegionsDisjoint, NEW address \in CEAddress, NEW size \in CEAddress,
         NEW p \in Protections, CEVirtualMemoryProtect(address, size, p)
  PROVE  [Abstract!Next]_Extents
<1>1. PICK i \in 1 .. Len(regions) :
        /\ regions[i].size > 0
        /\ Len(regions') = Len(regions)
        /\ \A j \in 1 .. Len(regions) :
              regions'[j] = IF j = i THEN [regions[i] EXCEPT !.protection = p] ELSE regions[j]
  BY ProtectEffect
<1> DEFINE r == [regions[i] EXCEPT !.protection = p]
<1>2. r.size > 0
  BY <1>1, RegionFields DEF Region
<1>3. Extents' = (Extents \ {regions[i]}) \cup {r}
  <2> HIDE DEF r
  <2>1. \A j \in 1 .. Len(regions) : regions'[j] = IF j = i THEN r ELSE regions[j]
    BY <1>1 DEF r
  <2> QED
    BY <1>1, <1>2, <2>1, ReplaceExtent
<1>4. regions[i] \in Extents
  BY <1>1 DEF Extents
<1> QED
  BY <1>3, <1>4 DEF Abstract!Next, Abstract!SetProtection

LEMMA FreeRefines ==
  ASSUME TableShaped, RegionsDisjoint, NEW address \in CEAddress, CEVirtualMemoryFree(address)
  PROVE  [Abstract!Next]_Extents
<1>1. PICK i \in 1 .. Len(regions) :
        /\ Len(regions') = Len(regions) - 1
        /\ \A j \in 1 .. Len(regions') :
              regions'[j] = IF j < i THEN regions[j] ELSE regions[j + 1]
  BY FreeShift
<1>2. Len(regions) \in Nat
  BY LenProperties DEF TableShaped
<1>3. \A e \in Extents' : \E j \in 1 .. Len(regions) :
         j # i /\ e = regions[j] /\ regions[j].size > 0
  <2>1. SUFFICES ASSUME NEW k \in 1 .. Len(regions'), regions'[k].size > 0
                 PROVE  \E j \in 1 .. Len(regions) :
                           j # i /\ regions'[k] = regions[j] /\ regions[j].size > 0
    BY DEF Extents
  <2>2. CASE k < i
    BY <1>1, <1>2, <2>1, <2>2
  <2>3. CASE k >= i
    <3>1. k + 1 \in 1 .. Len(regions) /\ k + 1 # i /\ regions'[k] = regions[k + 1]
      BY <1>1, <1>2, <2>1, <2>3
    <3> QED
      BY <2>1, <3>1
  <2> QED
    BY <1>2, <2>2, <2>3
<1>4. ASSUME NEW j \in 1 .. Len(regions), j # i, regions[j].size > 0
      PROVE  regions[j] \in Extents'
  <2>1. CASE j < i
    <3>1. j \in 1 .. Len(regions') /\ regions'[j] = regions[j]
      BY <1>1, <1>2, <2>1
    <3> QED
      BY <1>4, <3>1 DEF Extents
  <2>2. CASE j > i
    <3>1. j - 1 \in 1 .. Len(regions') /\ ~(j - 1 < i) /\ (j - 1) + 1 = j
      BY <1>1, <1>2, <2>2
    <3>2. regions'[j - 1] = regions[j]
      BY <1>1, <3>1
    <3> QED
      BY <1>4, <3>1, <3>2 DEF Extents
  <2> QED
    BY <1>4, <1>2, <2>1, <2>2
<1>5. CASE regions[i].size > 0
  <2>1. regions[i] \in Extents
    BY <1>5 DEF Extents
  <2>2. Extents' = Extents \ {regions[i]}
    <3>1. \A j \in 1 .. Len(regions) : j # i => regions[j] # regions[i]
      BY <1>5, NonEmptyDistinct
    <3>2. Extents' \subseteq Extents \ {regions[i]}
      BY <1>3, <3>1 DEF Extents
    <3>3. Extents \ {regions[i]} \subseteq Extents'
      <4>1. SUFFICES ASSUME NEW e \in Extents, e # regions[i] PROVE e \in Extents'
        OBVIOUS
      <4>2. PICK j \in 1 .. Len(regions) : e = regions[j] /\ regions[j].size > 0
        BY <4>1 DEF Extents
      <4> QED
        BY <4>1, <4>2, <1>4
    <3> QED
      BY <3>2, <3>3
  <2> QED
    BY <2>1, <2>2 DEF Abstract!Next, Abstract!Remove
<1>6. CASE ~(regions[i].size > 0)
  <2>1. Extents' \subseteq Extents
    BY <1>3 DEF Extents
  <2>2. Extents \subseteq Extents'
    <3>1. SUFFICES ASSUME NEW e \in Extents PROVE e \in Extents'
      OBVIOUS
    <3>2. PICK j \in 1 .. Len(regions) : e = regions[j] /\ regions[j].size > 0
      BY <3>1 DEF Extents
    <3> QED
      BY <3>2, <1>4, <1>6
  <2> QED
    BY <2>1, <2>2
<1> QED
  BY <1>5, <1>6

LEMMA WriteRefines ==
  ASSUME TableShaped, RegionsDisjoint, NEW address \in CEAddress, NEW length \in AccessLengths,
         NEW data \in [0 .. length - 1 -> Bytes],
         CEVirtualMemoryWrite(address, data, length)
  PROVE  [Abstract!Next]_Extents
<1>1. PICK i \in 1 .. Len(regions) :
        /\ Contains(regions[i], address, length)
        /\ "WRITE" \in regions[i].protection
        /\ Stored(regions[i], address, data, length) \in [0 .. regions[i].size - 1 -> Bytes]
        /\ Len(regions') = Len(regions)
        /\ \A j \in 1 .. Len(regions) : regions'[j] = IF j = i
              THEN [regions[i] EXCEPT !.bytes = Stored(regions[i], address, data, length)]
              ELSE regions[j]
  BY WriteEffect
<1> DEFINE stored == Stored(regions[i], address, data, length)
           r == [regions[i] EXCEPT !.bytes = stored]
<1>2. /\ regions[i].base \in CEAddress /\ regions[i].size \in CEAddress
      /\ regions[i].base + regions[i].size <= Top
      /\ length \in Nat \ {0}
  BY RegionFields, AccessLengthsAssumption
<1>3. /\ regions[i].base <= address
      /\ address + length <= regions[i].base + regions[i].size
      /\ regions[i].size > 0 /\ length \in 1 .. Top
  BY <1>1, <1>2, TopPositive, SMTT(40) DEF Contains, CEAddress
<1>4. \A o \in 0 .. regions[i].size - 1 :
         regions[i].base + o \notin address .. address + length - 1 =>
            stored[o] = regions[i].bytes[o]
  BY DEF Stored
<1>5. stored \in [0 .. regions[i].size - 1 -> Bytes]
  BY <1>1
<1> HIDE DEF stored
<1>6. r.size > 0
  BY <1>3, RegionFields DEF Region
<1>7. Extents' = (Extents \ {regions[i]}) \cup {r}
  <2>1. \A j \in 1 .. Len(regions) : regions'[j] = IF j = i THEN r ELSE regions[j]
    BY <1>1 DEF stored
  <2> HIDE DEF r
  <2> QED
    BY <1>1, <1>3, <1>6, <2>1, ReplaceExtent
<1>8. regions[i] \in Extents
  BY <1>3 DEF Extents
<1>9. Abstract!Store(regions[i], stored, address, length)
  BY <1>1, <1>3, <1>4, <1>7 DEF Abstract!Store
<1> QED
  BY <1>3, <1>5, <1>8, <1>9 DEF Abstract!Next, CEAddress

\* The table of regions with its order, its first-match lookups and the search
\* from the cursor implements the abstract address space.
THEOREM Refinement == Spec => RefinesAddressSpace
<1>1. Init => Abstract!Init
  BY DEF Init, Abstract!Init, Extents
<1>2. TableShaped /\ RegionsDisjoint /\ [Next]_vars => [Abstract!Next]_Extents
  <2> SUFFICES ASSUME TableShaped, RegionsDisjoint, [Next]_vars PROVE [Abstract!Next]_Extents
    OBVIOUS
  <2>1. CASE \E base, size \in CEAddress, p \in Protections : CEVirtualMemoryMap(base, size, p)
    BY <2>1, MapRefines
  <2>2. CASE \E size \in CEAddress, p \in Protections : CEVirtualMemoryAllocate(size, p)
    BY <2>2, AllocateIsMap, MapRefines
  <2>3. CASE \E address, size \in CEAddress, p \in Protections :
                CEVirtualMemoryProtect(address, size, p)
    BY <2>3, ProtectRefines
  <2>4. CASE \E address \in CEAddress : CEVirtualMemoryFree(address)
    BY <2>4, FreeRefines
  <2>5. CASE \E address \in CEAddress, length \in AccessLengths :
                \E data \in [0 .. length - 1 -> Bytes] :
                   CEVirtualMemoryWrite(address, data, length)
    BY <2>5, WriteRefines
  <2>6. CASE CEVirtualMemoryDestroy
    BY <2>6 DEF CEVirtualMemoryDestroy, Extents, Abstract!Next, Abstract!Clear
  <2>7. CASE UNCHANGED vars
    BY <2>7 DEF vars, Extents
  <2> QED
    BY <2>1, <2>2, <2>3, <2>4, <2>5, <2>6, <2>7 DEF Next
<1> QED
  BY <1>1, <1>2, AlwaysShaped, DisjointRegions, PTL DEF Spec, RefinesAddressSpace, Abstract!Spec
-----------------------------------------------------------------------------
\* Two ranges of which each holds a overlap.
LEMMA SharedMeet ==
  ASSUME NEW a \in Nat, NEW n \in Nat \ {0},
         NEW x \in Nat, NEW s \in Nat, NEW y \in Nat, NEW t \in Nat,
         a >= x, a + 1 <= x + s, a >= y, a + n <= y + t
  PROVE  x < y + t /\ y < x + s
  OBVIOUS

\* A region that contains a whole range contains its first address, and is then the only
\* one that does, so it is the one that every lookup finds.
LEMMA OneRegion ==
  ASSUME TableShaped, RegionsDisjoint, NEW i \in 1 .. Len(regions), NEW j \in 1 .. Len(regions),
         NEW a \in CEAddress, NEW n \in Nat \ {0},
         Contains(regions[i], a, 1), Contains(regions[j], a, n)
  PROVE  i = j
<1>1. /\ regions[i].base \in Nat /\ regions[i].size \in Nat
      /\ regions[j].base \in Nat /\ regions[j].size \in Nat /\ a \in Nat
  BY RegionFields, TopPositive DEF CEAddress
<1>2. /\ a >= regions[i].base /\ a + 1 <= regions[i].base + regions[i].size
      /\ a >= regions[j].base /\ a + n <= regions[j].base + regions[j].size
  BY DEF Contains
<1>3. /\ regions[i].base < regions[j].base + regions[j].size
      /\ regions[j].base < regions[i].base + regions[i].size
  BY <1>1, <1>2, SharedMeet
<1>4. Conflicts(regions[i].base, regions[i].size, regions[j])
  BY <1>3 DEF Conflicts, ranges_overlap
<1> QED
  BY <1>4 DEF RegionsDisjoint

LEMMA FoundRegion ==
  ASSUME TableShaped, RegionsDisjoint, NEW i \in 1 .. Len(regions), NEW a \in CEAddress,
         Contains(regions[i], a, 1)
  PROVE  /\ \A n \in Nat \ {0} : \A j \in 1 .. Len(regions) :
               find_region(j, a, n) <=> j = i /\ Contains(regions[i], a, n)
         /\ CEVirtualMemoryQuery(a) = [protection |-> regions[i].protection,
                                       remaining |-> regions[i].size - (a - regions[i].base)]
<1>1. Len(regions) \in Nat
  BY LenProperties DEF TableShaped
<1>2. ASSUME NEW n \in Nat \ {0}, NEW j \in 1 .. Len(regions)
      PROVE  find_region(j, a, n) <=> j = i /\ Contains(regions[i], a, n)
  <2>1. ASSUME find_region(j, a, n)
        PROVE  j = i /\ Contains(regions[i], a, n)
    <3>1. Contains(regions[j], a, n)
      BY <2>1 DEF find_region, IsFirst
    <3>2. i = j
      BY <3>1, OneRegion
    <3> QED
      BY <3>1, <3>2
  <2>2. ASSUME j = i, Contains(regions[i], a, n)
        PROVE  find_region(j, a, n)
    <3>1. ASSUME NEW k \in 1 .. i - 1
          PROVE  ~Contains(regions[k], a, n)
      <4>1. k \in 1 .. Len(regions) /\ k # i
        BY <1>1
      <4> QED
        BY <4>1, OneRegion
    <3> QED
      BY <2>2, <3>1 DEF find_region, IsFirst
  <2> QED
    BY <2>1, <2>2
<1>3. (CHOOSE j \in 1 .. Len(regions) : find_region(j, a, 1)) = i
  <2>1. \A j \in 1 .. Len(regions) : find_region(j, a, 1) <=> j = i
    BY <1>2
  <2> QED
    BY <2>1
<1>4. CEVirtualMemoryQuery(a) = [protection |-> regions[i].protection,
                                 remaining |-> regions[i].size - (a - regions[i].base)]
  BY <1>3, Zenon DEF CEVirtualMemoryQuery
<1> QED
  BY <1>2, <1>4

\* What a query reports is how far an access may reach, whatever lies behind the region
\* (CEVirtualMemory.c 116-124 and 126-145).
THEOREM QueriesBoundAccesses == Spec => []QueryBoundsAccess
<1>1. ASSUME TableShaped, RegionsDisjoint
      PROVE  QueryBoundsAccess
  <2> SUFFICES ASSUME NEW a \in CEAddress, QueryStatus(a) = "OK", NEW right \in {"READ", "WRITE"}
               PROVE  LET q == CEVirtualMemoryQuery(a) IN
                      /\ right \in q.protection <=> AccessStatus(a, q.remaining, right) = "OK"
                      /\ AccessStatus(a, q.remaining + 1, right) = "ACCESS_VIOLATION"
    BY DEF QueryBoundsAccess
  <2>1. PICK i \in 1 .. Len(regions) : Contains(regions[i], a, 1)
    BY DEF QueryStatus
  <2> DEFINE n == regions[i].size - (a - regions[i].base)
  <2>2. /\ regions[i].base \in Nat /\ regions[i].size \in Nat /\ a \in Nat
    BY <1>1, RegionFields, TopPositive DEF CEAddress
  <2>3. /\ n \in Nat \ {0} /\ n + 1 \in Nat \ {0}
        /\ Contains(regions[i], a, n) /\ ~Contains(regions[i], a, n + 1)
    <3> DEFINE base == regions[i].base
               size == regions[i].size
    <3>1. a >= base /\ a + 1 <= base + size
      BY <2>1 DEF Contains
    <3>2. base \in Nat /\ size \in Nat /\ a \in Nat /\ n = size - (a - base)
      BY <2>2
    <3> HIDE DEF base, size, n
    <3>3. /\ n \in Nat \ {0} /\ n + 1 \in Nat \ {0}
          /\ a + n <= base + size /\ ~(a + (n + 1) <= base + size)
      BY <3>1, <3>2
    <3> QED
      BY <3>1, <3>3 DEF Contains, base, size
  <2>4. /\ CEVirtualMemoryQuery(a).protection = regions[i].protection
        /\ CEVirtualMemoryQuery(a).remaining = n
    BY <1>1, <2>1, FoundRegion
  <2> HIDE DEF n
  <2>5. \A j \in 1 .. Len(regions) : /\ find_region(j, a, n) <=> j = i
                                     /\ ~find_region(j, a, n + 1)
    BY <1>1, <2>1, <2>3, FoundRegion
  <2>6. right \in regions[i].protection <=> AccessStatus(a, n, right) = "OK"
    BY <2>3, <2>5 DEF AccessStatus
  <2>7. AccessStatus(a, n + 1, right) = "ACCESS_VIOLATION"
    BY <2>3, <2>5 DEF AccessStatus
  <2> QED
    BY <2>4, <2>6, <2>7
<1> QED
  BY <1>1, AlwaysShaped, DisjointRegions, PTL
-----------------------------------------------------------------------------
(***************************************************************************)
(* The search of an allocation.  Everything the table and the cursor hold   *)
(* is a page multiple, so rounding changes no candidate and a jump past a   *)
(* region lands exactly on its end.  Then no fit is ever jumped over.       *)
(***************************************************************************)
LEMMA AlignedResult == \A value \in Nat : align_page(value) % PageSize = 0
<1> SUFFICES ASSUME NEW value \in Nat PROVE align_page(value) % PageSize = 0
  OBVIOUS
<1> DEFINE v == (value + PageSize - 1) % Top
<1>1. v \in Nat
  BY PageSizeAssumption, TopPositive, RemainderBound
<1> HIDE DEF v
<1>2. (v - (v % PageSize)) % PageSize = 0
  BY <1>1, PageSizeAssumption, RoundedDown
<1> QED
  BY <1>2 DEF align_page, v

LEMMA PageFits ==
  ASSUME NEW a \in CEAddress, a % PageSize = 0
  PROVE  a + PageSize <= Top
<1>0. a \in Nat
  BY TopPositive DEF CEAddress
<1>1. PICK q \in Nat : a = PageSize * q
  BY <1>0, PageSizeAssumption, MultipleOf
<1>2. PageSize * q < PageSize * Pages
  BY <1>1, TopPositive DEF CEAddress, Top
<1> QED
  BY <1>1, <1>2, PageSizeAssumption, PagesAssumption, NextMultiple DEF Top

LEMMA AlignedKept ==
  ASSUME NEW a \in CEAddress, a % PageSize = 0
  PROVE  align_page(a) = a
<1>1. /\ a \in Nat /\ PageSize \in Nat \ {0} /\ Top \in Nat \ {0}
      /\ a + PageSize - 1 < Top /\ a + PageSize - 1 \in Nat
  BY PageFits, PageSizeAssumption, TopPositive DEF CEAddress
<1>2. (a + PageSize - 1) % Top = a + PageSize - 1
  BY <1>1
<1>3. (a + PageSize - 1) % PageSize = PageSize - 1
  <2>1. PICK q \in Nat : a = PageSize * q
    BY <1>1, MultipleOf
  <2>2. /\ a + PageSize - 1 \in Int /\ q \in Int
        /\ a + PageSize - 1 = PageSize * q + (PageSize - 1) /\ PageSize - 1 \in 0 .. PageSize - 1
    BY <1>1, <2>1
  <2> HIDE <2>1
  <2> QED
    BY <1>1, <2>2, RemainderIs
<1> QED
  BY <1>1, <1>2, <1>3 DEF align_page

\* A region that is mapped starts and ends on a page and leaves the cursor on one.
LEMMA MapAligned ==
  ASSUME TableShaped, Aligned, NEW base \in CEAddress, NEW size \in CEAddress,
         NEW p \in Protections, CEVirtualMemoryMap(base, size, p)
  PROVE  Aligned'
<1> DEFINE n == align_page(size)
<1>1. /\ n \in CEAddress /\ n % PageSize = 0
  BY AlignType, AlignedResult DEF CEAddress
<1>2. base % PageSize = 0
  BY DEF CEVirtualMemoryMap, MapStatus
<1>3. allocation_cursor' = base + n \/ allocation_cursor' = allocation_cursor
  BY DEF CEVirtualMemoryMap
<1>4. /\ Len(regions) \in Nat /\ Len(regions') = Len(regions) + 1
      /\ \A i \in 1 .. Len(regions) : regions'[i] = regions[i]
      /\ regions'[Len(regions) + 1] = [base |-> base, size |-> n, protection |-> p,
                                       bytes |-> Zeroed(n)]
  BY MapEffect
<1> HIDE DEF n
<1>8. base \in Nat /\ n \in Nat
  BY <1>1, TopPositive DEF CEAddress
<1>5. (base + n) % PageSize = 0
  BY <1>1, <1>2, <1>8, PageSizeAssumption, SumOfMultiples
<1>6. allocation_cursor' % PageSize = 0
  BY <1>3, <1>5 DEF Aligned
<1>7. ASSUME NEW i \in 1 .. Len(regions')
      PROVE  regions'[i].base % PageSize = 0 /\ regions'[i].size % PageSize = 0
  BY <1>1, <1>2, <1>4 DEF Aligned
<1> QED
  BY <1>6, <1>7 DEF Aligned

\* A step that keeps every region's place and extent, and the cursor, keeps them aligned.
LEMMA SameExtentsAligned ==
  ASSUME Aligned, Len(regions') = Len(regions), UNCHANGED allocation_cursor,
         \A i \in 1 .. Len(regions) :
            regions'[i].base = regions[i].base /\ regions'[i].size = regions[i].size
  PROVE  Aligned'
  BY DEF Aligned

LEMMA NextAligned == TableShaped /\ Aligned /\ [Next]_vars => Aligned'
<1> SUFFICES ASSUME TableShaped, Aligned, [Next]_vars PROVE Aligned'
  OBVIOUS
<1>1. CASE \E base, size \in CEAddress, p \in Protections : CEVirtualMemoryMap(base, size, p)
  BY <1>1, MapAligned
<1>2. CASE \E size \in CEAddress, p \in Protections : CEVirtualMemoryAllocate(size, p)
  BY <1>2, AllocateIsMap, MapAligned
<1>3. CASE \E address, size \in CEAddress, p \in Protections :
              CEVirtualMemoryProtect(address, size, p)
  <2>1. PICK address \in CEAddress, size \in CEAddress, p \in Protections :
           CEVirtualMemoryProtect(address, size, p)
    BY <1>3
  <2>2. PICK i \in 1 .. Len(regions) :
           /\ Len(regions') = Len(regions)
           /\ \A j \in 1 .. Len(regions) :
                 regions'[j] = IF j = i THEN [regions[i] EXCEPT !.protection = p] ELSE regions[j]
    BY <2>1, ProtectEffect
  <2>3. \A j \in 1 .. Len(regions) :
            regions'[j].base = regions[j].base /\ regions'[j].size = regions[j].size
    BY <2>2, RegionFields DEF Region
  <2> QED
    BY <2>1, <2>2, <2>3, SameExtentsAligned DEF CEVirtualMemoryProtect
<1>4. CASE \E address \in CEAddress : CEVirtualMemoryFree(address)
  <2>1. PICK i \in 1 .. Len(regions) :
           /\ Len(regions') = Len(regions) - 1
           /\ \A j \in 1 .. Len(regions') :
                 regions'[j] = IF j < i THEN regions[j] ELSE regions[j + 1]
    BY <1>4, FreeShift
  <2>2. Len(regions) \in Nat /\ allocation_cursor' = allocation_cursor
    BY <1>4, LenProperties DEF TableShaped, CEVirtualMemoryFree
  <2>3. ASSUME NEW j \in 1 .. Len(regions')
        PROVE  \E k \in 1 .. Len(regions) : regions'[j] = regions[k]
    BY <2>1, <2>2
  <2> QED
    BY <2>2, <2>3 DEF Aligned
<1>5. CASE \E address \in CEAddress, length \in AccessLengths :
              \E data \in [0 .. length - 1 -> Bytes] :
                 CEVirtualMemoryWrite(address, data, length)
  <2>1. PICK address \in CEAddress, length \in AccessLengths :
              \E data \in [0 .. length - 1 -> Bytes] :
                 CEVirtualMemoryWrite(address, data, length)
    BY <1>5
  <2>2. PICK data \in [0 .. length - 1 -> Bytes] : CEVirtualMemoryWrite(address, data, length)
    BY <2>1
  <2> DEFINE stored(i) == Stored(regions[i], address, data, length)
  <2>3. PICK i \in 1 .. Len(regions) :
           /\ Len(regions') = Len(regions)
           /\ \A j \in 1 .. Len(regions) :
                 regions'[j] = IF j = i THEN [regions[i] EXCEPT !.bytes = stored(i)]
                               ELSE regions[j]
    BY <2>2, WriteEffect
  <2> HIDE DEF stored
  <2>4. \A j \in 1 .. Len(regions) :
            regions'[j].base = regions[j].base /\ regions'[j].size = regions[j].size
    BY <2>3, RegionFields DEF Region
  <2> QED
    BY <2>2, <2>3, <2>4, SameExtentsAligned DEF CEVirtualMemoryWrite
<1>6. CASE CEVirtualMemoryDestroy
  BY <1>6, CursorAssumption DEF CEVirtualMemoryDestroy, Aligned
<1>7. CASE UNCHANGED vars
  BY <1>7 DEF vars, Aligned
<1> QED
  BY <1>1, <1>2, <1>3, <1>4, <1>5, <1>6, <1>7 DEF Next

LEMMA AlwaysAligned == Spec => []Aligned
<1>1. Init => Aligned
  BY CursorAssumption DEF Init, Aligned
<1>2. TableShaped /\ Aligned /\ [Next]_vars => Aligned'
  BY NextAligned
<1> QED
  BY <1>1, <1>2, AlwaysShaped, PTL DEF Spec

\* The table keeps its shape and its page boundaries for every page size, number of pages
\* and limit on regions.
THEOREM TypeCorrect == Spec => []TypeOK
<1>1. TableShaped /\ Aligned => TypeOK
  BY DEF TypeOK
<1> QED
  BY <1>1, AlwaysShaped, AlwaysAligned, PTL

\* One turn of the search: the candidate stays, or lands on the end of a region it conflicts
\* with, which is 0 for a region that ends at the top.
LEMMA AdvanceStep ==
  ASSUME TableShaped, Aligned, NEW n \in CEAddress, NEW c \in CEAddress
  PROVE  \/ Advance(c, n) = c
         \/ \E i \in 1 .. Len(regions) :
               LET end == regions[i].base + regions[i].size IN
               /\ Conflicts(c, n, regions[i])
               /\ end % PageSize = 0
               /\ Advance(c, n) = IF end = Top THEN 0 ELSE end
<1> SUFFICES ASSUME \E i \in 1 .. Len(regions) : Conflicts(c, n, regions[i])
             PROVE  \E i \in 1 .. Len(regions) :
                      LET end == regions[i].base + regions[i].size IN
                      /\ Conflicts(c, n, regions[i])
                      /\ end % PageSize = 0
                      /\ Advance(c, n) = IF end = Top THEN 0 ELSE end
  BY DEF Advance
<1> DEFINE First(i) == IsFirst(i, LAMBDA r : Conflicts(c, n, r))
           i == CHOOSE j \in 1 .. Len(regions) : First(j)
           end == regions[i].base + regions[i].size
<1>1. \E j \in 1 .. Len(regions) : First(j)
  <2> DEFINE S == {j \in 1 .. Len(regions) : Conflicts(c, n, regions[j])}
  <2>1. S # {} /\ S \subseteq Nat
    OBVIOUS
  <2> HIDE DEF S
  <2>2. PICK j \in S : \A m \in S : j <= m
    BY <2>1, LeastNumber
  <2>3. Len(regions) \in Nat
    BY LenProperties DEF TableShaped
  <2>4. ASSUME NEW m \in 1 .. j - 1
        PROVE  ~Conflicts(c, n, regions[m])
    BY <2>2, <2>3 DEF S
  <2> QED
    BY <2>2, <2>4 DEF S, IsFirst
<1>2. i \in 1 .. Len(regions) /\ First(i)
  <2> HIDE DEF First
  <2> QED
    BY <1>1, Zenon
<1>3. Conflicts(c, n, regions[i])
  BY <1>2 DEF IsFirst
<1>4. Advance(c, n) = align_page(end % Top)
  BY Zenon DEF Advance
<1> HIDE DEF i
<1>5. end \in Nat /\ end <= Top /\ end % PageSize = 0
  BY <1>2, RegionFields, PageSizeAssumption, TopPositive, SumOfMultiples DEF Aligned, CEAddress
<1> HIDE DEF end
<1>6. CASE end = Top
  <2>1. end % Top = 0 /\ 0 \in CEAddress /\ 0 % PageSize = 0
    BY <1>6, TopPositive, PageSizeAssumption DEF CEAddress
  <2>2. align_page(end % Top) = 0
    BY <2>1, AlignedKept
  <2> QED
    BY <1>2, <1>3, <1>4, <1>5, <1>6, <2>2 DEF end
<1>7. CASE end # Top
  <2>1. end % Top = end /\ end \in CEAddress
    BY <1>5, <1>7, TopPositive DEF CEAddress
  <2>2. align_page(end % Top) = end
    BY <1>5, <2>1, AlignedKept
  <2> QED
    BY <1>2, <1>3, <1>4, <1>5, <1>7, <2>2 DEF end
<1> QED
  BY <1>6, <1>7

\* What is known of candidate c: above the cursor no fit lies before it, or, once the search
\* has wrapped, no fit lies above the cursor and none before it.
Searched(c, n) ==
  /\ c \in CEAddress
  /\ c % PageSize = 0
  /\ \/ c >= allocation_cursor /\ \A a \in FittingPages(n) : a >= allocation_cursor => a >= c
     \/ \A a \in FittingPages(n) : a < allocation_cursor /\ a >= c

LEMMA AdvanceSearched ==
  ASSUME TableShaped, Aligned, NEW n \in CEAddress, NEW c \in CEAddress, Searched(c, n)
  PROVE  Searched(Advance(c, n), n)
<1> SUFFICES ASSUME NEW i \in 1 .. Len(regions), Conflicts(c, n, regions[i]),
                    (regions[i].base + regions[i].size) % PageSize = 0,
                    Advance(c, n) = IF regions[i].base + regions[i].size = Top THEN 0
                                    ELSE regions[i].base + regions[i].size
             PROVE  Searched(Advance(c, n), n)
  BY AdvanceStep
<1> DEFINE end == regions[i].base + regions[i].size
<1>1. /\ regions[i].base \in Nat /\ regions[i].size \in Nat /\ end \in Nat /\ end <= Top
      /\ n \in Nat /\ c \in Nat /\ allocation_cursor \in Nat
      /\ c < end /\ regions[i].base < c + n
  BY RegionFields, TopPositive DEF TableShaped, CEAddress, Conflicts, ranges_overlap
<1>2. ASSUME NEW a \in FittingPages(n), a >= c
      PROVE  a >= end
  <2>1. a \in Nat /\ ~Conflicts(a, n, regions[i])
    BY TopPositive DEF FittingPages, CEAddress
  <2> QED
    BY <1>1, <1>2, <2>1 DEF Conflicts, ranges_overlap
<1>3. \A a \in FittingPages(n) : a \in Nat /\ a < Top
  BY TopPositive DEF FittingPages, CEAddress
<1>4. /\ 0 % PageSize = 0 /\ 0 \in CEAddress
  BY PageSizeAssumption, TopPositive DEF CEAddress
<1>5. end = Top \/ end \in CEAddress
  BY <1>1, TopPositive DEF CEAddress
<1>6. CASE c >= allocation_cursor /\ \A a \in FittingPages(n) : a >= allocation_cursor => a >= c
  <2>1. \A a \in FittingPages(n) : a >= allocation_cursor => a >= end
    BY <1>2, <1>6
  <2>2. CASE end = Top
    BY <1>1, <1>3, <1>4, <2>1, <2>2 DEF Searched
  <2>3. CASE end # Top
    BY <1>1, <1>5, <1>6, <2>1, <2>3 DEF Searched
  <2> QED
    BY <2>2, <2>3
<1>7. CASE \A a \in FittingPages(n) : a < allocation_cursor /\ a >= c
  <2>1. \A a \in FittingPages(n) : a < allocation_cursor /\ a >= end
    BY <1>2, <1>7
  <2>2. CASE end = Top
    BY <1>1, <1>3, <1>4, <2>1, <2>2 DEF Searched
  <2>3. CASE end # Top
    BY <1>1, <1>5, <2>1, <2>3 DEF Searched
  <2> QED
    BY <2>2, <2>3
<1> QED
  BY <1>6, <1>7 DEF Searched

LEMMA CandidateSearched ==
  ASSUME TableShaped, Aligned, NEW size \in CEAddress
  PROVE  Searched(AllocateCandidate(size), align_page(size))
<1> DEFINE n == align_page(size)
           last == Len(regions)
           start == align_page(allocation_cursor)
           step == [k \in 1 .. last |-> [c \in CEAddress |-> Advance(c, n)]]
           Candidates(f) == f = [attempts \in 0 .. last |->
                                   IF attempts = 0 THEN start
                                   ELSE Advance(f[attempts - 1], n)]
<1>1. /\ last \in Nat /\ n \in CEAddress /\ start = allocation_cursor
      /\ allocation_cursor \in CEAddress
  BY LenProperties, AlignType, AlignedKept, TopPositive DEF TableShaped, Aligned, CEAddress
<1>2. step \in [1 .. last -> [CEAddress -> CEAddress]]
  <2>1. ASSUME NEW c \in CEAddress
        PROVE  Advance(c, n) \in CEAddress
    <3>1. ASSUME NEW i \in 1 .. Len(regions)
          PROVE  LET end == regions[i].base + regions[i].size IN
                 (IF end = Top THEN 0 ELSE end) \in CEAddress
      <4>1. /\ regions[i].base \in Nat /\ regions[i].size \in Nat
            /\ regions[i].base + regions[i].size <= Top
        BY RegionFields, TopPositive DEF CEAddress
      <4> QED
        BY <4>1, TopPositive DEF CEAddress
    <3> QED
      BY <1>1, <3>1, AdvanceStep
  <2> QED
    BY <2>1
<1> HIDE DEF n, last, start
<1>3. \E f : Candidates(f)
  <2>1. PICK f \in [0 .. last -> CEAddress] :
           f[0] = start /\ \A k \in 1 .. last : f[k] = step[k][f[k - 1]]
    <3>1. start \in CEAddress
      BY <1>1
    <3> HIDE DEF step
    <3>2. PICK f : f \in Turns(CEAddress, start, step, last)
      BY <1>1, <1>2, <3>1, Iterated
    <3> QED
      BY <3>2 DEF Turns
  <2>2. ASSUME NEW k \in 1 .. last
        PROVE  f[k] = Advance(f[k - 1], n)
    <3>1. f[k - 1] \in CEAddress
      BY <1>1, <2>1
    <3> QED
      BY <2>1, <3>1
  <2>3. f = [attempts \in 0 .. last |->
               IF attempts = 0 THEN start ELSE Advance(f[attempts - 1], n)]
    BY <1>1, <2>1, <2>2
  <2> QED
    BY <2>3
<1> DEFINE candidate == CHOOSE f : Candidates(f)
<1>4. Candidates(candidate)
  <2> HIDE DEF Candidates
  <2> QED
    BY <1>3, Zenon
<1>5. AllocateCandidate(size) = candidate[last]
  BY Zenon DEF AllocateCandidate, n, last, start
<1> HIDE DEF candidate
<1>6. /\ candidate[0] = start
      /\ \A k \in 1 .. last : candidate[k] = Advance(candidate[k - 1], n)
  BY <1>1, <1>4
<1> DEFINE Good == {k \in 0 .. last : Searched(candidate[k], n)}
<1>7. 0 \in Good
  BY <1>1, <1>6, TopPositive DEF Searched, Aligned, FittingPages, CEAddress
<1>8. ASSUME NEW k \in 0 .. last - 1, k \in Good
      PROVE  k + 1 \in Good
  <2>1. k + 1 \in 1 .. last /\ (k + 1) - 1 = k /\ candidate[k] \in CEAddress
    BY <1>1, <1>8 DEF Searched
  <2>2. candidate[k + 1] = Advance(candidate[k], n)
    BY <1>6, <2>1
  <2>3. Searched(candidate[k + 1], n)
    BY <1>1, <1>8, <2>1, <2>2, AdvanceSearched
  <2> QED
    BY <1>1, <2>1, <2>3
<1>9. last \in Good
  <2> HIDE DEF Good
  <2> QED
    BY <1>1, <1>7, <1>8, UpToBound
<1> QED
  BY <1>5, <1>9 DEF n

LEMMA LeastIs ==
  ASSUME NEW S, S \subseteq Nat, NEW a \in S, \A b \in S : a <= b
  PROVE  Least(S) = a
<1>1. \A c \in S : (\A b \in S : c <= b) => c = a
  OBVIOUS
<1> DEFINE Smallest(c) == \A b \in S : c <= b
<1>2. \E c \in S : Smallest(c)
  OBVIOUS
<1>3. /\ Least(S) = (CHOOSE c \in S : Smallest(c))
  BY Zenon DEF Least
<1>4. Least(S) \in S /\ Smallest(Least(S))
  <2> HIDE DEF Smallest
  <2> QED
    BY <1>2, <1>3, Zenon
<1> QED
  BY <1>1, <1>4

\* An allocation takes the first place that fits at or above the cursor, and one below it
\* only when there is none above, however the regions are ordered in the table
\* (CEVirtualMemory.c 67-89).
THEOREM FirstFit == Spec => []AllocateFirstFit
<1>1. ASSUME TableShaped, Aligned
      PROVE  AllocateFirstFit
  <2> SUFFICES ASSUME NEW size \in CEAddress, AllocateStatus(size) = "OK"
               PROVE  LET fits == FittingPages(align_page(size))
                          above == {a \in fits : a >= allocation_cursor}
                      IN AllocateCandidate(size) = Least(IF above # {} THEN above ELSE fits)
    BY DEF AllocateFirstFit
  <2> DEFINE n == align_page(size)
             c == AllocateCandidate(size)
             fits == FittingPages(n)
             above == {a \in fits : a >= allocation_cursor}
  <2>1. n \in CEAddress /\ align_page(n) = n
    BY AlignType, AlignedResult, AlignedKept DEF CEAddress
  <2>2. Searched(c, n)
    BY <1>1, CandidateSearched
  <2>3. MapStatus(c, n) = "OK"
    BY DEF AllocateStatus
  <2> HIDE DEF n, c
  <2>4. c \in fits
    BY <2>1, <2>2, <2>3, TopPositive DEF MapStatus, FittingPages, Searched, CEAddress
  <2>5. fits \subseteq Nat /\ above \subseteq fits /\ allocation_cursor \in Nat /\ c \in Nat
    BY <1>1, <2>2, TopPositive DEF FittingPages, CEAddress, TableShaped, Searched
  <2>6. CASE c >= allocation_cursor /\ \A a \in fits : a >= allocation_cursor => a >= c
    <3>1. c \in above /\ \A a \in above : c <= a
      BY <2>4, <2>5, <2>6
    <3> HIDE DEF above, fits
    <3>2. Least(above) = c
      BY <2>5, <3>1, LeastIs
    <3> QED
      BY <3>1, <3>2 DEF above, fits, n, c
  <2>7. CASE \A a \in fits : a < allocation_cursor /\ a >= c
    <3>1. above = {} /\ \A a \in fits : c <= a
      BY <2>5, <2>7
    <3> HIDE DEF above, fits
    <3>2. Least(fits) = c
      BY <2>4, <2>5, <3>1, LeastIs
    <3> QED
      BY <3>1, <3>2 DEF above, fits, n, c
  <2> QED
    BY <2>2, <2>6, <2>7 DEF Searched
<1> QED
  BY <1>1, AlwaysShaped, AlwaysAligned, PTL
-----------------------------------------------------------------------------
\* What a process maps and allocates from its first page to its main stack are calls of the
\* address space, so every theorem above holds of a process, wherever its images lie
\* (CEKernelInit, CEPEMap and CERuntimeLoadExecutable).
THEOREM ProcessUsesAddressSpace ==
  ASSUME Pages > 1, UserKData \in CEAddress, StackSize \in CEAddress,
         Images \subseteq [base : CEAddress, size : CEAddress]
  PROVE  ProcessSpec => Spec
<1>1. PageSize \in CEAddress
  <2>1. PageSize < PageSize * Pages
    BY PageSizeAssumption, PagesAssumption
  <2> QED
    BY <2>1, PageSizeAssumption, PagesAssumption DEF CEAddress, Top
<1>2. ASSUME NEW p \in Protections, NEW size \in CEAddress, CEVirtualMemoryAllocate(size, p)
      PROVE  Next
  BY <1>2 DEF Next
<1>3. ASSUME NEW p \in Protections, NEW base \in CEAddress, NEW size \in CEAddress,
             CEVirtualMemoryMap(base, size, p)
      PROVE  Next
  BY <1>3 DEF Next
<1>4. ASSUME [ProcessNext]_processVars
      PROVE  [Next]_vars
  <2>1. ASSUME NEW p \in Protections, AllocateTls(p)
        PROVE  [Next]_vars
    BY <1>1, <1>2, <2>1 DEF AllocateTls, Kept
  <2>2. ASSUME NEW p \in Protections, MapUserKData(p)
        PROVE  [Next]_vars
    BY <1>1, <1>3, <2>2 DEF MapUserKData, Kept
  <2>3. ASSUME NEW p \in Protections, NEW image \in Images, MapImage(image, p)
        PROVE  [Next]_vars
    <3>1. image.base \in CEAddress /\ image.size \in CEAddress
      OBVIOUS
    <3> QED
      BY <1>2, <1>3, <2>3, <3>1 DEF MapImage, Kept
  <2>4. ASSUME NEW p \in Protections, AllocateMainStack(p)
        PROVE  [Next]_vars
    BY <1>2, <2>4 DEF AllocateMainStack, Kept
  <2>5. CASE UNCHANGED processVars
    BY <2>5 DEF processVars
  <2> QED
    BY <1>4, <2>1, <2>2, <2>3, <2>4, <2>5 DEF ProcessNext
<1>5. ProcessInit => Init
  BY DEF ProcessInit
<1> QED
  BY <1>4, <1>5, PTL DEF ProcessSpec, Spec
==============================================================================
