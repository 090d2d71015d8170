---------------------------- MODULE AddressSpace ----------------------------
(***************************************************************************)
(* What a guest may rely on of its 32-bit address space, with no mention of *)
(* region tables, of the order of the regions or of how an address is       *)
(* chosen: a set of pairwise disjoint extents.  Each step adds one zeroed   *)
(* extent where nothing was mapped, removes one, changes the protection of  *)
(* one, or stores into one that is writable, and touches no other extent.   *)
(***************************************************************************)
EXTENDS Naturals

CONSTANTS Top,          \* number of addresses, 2^32 in the program
          Protections,  \* the protections an extent may have
          Bytes         \* the values of a byte

VARIABLE space

Extent == [base : 0 .. Top - 1, size : 1 .. Top, protection : Protections,
           bytes : UNION {[0 .. n - 1 -> Bytes] : n \in 1 .. Top}]

\* [a, a + as) and [b, b + bs) have no address in common.
Apart(a, as, b, bs) == a + as <= b \/ b + bs <= a

Init == space = {}

Add(e) ==
  /\ e.base + e.size <= Top
  /\ \A r \in space : Apart(e.base, e.size, r.base, r.size)
  /\ e.bytes = [o \in 0 .. e.size - 1 |-> 0]
  /\ space' = space \cup {e}

Remove(e) == space' = space \ {e}

SetProtection(e, p) == space' = (space \ {e}) \cup {[e EXCEPT !.protection = p]}

\* Store changes bytes inside [address, address + length) of one writable extent.
Store(e, bytes, address, length) ==
  /\ "WRITE" \in e.protection
  /\ e.base <= address
  /\ address + length <= e.base + e.size
  /\ \A o \in 0 .. e.size - 1 :
        e.base + o \notin address .. address + length - 1 => bytes[o] = e.bytes[o]
  /\ space' = (space \ {e}) \cup {[e EXCEPT !.bytes = bytes]}

Clear == space' = {}

Next ==
  \/ Clear
  \/ \E b \in 0 .. Top - 1, n \in 1 .. Top, p \in Protections :
        Add([base |-> b, size |-> n, protection |-> p, bytes |-> [o \in 0 .. n - 1 |-> 0]])
  \/ \E e \in space :
        \/ Remove(e)
        \/ \E p \in Protections : SetProtection(e, p)
        \/ \E bytes \in [0 .. e.size - 1 -> Bytes], a \in 0 .. Top - 1, n \in 1 .. Top :
              Store(e, bytes, a, n)

Spec == Init /\ [][Next]_space
=============================================================================
