------------------------------ MODULE MCRuntime ------------------------------
(***************************************************************************)
(* Import tables for model checking CERuntime: every program and every set  *)
(* of DLLs with at most two imports each.  The tables of CEPELoader are      *)
(* checked along with it.                                                   *)
(***************************************************************************)
EXTENDS CERuntime, CEPELoader, SequencesExt

Lists(S) == {<<>>} \cup {<<d>> : d \in S} \cup {<<d, e>> : d, e \in S}

\* Repeated imports, imports of oneself and of DLLs the runtime implements.
AllTables == [Files -> Lists(Dlls \cup {Builtin})]

Upto(S, n) == UNION {[1 .. k -> S] : k \in 0 .. n}

\* With gaps, a forwarder at 9, and names that repeat or lead nowhere.
AllExports == [base : 0 .. 2, functions : Upto({0, 5, 9}, 3),
               names : Upto({"f", "g"} \X (0 .. 3), 2), forwarded : {{8, 9}}]

\* For every set of pointers a table with a block for each page that has some and an even
\* number of items in a block, in ascending order and in the opposite one.
BlocksFor(pointers, Order(_, _)) ==
  LET Page(o) == o - (o % PageSpan)
      pages == SetToSortSeq({Page(o) : o \in pointers}, Order)
      Block(page) ==
        LET offsets == SetToSortSeq({o - page : o \in {p \in pointers : Page(p) = page}}, Order)
            items == [i \in DOMAIN offsets |-> <<3, offsets[i]>>]
            even == IF Len(items) % 2 = 0 THEN items ELSE Append(items, <<0, 0>>)
        IN  [page |-> page, size |-> HeaderSize + 2 * Len(even), items |-> even]
  IN  [i \in DOMAIN pages |-> Block(pages[i])]

AllBlocks == {BlocksFor(pointers, <) : pointers \in SUBSET (0 .. ImageSize - 1)} \cup
             {BlocksFor(pointers, >) : pointers \in SUBSET (0 .. ImageSize - 1)}

AllTexts == Upto({7, 8}, 2)
-----------------------------------------------------------------------------
\* The properties of the loader's tables do not depend on the state.  They are stated for
\* the states before a module is loaded, which makes invariants of them.
BeforeLoad == state = "IDLE" /\ modules = <<>>

\* RelocatedAsLinked: an image mapped elsewhere is as if linked for that base
\* (CEPELoader.c 76-105).
RelocationsRight == BeforeLoad => RelocatedAsLinked

\* NamesAgreeWithOrdinals and StringsFound: both ways to an exported function lead to the
\* same one, and an identifier to its own string (CEPELoader.c 173-256).
LookupsRight == BeforeLoad => NamesAgreeWithOrdinals /\ StringsFound
==============================================================================
