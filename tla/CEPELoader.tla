------------------------------ MODULE CEPELoader ------------------------------
(***************************************************************************)
(* What the loader computes from the tables of an image: the words that     *)
(* base relocation changes, the addresses of exported functions and the     *)
(* strings of the resource section.  An image is a function from offsets to *)
(* words, and a pointer takes one offset.  Sizes inside a table are in the  *)
(* units the code counts them in; a table lies inside the image, and no sum *)
(* of sizes exceeds 32 bits.                                                *)
(***************************************************************************)
EXTENDS Integers, Sequences, FiniteSets, FiniteSetsExt

CONSTANTS Space,          \* 2^32
          PageSpan,       \* offsets one relocation block covers, 0x1000
          BlockStrings,   \* strings of one resource block, 16
          Capacity,       \* of the buffer for a string, with its terminator
          ImageSize,      \* the images, tables and texts that are tried
          Bases,
          TriedBlocks,
          TriedExports,
          TriedTexts

ASSUME SpaceAssumption == Space \in Nat \ {0}
ASSUME BlockStringsAssumption == BlockStrings \in Nat \ {0}
ASSUME CapacityAssumption == Capacity \in Nat \ {0}
ASSUME ImageSizeAssumption == ImageSize \in Nat \ {0}
ASSUME BasesAssumption == Bases \subseteq Nat
ASSUME BlocksAssumption ==
  TriedBlocks \subseteq Seq([page : Nat, size : Nat, items : Seq(Nat \X Nat)])
ASSUME ExportsAssumption ==
  TriedExports \subseteq
     [base : Nat, functions : Seq(Nat), names : Seq(STRING \X Nat), forwarded : SUBSET Nat]
ASSUME TriedTextsAssumption == TriedTexts \subseteq Seq(Nat)

-----------------------------------------------------------------------------
\* Base relocations.  A block is [page, size, items] and an item <<type, offset>>.
HeaderSize == 8

\* Faulty variant of IsFiller: every item is taken for a pointer.
NeverFiller(item) == FALSE

\* Items of type 0 fill up a block.
IsFiller(item) == item[1] = 0

\* One item.  What lies behind the image is taken not to be mapped.
Relocated(at, delta, page, item) ==
  IF at.status # "OK" \/ IsFiller(item) THEN at
  ELSE IF item[1] # 3 THEN [at EXCEPT !.status = "UNSUPPORTED"]
  ELSE IF page + item[2] \notin DOMAIN at.words THEN [at EXCEPT !.status = "ACCESS_VIOLATION"]
  ELSE [at EXCEPT !.words[page + item[2]] = (@ + delta) % Space]

\* The first items of a block.
RelocatedItems(at, delta, block, count) ==
  LET after[i \in 0 .. count] ==
        IF i = 0 THEN at ELSE Relocated(after[i - 1], delta, block.page, block.items[i])
  IN  after[count]

\* One block, unless the directory has ended; its size decides how many items it has and
\* where the next block is.
RelocatedBlock(at, delta, block, size) ==
  IF at.status # "OK" \/ at.cursor + HeaderSize > size THEN at
  ELSE IF block.size < HeaderSize \/ at.cursor + block.size > size
  THEN [at EXCEPT !.status = "BAD_FORMAT"]
  ELSE [RelocatedItems(at, delta, block, (block.size - HeaderSize) \div 2) EXCEPT
          !.cursor = at.cursor + block.size]

\* apply_relocations for an image that was linked for image_base.
apply_relocations(words, image_base, mapped_base, blocks, size) ==
  LET delta == mapped_base - image_base
      start == [words |-> words, cursor |-> 0, status |-> "OK"]
      after[b \in 0 .. Len(blocks)] ==
        IF b = 0 THEN start ELSE RelocatedBlock(after[b - 1], delta, blocks[b], size)
  IN  IF delta = 0 THEN start
      ELSE IF size < HeaderSize THEN [start EXCEPT !.status = "ADDRESS_CONFLICT"]
      ELSE after[Len(blocks)]
-----------------------------------------------------------------------------
\* Exports.  A table is [base, functions, names, forwarded]: the addresses of the
\* functions in the image, 0 for none, the names in order, each <<name, index>>, and the
\* addresses that lie inside the table itself.
FunctionAddress(table, mapped_base, index) ==
  IF index >= Len(table.functions) \/ table.functions[index + 1] = 0 THEN <<"NOT_FOUND", 0>>
  ELSE IF table.functions[index + 1] \in table.forwarded THEN <<"UNSUPPORTED", 0>>
  ELSE <<"OK", mapped_base + table.functions[index + 1]>>

\* CEPELookupExport without a name.
LookupOrdinal(table, mapped_base, ordinal) ==
  IF ordinal < table.base THEN <<"NOT_FOUND", 0>>
  ELSE FunctionAddress(table, mapped_base, ordinal - table.base)

\* Faulty variant of NamedIndex: the index of a name is taken for an ordinal.
NamedOrdinal(table, i) == (table.names[i][2] - table.base) % Space

NamedIndex(table, i) == table.names[i][2]

\* CEPELookupExport with a name: the first entry with that name.
LookupName(table, mapped_base, symbol) ==
  LET found == {i \in 1 .. Len(table.names) : table.names[i][1] = symbol} IN
  IF found = {} THEN <<"NOT_FOUND", 0>>
  ELSE FunctionAddress(table, mapped_base, NamedIndex(table, Min(found)))
-----------------------------------------------------------------------------
\* Strings.  A block is a sequence of 16-bit units, in which each string is its length and
\* its characters; data_size is in units too.

\* The block and the place in it for an identifier; block numbers have 16 bits, which no
\* identifier of an image exceeds.
BlockOf(identifier) == identifier \div BlockStrings + 1
Selected(identifier) == identifier % BlockStrings

\* Where string i of a block starts, or 0 when the size is passed on the way.
StringStarts(units, data_size, i) ==
  LET start[k \in 0 .. i] ==
        IF k = 0 THEN 1
        ELSE IF start[k - 1] = 0 \/ start[k - 1] + units[start[k - 1]] > data_size THEN 0
        ELSE start[k - 1] + units[start[k - 1]] + 1
  IN  start[i]

\* CEPELookupStringResource once the directories have led to the block of the
\* identifier: the string, cut to the buffer.
LookupString(units, data_size, identifier) ==
  LET at == StringStarts(units, data_size, Selected(identifier)) IN
  IF at = 0 \/ at + units[at] > data_size THEN <<"BAD_FORMAT", <<>>>>
  ELSE IF units[at] = 0 THEN <<"NOT_FOUND", <<>>>>
  ELSE <<"OK", SubSeq(units, at + 1, at + Min({units[at], Capacity - 1}))>>
-----------------------------------------------------------------------------
\* What the tables are compared on.

\* An image as it would be linked for a base: pointers to the offset in front of them,
\* and other words that look like addresses.
Linked(base, pointers) ==
  [o \in 0 .. ImageSize - 1 |-> IF o \in pointers THEN (base + ((o + 1) % ImageSize)) % Space
                             ELSE o]

\* The items of a table that are pointers, by block and place, and the offset of each.
Items(blocks) ==
  {p \in UNION {{b} \X (1 .. Len(blocks[b].items)) : b \in 1 .. Len(blocks)} :
     blocks[p[1]].items[p[2]][1] # 0}

Target(blocks, p) == blocks[p[1]].page + blocks[p[1]].items[p[2]][2]

Pointers(blocks) == {Target(blocks, p) : p \in Items(blocks)}

\* A table as linkers write it: each block as long as its items, which are pointers in the
\* image or filling, and each pointer once, in any order.
Proper(blocks) ==
  /\ \A b \in 1 .. Len(blocks) :
        blocks[b].size = HeaderSize + 2 * Len(blocks[b].items)
  /\ \A p \in Items(blocks) :
        /\ blocks[p[1]].items[p[2]][1] = 3
        /\ Target(blocks, p) \in 0 .. ImageSize - 1
  /\ \A p, q \in Items(blocks) : Target(blocks, p) = Target(blocks, q) => p = q

DirectorySize(blocks) ==
  LET sum[b \in 0 .. Len(blocks)] == IF b = 0 THEN 0 ELSE sum[b - 1] + blocks[b].size
  IN  sum[Len(blocks)]

\* An image that is mapped somewhere else has the words it would have had if it had been
\* linked for that base, whatever its pointers are, in whatever order its table names
\* them, below or above the base it was linked for, and with blocks that are filled up;
\* only one without a table is refused (76-105).
RelocatedAsLinked ==
  \A from \in Bases, to \in Bases, blocks \in TriedBlocks :
     Proper(blocks) =>
        LET pointers == Pointers(blocks)
            after == apply_relocations(Linked(from, pointers), from, to, blocks,
                                       DirectorySize(blocks))
        IN  IF blocks = <<>> /\ from # to THEN after.status = "ADDRESS_CONFLICT"
            ELSE after.status = "OK" /\ after.words = Linked(to, pointers)

\* A name has the address of the ordinal that the first entry with that name stands for,
\* whatever the ordinals start with (173-210).
NamesAgreeWithOrdinals ==
  \A table \in TriedExports, base \in Bases :
     \A i \in 1 .. Len(table.names) :
        LET name == table.names[i] IN
        (\A j \in 1 .. i - 1 : table.names[j][1] # name[1]) =>
           LookupName(table, base, name[1]) = LookupOrdinal(table, base, table.base + name[2])

\* The units of a block with one text more, and with the first i texts.
WithText(units, text) == units \o <<Len(text)>> \o text

UnitsOf(texts, i) ==
  LET units[k \in 0 .. i] ==
        IF k = 0 THEN <<>> ELSE WithText(units[k - 1], texts[k])
  IN  units[i]

\* An identifier finds the string that was stored under it, cut to the buffer, and an
\* empty one is not found; a block that is cut short still gives the strings that are
\* complete and no other one (237, 246-254).
StringsFound ==
  \A texts \in [1 .. BlockStrings -> TriedTexts] :
     LET units == UnitsOf(texts, BlockStrings) IN
     \A identifier \in 0 .. 2 * BlockStrings - 1, size \in 0 .. Len(units) :
        LET place == identifier - (BlockOf(identifier) - 1) * BlockStrings + 1
            text == texts[place]
        IN  LookupString(units, size, identifier) =
              IF Len(UnitsOf(texts, place)) > size THEN <<"BAD_FORMAT", <<>>>>
              ELSE IF text = <<>> THEN <<"NOT_FOUND", <<>>>>
              ELSE <<"OK", SubSeq(text, 1, Min({Len(text), Capacity - 1}))>>
=============================================================================
