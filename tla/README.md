# A verification model of CELayer

CELayer runs Windows CE programs on iOS: a C core (`src/Sources/Core`) maps an ARM PE image into
an emulated address space, interprets its instructions and serves its system calls, and a Swift
application (`src/Sources/iOS`) gives the core time slices and touch, key and text events. The
modules here describe the core as TLA+ state machines. TLC checks them on small instances, and
TLAPS proves every safety property that TLC checks for every value of the constants.

## 1. The system

Everything in the core runs on one thread, the main actor of the Swift application. There are no
locks and no data races. What interleaves is who calls next: the guest program (system calls inside
a slice), the host (pointer, key and character events between slices), the clock (timers fire at
the start of a slice), and the operating system, which may end the process at any instant.

| Component | State | Operations | Talks to |
|---|---|---|---|
| Guest address space, `CEVirtualMemory.c` | table of regions, allocation cursor | map, allocate, protect, free, query, read, write | used by every other part |
| Process layout | which of TLS page, UserKData, images and stack are mapped | `CEKernelInit`, `CEPEMap`, `CERuntimeLoadExecutable` | address space |
| Message ring, `CEWindowServer.c` 66-76 | 512 slots, head, count | post, get | window server |
| Window server, `CEWindowServer.c` and the window calls of `CEKernelDispatch` | windows in z-order, next handle, focus, capture, classes | create, destroy, show, invalidate, post, get and translate messages | message ring, input, timers |
| Input routing, `CERuntime.c` 312-340 | capture, focus, key state | pointer, key, character | window server |
| Timers, `CEKernel.c` 344-345 and `CERuntime.c` 294-298 | 64 slots | set, kill, fire | message ring |
| Runtime and DLL loader, `CERuntime.c` | module table, runtime state | load, resolve imports recursively, run entry points, slices, `LoadLibraryW` | PE loader, address space, CPU, kernel |
| Kernel handles, `CEKernel.c` | 256 slots; the host files and directories behind them | create, open, find, close | host file system |
| Registry, `CEKernel.c` | table of 256 values and a file | set, delete, query; read at start, written at destruction | host file system |
| Paths and searches, `CEKernel.c` 84-98 and 157-189 | a directory stream and a pattern per search | `guest_path`, `wildcard_match`, `FindFirstFileW`, `FindNextFileW` | kernel handles, host file system |
| API dispatch, window procedures, TLS | guest stack, TLS bitmap | traps, `DispatchMessageW`, `Tls*` | CPU, all of the above |
| CPU, `CECPU.c` | registers, flags, halted, fault | ARM and Thumb steps, traps | address space, dispatch |
| PE loader, `CEPELoader.c` | none of its own | parse, map, relocate, bind, look up exports and strings | address space, resolver callback of the runtime |
| Drawing, `CEGDI*` | frame buffer | fill, blit, line, text | window server |
| Host model, `CERuntimeModel.swift` | runtime pointer, timer and its queued ticks, running, paused | launch, stop, restart, pause, tick, input | runtime |
| Application library, views, Metal display | files; none | import, delete; drawing | host model |

**What is hard here**, and what makes each part correct:

- *Address space.* Overlap, first-match lookups, the cursor search and the 32-bit roundings must
  agree after any sequence of maps and frees: no address in two regions, no page with two
  protections, an allocation that finds room where there is room.
- *Messages and windows.* The queue is bounded and loses what is posted to a full queue. Handles of
  dead windows live on in messages, timers and children. A touch begins on one window while others
  are created and destroyed before it ends.
- *Loader.* Loading recurses through callbacks, fails at any depth, and meets cycles of imports.
  What remains after a failure must be usable, entry points must run in the right order, and every
  call must return.
- *Handles.* Slots are reused, the table can be full, and several calls fail after they have already
  opened something.
- *Calls.* ARM and Thumb functions, the API and window procedures call each other through link
  register and guest stack; each return must find its caller, its stack and its instruction set.
- *File names.* Paths come from the guest and names from the host; a search goes on while the guest
  makes, moves and deletes entries, and must neither skip one nor lead out of the sandbox.
- *Tables and arithmetic.* Relocation blocks, export tables, string blocks, flags, clipped lines: small
  functions with boundaries that a test of one example does not meet.
- *Host model.* A tick that the timer has queued runs later, when the program may have been stopped,
  relaunched or killed; the next runtime reads the file that the one before it writes when it ends.
- *Registry.* It is saved only when a runtime is destroyed, by rewriting the file in place, and iOS
  kills applications without asking.

`PROJECT.json` lists these hazards one by one, at their lines, with the properties that cover them.

## 2. The modules

| Module | Models | Runs |
|---|---|---|
| `AddressSpace` | abstract: a set of disjoint extents | through refinement |
| `CEVirtualMemory`, `MCVirtualMemory` | the region table, cursor and every call on them | `virtual_memory` |
| `CEVirtualMemoryProofs` | proofs, also that a process is an address space | |
| `CEProcessMemory`, `MCProcessMemory` | a process from `CEKernelInit` to its main stack, on top of `CEVirtualMemory` | `process_stack` |
| `MessageQueue` | abstract: a bounded FIFO | through refinement |
| `CEMessageQueue` | the ring buffer | `message_ring` |
| `CEMessageQueueProofs` | proofs | |
| `CEWindowServer`, `MCWindowServer` | windows, focus, capture, classes, queue, timers, input | `window_input`, `window_timers` |
| `CEWindowServerProofs` | proofs, also about what `CEGDI` draws | |
| `CEGDI` | the pixels that lines, rectangles and texts write | `window_input` |
| `CERuntime`, `MCRuntime` | loading, binding, entry points, slices, `LoadLibraryW` | `runtime_modules` |
| `CERuntimeProofs` | proofs, also about the tables of `CEPELoader` | |
| `CEPELoader` | relocation blocks, export tables, string blocks | `runtime_modules` |
| `CEKernel` | handle table and the host objects behind it | `find_files` |
| `CEFind`, `MCFind` | paths, wildcards and the searches behind the handles, on top of `CEKernel` | `find_files` |
| `CEKernelProofs` | proofs about both | |
| `CERegistry` | registry table, its file, kills | `host`, `registry_killed` |
| `CEHost` | the host model around the runtime and its registry, on top of `CERegistry` | `host` |
| `CEHostProofs` | proofs about both | |
| `CECalls`, `MCCalls` | calls, returns, traps and nested window procedures on the CPU | `cpu_calls`, `cpu_link`, `cpu_pop` |
| `CEALU` | what adding, subtracting and comparing leave in a register and the flags | `cpu_calls` |
| `CECallsProofs` | proofs about both | |
| `NumberLemmas` | facts about numbers that the proofs cite | |

`CEFind` and `CEHost` compose: their actions are conjunctions of an action of the module below with
what the call does to their own variables. `CEGDI`, `CEPELoader` and `CEALU` have no variables. They
are functions, checked against reference definitions in the run of the component that uses them;
their properties are stated for the states in which that component has done nothing yet, so that TLC
evaluates them a few times and not in every state.

How state and actions correspond to the code:

- **`CEVirtualMemory`**: `regions` is `vm->regions[0 .. region_count-1]` in order, each with its
  bytes; `allocation_cursor` is the field of that name. `Top` stands for 2^32 and `align_page`
  wraps modulo `Top`, as the C function does, so that a size near 2^32 becomes 0. Statuses are
  operators (`MapStatus`, `AllocateStatus`, `AccessStatus`, `QueryStatus`) in the order in which
  the functions decide them; a call that fails changes nothing and is not a step. The allocator's
  loop is the recursive function `candidate` in `AllocateCandidate`, one step per conflict.
- **`CEProcessMemory`** adds `phase` and strings these calls together the way
  `CEKernelInit`, `CEPEMap` and `CERuntimeLoadExecutable` do. An image whose load fails after it was
  mapped stays mapped.
- **`CEMessageQueue`**: `messages`, `queue_head` and `queue_count` as in `CEWindowServer`.
- **`CEWindowServer`** keeps the queue as a sequence, which `CEMessageQueue` is shown to implement,
  and uses `MessageQueue`'s operator to post. A message keeps who made it (`"CREATE"`, `"TIMER"`,
  `"COMMAND"`, ... and `"USER"` for what the guest posts itself) instead of its number. Space has
  one dimension. Time is one bit per timer: `Elapse` makes an armed timer due, a killed slot keeps its
  time, and `Due` asks whether the slot is in use, as `CERuntime.c` 295 does. `TranslateMessage` reads
  its message from the guest's memory, so it may name any window and any key, whatever is queued.
- **`CERuntime`**: `stack` holds one record per activation of `CEPEMap`, with the import it is at,
  so that the recursion `CEPEMap` → `resolve` → `load_dependency` → `CEPEMap` becomes steps and
  can fail anywhere, in the image (`MapFails`) or in its import table, at an import or behind the last
  one (`ImportFails`). `imports` says what each file imports and never changes; whether a file exists,
  is well formed and exports what is asked for is left open at every step. `cursor` is the
  loop variable of the entry point loop, `attached` a history of the entry points called, `held`
  the modules whose handle `LoadLibraryW` gave to the guest.
- **`CEKernel`**: a handle is the index of its slot. `open` is the set of host files and directories
  that are open, numbered as they were opened; `known` the handles the guest was told.
- **`CERegistry`**: `file` is the registry file record by record; a flush empties it, writes the
  header and then the records, and the process may be killed between any two of these steps. Nobody
  else is taken to write the file, although it lies in the guest's root directory, where
  `CreateFileW` would open it under its name.
  `flushed` and `saved` are history variables.
- **`CEHost`**: `call` is what runs on the main actor. `stop()` and `launch()` are several steps,
  because the flush inside them is `CERegistry`'s and a kill may come between any two; `restart()` is
  `launch()` of the program launched last, and the end of the application object does what `stop()`
  does. `ticks` counts the tasks that the timer has queued and that outlive it. `state` is that of
  the runtime, or `"NONE"` without one. The registry calls of the guest happen in slices and in the
  entry points of DLLs. `before` and `kept` are histories: what the last runtime had when it was told
  to stop, and whether the next one has to find it.
- **`CEFind`**: a string is a sequence of characters; `"wide"` stands for one that is not ASCII, with
  its two bytes. `entries` is the directory. A search holds what `readdir` still must return, what
  it may return because it was made or removed since, and two histories: what the guest was told of the
  entries as they are now - an entry that is made is a new one - and what it is owed. In what order `readdir` returns entries, and whether it sees the changes, is open,
  as POSIX leaves it.
- **`CEALU`**: one definition per function of the code (`set_add_flags`, `condition`, the cases of
  both decoders); a word is a number below `2 * Half`, and `Half` is 2^31 in the code.
- **`CEGDI`**: what a call draws is the set of pixels it writes. `LineStep` is one turn of the line's
  loop, `NextCell` one of the text's, `TextCells` the cells of a text in the order of its characters.
  Coordinates are integers: where the sums of the code, `error * 2` among them, leave 32 bits, C leaves
  them undefined and the model does not follow.
- **`CEPELoader`**: an image is a function from offsets to words; a relocation block, an export
  directory and a string block are records of the fields the code reads. The loops are recursive
  functions: `RelocatedItems` and `apply_relocations` over the items of a block and the blocks,
  `StringStarts` over the strings in front of the one that is looked up.
- **`CECalls`**: `pc`, `t`, `lr`, `sp`, `halted` and `fault` are the fields of `CECPU` that calls
  touch, `memory` is the guest's stack. Code is a set of ARM and a set of Thumb addresses, and at each
  of them may stand any instruction that compiled code may have there: a function saves its return
  address before it calls and returns the way it saved it. This is the only assumption on the
  guest. The stack is taken to have unmapped pages on both sides: the code has no guard page, so where
  another region adjoins, running out of the stack reads and writes that region and does not fault. An address at or above `CodeTop` is an API trap; `frames` is a history of the calls
  that are active and of what their returns have to restore.

Data that no property depends on (titles, colours, styles, file contents, error codes, diagnostics)
is left out.

Some operators are marked *faulty variant*: a definition as a plausible mistake would have it (a
limit noticed one entry late, a guard dropped, an order exchanged). They are used nowhere. Each one
shows, when it is put in the place of the correct definition, that the property listed with
it under `mutants` in `PROJECT.json` is violated, and so that the property says something.

## 3. What the runs show

All runs exhaust their state space.

| Run | Properties | Bounds |
|---|---|---|
| `virtual_memory` | `TypeOK`; `RegionsDisjoint`; `QueryBoundsAccess`; `AllocateFirstFit`; `RefinesAddressSpace` | 3 pages of 2 bytes with contents, 3 regions, cursor at page 1 |
| `process_stack` | `StackAvailable` is violated | 12 pages |
| `message_ring` | `RefinesMessageQueue` | 3 slots, 3 messages |
| `window_input` | `FocusCaptureLive`; `CommandFollowsRelease`; `HandleNeverReused`; `CaptureKept`; `DrawingExact` | 2 windows at a time and 3 in all, queue of 2, 2 points, 1 key; screen of 4 x 3, coordinates -2 to 5, texts of up to 4 characters |
| `window_timers` | `TypeOK`; `CreateLeads`; `TimersIndependent`; `TimerMessagesArmed` | 1 window at a time and 2 in all, 2 class names for 1 entry, 2 timer slots, 2 identifiers, queue of 2 |
| `runtime_modules` | `HeldModulesLoaded`; `BoundUnlessCyclic`; `AttachOrder`; `AttachedBeforeProgram`; `RelocationsRight`; `LookupsRight`; `CallsReturn` | 2 DLLs, 3 slots, up to 2 imports per file; images of 8 words in pages of 4 at 3 bases, up to 3 functions and 2 names, blocks of 3 strings, a buffer of 2 |
| `host` | `HostTypeOK`; `UniqueValues`; `RestartReadsPrefix`; `SlicesOnlyWhileRunning`; `OneValueAtATime`; `RelaunchKeepsRegistry`; `SliceComes` | 2 keys, 1 name, table of 2, 2 queued ticks |
| `registry_killed` | `SavedValuesPersist` is violated | 1 key, 1 name, table of 1 |
| `find_files` | `OneOwner`; `UntoldAreKeys`; `OrphansOnlyWhenFull`; `SearchExact`; `MatchesAsMeant`; `PathsRight` | 3 slots, 2 host objects, 3 names, 2 patterns; all patterns of up to 4 and names of up to 3 characters, all paths of up to 5 characters of 6 kinds |
| `cpu_calls` | `ModeMatchesCode`; `SavedReturnsIntact`; `ReturnsBehindCall`; `ConditionsRight`; `CarriesExact` | 3 ARM and 4 Thumb addresses, 5 stack words, 6 calls; words of 3 bits |
| `cpu_link` | `ReturnsBehindCall` is violated with calls by `MOV lr, pc` | the same calls |
| `cpu_pop` | `EveryInstructionDecodes` is violated | the same calls |

Why the bounds are enough for what each run asks:

- *Address space.* Three pages with three regions give gaps below, between and above regions of
  every order in the table, regions that end at the top, sizes that round to 0, a full table, and
  searches that wrap. Pages of two bytes tell aligned from unaligned values, and accesses of two
  bytes cross from one region to the next.
- *Ring.* With three slots, head and tail each wrap while the ring is empty, partly filled and full.
- *Windows.* Two windows give overlap, parent and child, and a live and a dead handle. A queue of two
  overflows between any two posts, and between a release and its command. `MaxHandles` bounds the
  windows ever created and is larger than `MaxWindows`, so that the window table is full before the
  handles end; the facts that depend on it are proved without it.
- *Timers.* Two slots are the least in which one timer can hold two and another be in the way. One
  window at a time and one class entry for two names fill the other tables, so that `TypeOK` meets
  every limit.
- *Runtime.* A program and two DLLs contain chains of three images, diamonds, cycles and self
  imports; three slots for two names let slots of failed loads fill the table.
- *Loader tables.* There is a relocation table for every set of pointers, in ascending and in
  descending order. Bases on both sides of the linked one and a space of 64 make the difference of
  bases wrap; a page of 4 in an image of 8 gives two blocks with and without filling; names that
  repeat, gaps, a forwarder and a base that is not 0 tell names, indexes and ordinals apart.
- *Host and registry.* Two values make order, shifting and partly written files visible. Two ticks can
  be queued, one of an earlier launch and one of this one. There is one kind (type and size) of value,
  so a `RegSetValueExW` that fails is seen to leave a new record behind, not to change the kind of one
  that exists; the theorems hold for every set of kinds.
- *Files.* Slot 0 is not used, so three slots hold two handles and can be full and reused while host
  objects come and go. Three names, one of which no pattern fits, and two patterns give entries that
  match, appear and disappear during a search. Four characters of a pattern contain two stars with
  something in front, between or behind; five of a path hold `..` at every place between separators of
  either kind.
- *Drawing.* The coordinates lie outside the screen on every side, and the lines between them have
  every slope of up to seven steps.
- *Arithmetic.* With words of three bits all signs, carries, borrows and overflows occur, in each of
  the three words.
- *Calls.* Two functions, one in each instruction set, that call each other, veneers, API calls and
  window procedures six deep contain every pair of call and return. Five words let the stack run out.

`TypeOK` bounds each table by its limit, so it also says that a full table is noticed; that of
`CEVirtualMemory` also puts the regions and the cursor on page boundaries. `HostTypeOK`
also says that between two calls a runtime, its state, the timer and what is published agree.

What the runs showed that the code's reader may not expect, and that the properties state exactly:

- A pattern that ends in two stars asks for one more character (`WildcardIsGlob`), and `*.*` does not
  match a name without a dot.
- An imported file whose name has a colon, a backslash or a character that is not ASCII is found by a
  search and cannot be opened by the name reported (`FoundNamesOpen`).
- When the guest's buffer cannot be written, `FindNextFileW` loses the entry and answers as at the end
  (`SearchExact` excepts it).
- Two-word additions and subtractions are right. Those of three words are wrong exactly when the
  middle instruction has to pass on the carry or the borrow that went into it (`LongArithmeticExact`).
- A tick of an earlier launch may run as a slice of the next one, together with that one's own;
  whichever launch a tick is of, it runs guest code only while a runtime is loaded, shown as running
  and not paused (`SlicesOnlyWhileRunning`).
- Timers of a destroyed window keep firing, and the queued message of a timer that is killed is still
  delivered. `TimerMessagesArmed` says only that a killed slot posts nothing.
- An entry point that calls `ExitProcess` counts as one that returned; `AttachedBeforeProgram` says
  that it was called.

**Disagreements with what the repository says** (runs that expect a violation):

1. `process_stack`. `CEVirtualMemoryMap` moves the allocation cursor behind any region mapped above
   it. `CEKernelInit` maps UserKData at `0xffffc000`, which leaves the cursor 12 KB below the top. The
   search for the 1 MB main stack starts there, meets no region and therefore never wraps, and the
   map fails with `CE_ERROR_LIMIT`. `CERuntimeLoadExecutable` then returns the error with the state
   still `IDLE`. A program gets its stack only if images happen to occupy the last pages.
   `Docs/COMPATIBILITY.md` lists "stack, heap and allocation" as working, and no test loads a program.
2. `registry_killed`. The flush empties the registry file before it writes it. A process killed then
   loses what earlier runs had saved in the "Persistent HKCU/HKLM registry".
3. `cpu_link`. An operand that is PC reads the address of the instruction plus 4; ARM defines plus 8.
   After `MOV lr, pc` and `BX`, the ARMv4 call through a pointer, the callee returns to the `BX`, which
   calls it again. "`CECPU` executes guest ARMv4T/Thumb instructions" (`Docs/ARCHITECTURE.md`). The run
   uses `SpecMoveLink`, which adds this call to `Next`; without it `ReturnsBehindCall` holds.
4. `cpu_pop`. The mask in front of the Thumb PUSH/POP case contains the load bit, so every POP is
   unsupported, although the compatibility matrix lists "PUSH/POP". The properties of `cpu_calls`
   hold since the CPU halts there.

`BoundUnlessCyclic` is stated for import graphs without cycles because the code does not give it for
the others: if a DLL finishes loading inside the load of one that imports it and that then fails, it
stays loaded and bound to an image that has been given up.

**Fairness.** `CallsReturn` assumes weak fairness of `HostStep`, the steps of
`CERuntimeLoadExecutable` and of the loader inside `LoadLibraryW`. These are steps of one C call on
the host's thread, which nothing interrupts, and an entry point is stopped after 500000
instructions (`CERuntime.c` 239). `SliceComes` assumes weak fairness of `TimerFires` and `Tick`, which
the run loop and the main actor give (`CERuntimeModel.swift` 27 and 40), and of `Destroy` and
`Stopped`, the steps of one call of `stop()`. Nothing is assumed of the guest, the user or iOS: a
slice may take for ever as far as the model goes, the user may pause at any moment, and the process may
be killed.

Runs with `CHECK_DEADLOCK FALSE` are those where the system may really stop: a runtime that is
destroyed, or that has ended or faulted and is not run again, and a CPU that has halted.

## 4. What is proved

For every value of the constants that meets the assumptions named in the modules (sizes are natural
numbers, the page size and the ring are not empty, the first allocation address is a page address,
sets of coordinates, texts, names and tables hold such things), every safety property and every
action property that a run checks is a theorem.

- `CEVirtualMemoryProofs`: `TypeCorrect` (`TypeOK`), `DisjointRegions` (`RegionsDisjoint`) and
  `Refinement` (`RefinesAddressSpace`). `TypeOK` has two parts, each inductive: `TableShaped` by itself
  and `Aligned` - regions and cursor lie on page boundaries - relative to it. `RegionsDisjoint` is
  inductive relative to `TableShaped`: a map checks every region of the table, an allocation is a map at the
  address the search ends at (so nothing about the search itself is needed), a free shifts the rest,
  and protections and writes keep every extent. For the refinement, non-empty regions that are
  disjoint are distinct as members of a set, so that replacing or dropping one entry of the
  table replaces or drops one extent and nothing else. `QueriesBoundAccesses` (`QueryBoundsAccess`)
  follows from disjointness: the region a query finds is the only one an access can be in.
  `FirstFit` (`AllocateFirstFit`) needs `Aligned`, without which rounding up behind a conflict could jump
  over a gap. The loop invariant
  `Searched` says that no fit lies between the cursor and the candidate or, once the search has
  wrapped, that there is none above the cursor and none in front of the candidate.
  `ProcessUsesAddressSpace`: a process takes only steps of `CEVirtualMemory`, so that all of this
  holds of it.
- `CEMessageQueueProofs`: `TypeCorrect` and `Refinement`. The heart is arithmetic modulo the
  ring: posting appends to the contents and getting takes their head, wherever the head is.
- `CEWindowServerProofs`: `TypeCorrect`, `CreateFirst` (`CreateLeads`), `CommandBehindRelease`
  (`CommandFollowsRelease`), `HandlesNeverReused` (`HandleNeverReused`), `FocusAndCaptureLive`
  (`FocusCaptureLive`), `TimersStayIndependent` (`TimersIndependent`), `TimerMessagesOfArmed`
  (`TimerMessagesArmed`) and `CaptureIsKept` (`CaptureKept`). The inductive invariant `IInv` adds to
  `TypeOK` and the two queue properties that every handle in the windows, the queue, the timers, focus
  and capture is below `next_handle`. Without it a new window could be given a handle that a queued
  message already names, and `CreateLeads` would not be preserved. Removing the oldest message, and
  appending a batch that is cut off by a full queue, preserve the queue properties as lemmas about
  sequences. `TimersIndependent` needs that an armed timer has a number (`TimersInv`): that is why
  `SetTimer`, asked for a number, never takes the slot of another timer. `CaptureKept` needs that
  windows have distinct handles, so that destroying one leaves no other of its name.
  `DrawingIsExact` (`DrawingExact`) is about `CEGDI`. The error term of a line is, up to a constant,
  the longer side times the pixels moved across it minus the turns times the shorter side; every turn
  moves along the longer side, and across it exactly when that keeps the term within half the longer
  side, in all eight octants. The edges of a rectangle are the level and upright lines among these. A
  text is an induction over its characters that counts line feeds and drawn characters.
- `CERuntimeProofs`: `HeldStayLoaded` (`HeldModulesLoaded`), `EntryPointsInOrder` (`AttachOrder`),
  `ProgramStartsLast` (`AttachedBeforeProgram`) and `LoadedIsBound` (`BoundUnlessCyclic`), for every
  import table. `TableInv` ties the module table to the recursion: what is loading has an activation,
  and the slot of an activation is there and named, so a failure clears exactly what was being
  loaded and a complete module stays complete. While the program is mapped (`MapInv`) every file has
  one slot, taken for an import of the program or of a lower slot, and every import is bound or ahead
  of some activation; so when the stack is empty the loaded files are closed under imports and contain
  all the program needs. The attach loop then only walks down (`WalkDown`), over slots of which no
  higher one is the only importer of a lower one. For `BoundUnlessCyclic` the stack descends in every
  ranking of the files (`StackDescends`), so that an import that is still loading when its importer
  finishes would be below itself.
  `RelocationsAreRight` (`RelocationsRight`) and `LookupsAreRight` (`LookupsRight`) are about
  `CEPELoader`. After any number of items the image has the words of the new base at the targets of
  those items and the words of the old base everywhere else (`Reached`), whatever the order; moving a
  word that was linked modulo 2^32 is linking it for the other base (`Moved`); and the cursor is the sum
  of the blocks' sizes, which the directory does not exceed (`SumsGrow`). Where a string starts is
  the length of the texts stored before it, or nowhere once that exceeds the size (`StartsAre`), and
  texts stored later leave it where it is (`UnitsStay`).
- `CEKernelProofs`: `HostObjectsOwned` (`OneOwner`), `OnlyKeysUntold` (`UntoldAreKeys`) and
  `OrphansNeedFullTable` (`OrphansOnlyWhenFull`) for `CEFind`. `SearchesUseHandles` shows that every
  step of `CEFind` is one of `CEKernel` or leaves its variables alone; the invariant is then proved for
  `CEKernel` alone. It adds that host objects are numbered as they are opened, so that a new one is
  nobody's, and that handles of other kinds have none.
  `MatchesAreMeant` (`MatchesAsMeant`): row i of the matcher's table says what the pattern from i on
  matches; a row is determined by the one behind it, and by induction downwards the first one is what
  the pattern means, with the exception for two stars at the end. `SearchesAreExact` (`SearchExact`)
  rests on an account of every search (`SearchInv`): an entry that is owed and was not told is one that
  `readdir` still has to return, or one that does not match, and what was told is not returned again.
  `PathsAreRight` (`PathsRight`) follows
  `guest_path` character by character (`Scanned`): what has been written, how far back the last
  separator is, and that the path is refused once a component `..` has ended. It assumes that names
  and paths are sequences of characters (`StringsAssumption`) and that no entry is called `.` or `..`
  (`FilesAssumption`).
- `CEHostProofs`: `HostTypeCorrect` (`HostTypeOK`), `ValuesUnique` (`UniqueValues`), `RestartPrefix`
  (`RestartReadsPrefix`), `LateTicksHarmless` (`SlicesOnlyWhileRunning`) and `RelaunchFindsRegistry`
  (`RelaunchKeepsRegistry`), with `HostIsRegistry`: the host model takes only registry steps of
  `CERegistry`. The invariant has a part per layer. `RegistryInv`: the file holds the first records of
  the table flushed last, and no table has two records of one name. `CallInv`: what each call may rely
  on, above all that between calls a runtime in a runnable state is one that is published as running,
  with its timer. `KeptInv`: where the table is that the next runtime has to find, in memory until the
  flush is over and in the file from then on. `OthersUndisturbed` (`OneValueAtATime`): a registry call
  appends, overwrites or shifts out the one record it names, which needs that names are unique.
- `CECallsProofs`: `ModeIsThatOfCode` (`ModeMatchesCode`), `SavedReturnsStay` (`SavedReturnsIntact`) and
  `ReturnsLeadBehindCalls` (`ReturnsBehindCall`), for every program, stack and depth of calls. The
  inductive invariant follows the frames: each takes one word of the stack, all but the innermost have
  saved their return address there, and the innermost has it in LR or on top of the stack
  (`Chained`, `Registers`); the program counter is at code of the current instruction set, at the trap
  of a function that was called, or at the return trap above a `DispatchMessageW` (`Placed`).
  Every change of instruction set keeps this because a tagged address names the set it is in.
  `Comparisons` (`ComparisonsRight`) and `BranchesFollowComparisons` (`ConditionsRight`): the flags
  after `CMP` are the signed and unsigned order, for words of every size, by linear arithmetic over
  `Half`. `LongArithmetic` and `CarriesAreExact` (`CarriesExact`): a carry is the quotient by the size of a
  word, so sums and differences of two words are exact, and those of three are exactly when the
  middle instruction does not have to pass on what went into it.
- `NumberLemmas`: induction for sets of numbers (`UpToBound`, from the library's theorem on
  well-founded relations), that a loop over 0 .. n has a result (`Iterated`), which shows that the
  recursive functions of the models are defined, and division with remainder.

Recursion and loops are recursive functions in the models. A proof about one either shows that a
closed form satisfies its equation and that every function that does so agrees with it (`StartsAre`,
`ItemsMove`), or takes its existence from `Iterated` and its values by `UpToBound`.

Only model-checked are the liveness properties, `CallsReturn` and `SliceComes`, since the proof system
does not reason about fairness and enabledness.

## 5. What is not modelled, and the plan

Not modelled, with the reason:

- Logical instructions, shifts, multiplications, loads and stores of the CPU: encodings without state
  that interacts. Shifts by 32 and more are undefined in C and worth a study of their own.
- The checks of the PE headers (one nondeterministic failure in `CERuntime`) and the walk over resource
  directories.
- Glyph shapes, colours, `CEGDIBitBlt` and the Metal texture; only which pixels are written is modelled.
- File contents and positions, which are the host's; vertical coordinates, control ids and titles of
  windows.
- The application library, which copies files by Foundation, and the views, which keep no state of
  their own.
- Host memory is taken to suffice, except where a failing `calloc` only leaves a table as it was.

- File access of the guest to the registry file itself.
- Arithmetic on coordinates beyond 32 bits, and stacks that another region adjoins (section 2).

Four hazards have no property. `VirtualAlloc` at address 0, and timers of high slots that starve while
the guest is slow, are planned below. For an entry point that calls `ExitProcess`, and a found entry
that is lost because the guest's buffer cannot be written, the models do what the code does, and
nothing in the repository says what else should happen.

Next, in this order:

1. The guest's own allocations on top of `CEProcessMemory`, down to address 0.
2. TLS slots and their reuse: a slot never shows an older owner's value.
3. A window server in which the guest takes messages at a bounded pace, with fairness: which timers
   starve.
4. Resource directories, with their two levels and the language that is chosen.
5. Proofs about what these add; of what is modelled, only liveness is not proved.
