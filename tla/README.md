# syschalk in TLA+

syschalk is a small kernel for the i686 PC, written in C: a boot loader, an
interrupt table, a heap, an event queue fed by the keyboard, an IDE driver that
reads a CD, an ISO 9660 reader, a text shell, and a PCI scan and a logger. It
has one thread and no scheduler. All concurrency is between that thread and the
interrupt handlers, which share the heap, the event queue, `ataLock` and the
sleep countdown with it. This directory holds TLA+ modules translated from the
sources, TLC configurations that check them, and proofs checked by TLAPS.
Paths below are relative to the repository.

In the commit modelled, `kmain` runs only the logger's test; the calls that start
the shell, probe the drives and run `s2_MemoryTest` are commented out. The
components are modelled as they behave when they are called.

## Inventory

| component (source) | state it keeps | operations | talks to | what is hard |
|---|---|---|---|---|
| Memory manager (`src/mem/manager.c`) | list of headers from `heap_start`, `memleaks`, the interrupt flag it leaves | init, alloc (fit, merge, extend, refuse), free | called by everything, handlers included | merge arithmetic, scaled pointers, early returns between `cli` and `sti` |
| Event queue (`src/events/events.c`) | `front`, `rear`, `size`, `prev` of the nodes | queue (interrupt), await and dequeue (thread) | keyboard driver, shell | unlocked sharing with an interrupt; lost wake-up; linking of the first node |
| Interrupt handling (`src/idt.c`, `src/irq.asm`, `src/irq_handlers.c`) | the two 8259s, the flag, the stack of activations | gate, stub, handler, EOI, `iret` | devices, heap | handlers become interruptible in the middle (`sti` in the allocator, in IRQ 15) |
| Timer set-up and sleep (`src/kmain.c`, `src/io.c`) | `s2_IOPITCountdown` | `s2_PITSleep`, IRQ 0 | IDE driver | the countdown is shared with the handler |
| IDE and ATAPI driver (`src/drivers/ide/ide.c`) | `ataLock`, the record of a device, the uninitialised `error`, the drive's phase | `s2_IDECreateATADeviceInstance`, `s2_IDEATAPIRead`, IRQs 14 and 15 | timed sleep, file system | interrupt between test and `hlt`; interrupts of earlier commands and of the other channel; bytes counted as words; loop without limit |
| ISO 9660 (`src/fs/iso9660/iso9660.c`) | root sector; per call path, directory sector, buffers | mount, scan, read file | IDE driver, heap | reads whose failure nobody looks at, name comparison, recursion over the path, overrun of each read, leaks |
| Keyboard driver (`src/drivers/ps2_keyboard.c`) | none but its allocations | byte to event, key to character | heap, event queue, shell | boundaries of the code ranges; what is stored when the heap refuses |
| Shell, vector, text screen (`src/programs/shell/shell.c`, `src/containers/vector/vector.c`, `src/io.c`) | cursor, vector of the line, screen | read a key, interpret, prompt, draw cursor | event queue, keyboard driver | wraps of rows, screen and row counter, negative columns; int stores into bytes; no growth |
| PCI bus (`src/pci/pci.c`) | `s2_supportsVGA`, its allocations | brute-force scan, search for a class | heap, ports | what reads as ones where nothing is; one byte with two meanings; what an absent function costs |
| Logger, formatting (`src/log.c`, `src/io.c`) | none | format, concatenate, number texts, line, section | heap, debug port | a text appended to itself, texts of dead frames, reads past a block, size tested after the write |
| VGA, ports, boot loader, paging stubs | device state only | port sequences | - | - |

What makes each correct: the heap never hands out a block twice and blocks do
not overlap; the queue returns each event once, in order, and eventually; handlers
nest without ending each other's service, the allocator is exclusive, and every
request is served; a read delivers the sector asked for and returns; a probe
finds what is connected and returns; a path resolves to the file it names and
its bytes are read; the keys known to be down are those that are; the line, the
vector, the cursor and the screen agree; a scan prints every function, a search
finds the first that suits, and the descriptor says what the function is; a
format means its text and a number's text its number.

Several of these do not hold without a qualification. Where the code falls
short, the property states the exact condition under which it does hold
("unless merged", "while keys come slowly", "unless the drive was late"), and
two runs exhibit a failure itself (see Findings).

## Modules

| module | models | extended or instantiated by |
|---|---|---|
| `MemManager` | the heap | `MemTest`, `MemManagerProofs` |
| `MemTest` | `s2_MemoryTest` of `kmain.c`, step by step | |
| `EventFifo` | abstract: a queue that loses and reorders nothing | `Events` |
| `Events` | event queue between IRQ 1 and the waiting thread | `EventsProofs` |
| `KeyEvents` | keyboard, its handler, heap, queue and reading thread, composed; instantiates `MemManager` | `KeyEventsProofs` |
| `Interrupts` | gates, handlers, two 8259s, flag, allocator's `cli`/`sti` | `InterruptsProofs` |
| `Ide` | device probe, timed sleep, sector reads, IRQs 0, 14 and 15, external device | `IdeProofs` |
| `Iso9660`, `MCIso9660` | file system over an external disc; its discs and paths for TLC | `Iso9660Proofs` |
| `Ps2Codes` | pure: byte to event, key to character | `KeyEvents`, `Shell` |
| `Shell` | the shell's loop, vector and text screen | `ShellProofs` |
| `Pci`, `MCPci` | scan and search over an external configuration space; its layouts for TLC | `PciProofs` |
| `Logger`, `MCLogger` | formatting, number texts, lines and sections; texts for TLC | `PciProofs` |

How state and actions correspond to the code (`PROJECT.json`, "map", gives the
lines of every definition):

- **MemManager.** The list is extended only at its end and nothing is unlinked,
  so it is a sequence of `[addr, size, alloc]`. An allocation runs with
  interrupts off and is one action: `TakeFit`, `TakeMerge`, `TakeNew` or
  `Refuse`. The walk keeps the *first* entry that fits and the *later* of the
  biggest free ones. `MergedSize` is the unsigned wrap of a negative
  difference of header pointers, divided by 20 the way the compiler builds it (`Fifth`).
  `OverCap` scales sizes by the 20 bytes of a header, modulo 2^32: callers ask for any
  size a word has, since `iso9660.c:105` asks for one it has read off a disc.
  `wrapped` remembers the blocks whose test against the cap has wrapped around, and
  `TakeAstray` ends a behaviour where the next header would lie beyond the last address. `owned` is
  what callers hold; `merged` and `refused` are history. The model keeps the
  headers apart from the blocks: that a caller who writes to a block a merge has
  made too long overwrites the headers inside it is not modelled. Nor is a second free of
  one pointer, which the test of the magic would let pass: no caller frees twice.
- **Events.** A dequeue is six steps, one per access to shared memory, in the
  order of the kernel binary in the repository: `size` is read once at the start
  and the value minus one stored at the end. The keyboard handler is one step,
  since IRQ 1 cannot nest in itself before its EOI (`NestsOnlyAtIret`). Nodes are never freed, so
  the k-th event has node k. `races`, `overrun` and `starter` are history;
  `wild` stops the model when a pointer nobody set is followed.
- **Interrupts.** A handler is the sequence of its steps that matter to
  interrupts. `Enter` is the acknowledge cycle and the gate, `Handle` the next
  step of the innermost handler. Allocations inside the keyboard handler set the
  flag again, or leave it when refused. The 8259s are external: fully nested
  mode, non-specific EOI.
- **KeyEvents.** A key stroke's whole way. A keyboard key is a code with or without the
  prefix 224, and a plain and an extended one may share a code, as both Ctrl and both Enter do.
  `struck` holds the codes whose last stroke was not a release. The handler is three steps, one per
  allocation, on the heap of `MemManager` (`Heap!MemoryAlloc` is conjoined to
  each). `mem` holds the three words of every object by its address, so that a refused
  allocation makes payload, event and node share the bytes at address 0, as in the code; what is
  reachable from the queue is kept, the rest forgotten. A dequeue is one step:
  its interleavings are in `Events`.
- **Ide.** The thread's `pc` follows `s2_IDECreateATADeviceInstance` and then
  `s2_IDEATAPIRead`; a wait is test, halt, asleep. The device is external, of five
  kinds; each may be slow, and answer any command with an error (ERR) or a fault (DEVF); a packet
  device may fail after the packet, or still be finishing when the next call comes (`late`). `error`
  starts as 0 or 1 because the code does not initialise it, and `type` as anything, because the
  record is not cleared (`ide.c:81`): where nothing is connected, it stays what the heap held. The device interrupts for
  the probe's commands too, and line 15 (`foreign`) sets the same `ataLock`. Each read is
  checked for what earlier calls left behind.
- **Iso9660.** A record is `[name, lba, size]`; a directory is the records of its
  first sector. One action per record looked at, and per sector read. `buf`
  records which byte of which sector each byte of the buffer holds, junk included. A path's
  component has at most 127 characters, since the code counts them in a char (`IsPath`).
  What a path *means* (`FilesAt`) is defined without the scan: the files of that name in the directories to which a chain of directories leads (`Chains`).
  `Misleading` names the paths on which the scan's comparison of lengths goes wrong
  and of which nothing is claimed. Each read may fail (`Fault`), which the code
  ignores: the first one leaves the scan on unknown bytes (`wild`), one further
  down on the directory above, whose block the allocator has just taken back;
  `told` is the path the scan then follows, `failed` the sectors of the file
  that were not read. The heap may refuse the block of any sector and of the file
  (`Halt`, `HitRefused`): interrupts are then off, and the read into NULL either fails at its poll or
  halts for ever (`halted`). The refusal of one of the records of twelve bytes is not modelled.
- **Shell.** One step is one round of the loop, which no handler interferes with
  other than by queueing. The vector is modelled by bytes, since a push stores
  an int. The command is read through the line's characters taken as an address, so
  any branch may be taken. A cell of the screen holds a character, or one of
  Cursor, Prompt, Output. A character is a signed char, so that key 128, which
  the handler makes of byte 128, is a negative one. The row counter is a short (`Short`), and the
  remainder of a negative one is negative (`Rem`); `astray` says that the line has
  left the screen at its top or has come all round it, where its cells no longer show it.
  What a push writes past the vector's block is counted (`spill`); it lands on the next heap
  header's magic and then its pointers, which later allocations walk, and that is not followed.
- **Pci.** One action per function of the walk. A word of configuration space
  is what its kind says, `0xffff` where nothing is; a register is its low and high word.
  `kept` counts blocks; the rows printed are the places they show. `Lost` is what a call
  has cost by its place: for each function examined its descriptor and what its kind adds.
- **Logger.** Three tasks that share nothing. A format is a sequence of letters and
  directives and `s2_Format` one step per round; `out` and `res` are modelled by
  byte, with what they held before. `Quotients` is `num` after each round of a
  conversion, `MoveOut` the loop that moves the digits to the front.
  `s2_ToDecNoA` and `s2_ToHexNoA` return a local array, so the text of a number is read, twice, in a
  frame that is gone: each read finds it whole, followed by a stray byte, or empty, and
  `PutNumber` takes the two independently. What the format means is the number's own text;
  `intact` says that so far both reads of each have found it. A line is its
  lengths: name and text; `reach` is how far past its buffer's start any line was written, and
  `printed` the line printed last.

## Runs

| run | configuration | shows |
|---|---|---|
| `heap` | a word of 2^16, a cap of 104 bytes, sizes 0, 3, 3240, 20000 and 65535, 5 entries, a refusal | `OwnedMatchesHeap`, `DisjointUnlessMerged`, `BelowCapUnlessWrapped`, and the inductive `HeapInv` over all orders of allocs and frees |
| `heap_no_overlap` | a cap of 300 bytes, sizes 2, 6, 40 | violation: merged blocks overlap others |
| `heap_self_test` | the addresses and sizes of the kernel, with a cap of 1 MB | violation: the kernel's own test of merging fails |
| `events` | 6 key events at every point of the thread | order, exact loss, when the list breaks, `QueueInv`, and that no event is slept on |
| `events_calm` | 8 key events, slow keys | the queue implements `EventFifo`, liveness included |
| `interrupts` | lines 0, 1, 14, 15, each raised twice, one refusal | service and nesting of handlers, exclusive allocation, flag, every request served |
| `ide` | five kinds of device, with errors and faults, two probes, two reads of two sectors, every crop, one interrupt of line 15 | found is connected, the sector delivered, nothing left in the device, each call returns |
| `iso9660` | two discs, every path of up to 5 characters over a, b and slash, two failing reads, refused blocks | resolution against the meaning of paths, file bytes, overrun, blocks kept, the lookup ends |
| `key_events` | two plain keys and an extended one that shares the code of one, a heap with room for a few events, nine refusals | events read are events sent, what an exhausted heap shows, what the thread knows of the keys |
| `pci` | 2 buses of 2 devices of 2 functions, every way to plug in up to two devices of five kinds, two calls | every function printed, the first found and NULL only if none suits, the descriptor, the blocks lost |
| `logger` | formats of 3 tokens in a clean and a used buffer, twice; nine numbers in both bases, twice; lines of three names and texts of up to 300 characters, sections of up to 70 | the text a format means while its numbers are read whole, what a used buffer adds, the text of a number, how far lines are written |
| `shell` | six scan codes, 9 of them, screen 4 by 2, row counter from -7 to 6 | cursor, vector, screen and line agree; the vector's silent overflow is bounded |

For every property of a passing run `PROJECT.json` names a mutant: a variant of
one definition with a plausible mistake (`EnqueueSansLink`, `WakeSansCheck`,
...), defined next to the original, under which TLC finds the property violated.

### Bounds

- `MaxEntries` 5: a merge needs two free neighbours, an overlap one more block
  above them; two more give each a choice. `MaxRefused` 1 (2 in `heap_no_overlap`) lets requests
  follow a refusal. The cap and sizes are scaled so that fitting, merging, extending,
  refusing and wrapping are all reached: with a word of 2^16, twenty times 3240 is just
  below it (refused), twenty times 20000 wraps to a number above the cap or below it by
  where the list ends, and 65535 comes round to 20 bytes less. `LayoutAssumption` asks only that 21 times the
  cap is below the word, which 138 MB and 2^32 satisfy, and that the word is no multiple of 5.
  In `MemTest` the word is 2^28, as TLC's integers have 32 bits, and the cap 1 MB so
  that this still holds; the test allocates less than 2 kB.
- `MaxEvents` 6 (8 when calm): three make the list break, two bursts reuse an old `rear`.
- `MaxRaised` 2: a line that interrupts its own handler after its EOI.
- `SectorWords` 2 for 1024, `SectorBytes` 4 for 2048, `BufWords` 3 for 256,
  `SleepMs` 2 for 10: the loops are uniform in them. `MaxReads` 2: a read and the
  one that may find its leftovers; `MaxProbes` 2 for the same reason.
  `MaxForeign` 1 of line 15 hits every point of a call.
- `MaxFaults` 2: two directories of a path, or one and a sector, unread. The
  longest walks read three directories before the file.
- `Keys` 1 and 72, `Extended` 72: Escape, whose release is the first byte that is one, and
  an arrow and the key of the keypad with its code. `Wire` 2 bytes: one extended key. `MemCap` 604 (a request is scaled by
  the header's 20 bytes): the node of the third event is refused first, as its
  request makes the largest sum, then events, and payloads once the smaller ones have
  used the rest; `MaxRefused` 9 reaches the refused payload and three events in such a heap. The root entry leaves
  room for one event, as in the kernel (512 bytes of 128 MB; `HeapAssumption`).
  `MaxWaiting` 2: with three the queue breaks of itself, which `events` shows.
- `Buses`, `Devices`, `Functions` 2 for 256, 32 and 8: the loops are uniform in
  them; two devices suffice for "first" and "every".
- `MaxTokens` 3: a directive before, between and after letters. `MaxText` 3: the longest dead text.
  `Letters` is one: no property tells letters apart.
  `Lines` and `Titles` reach from no text to past the limits of 256 and 64. `Numbers`
  include the ends of the digit counts; 2^31 - 1 is the greatest TLC has, so the
  tenth digit is at most 2.
- `Width` 4 and `Height` 2 for 80 and 25, `OutHeight` 1 for 20, `Capacity` 4 for
  10000, `ShortMax` 7 for 32768, `MaxKeys` 9: a line wraps a row, the screen and
  the counter, comes all round the screen, and passes the vector's block. Byte 128
  is the one key that is negative as a signed char. Keys 41 and 43 are neighbours over
  the edge of two rows of the character table. Scan code 0, which no keyboard of
  this set sends, is left out.

### Deadlock

It is switched off where a run's bound ends the behaviour or the code stops
(`cli; hlt` after an invalid free, a panic, a wild pointer, all calls made).

### Fairness

- The thread takes its next step while it is not halted (weak): it is the only
  thread.
- The timer ticks (weak): the PIT is free-running.
- A pending interrupt is taken (strong in `Interrupts`, as `cli` in the
  allocator may clear the flag again and again between two instructions at which it is
  set). The running handler goes on (weak).
- A device answers a command in the end (weak): with data, an error or a fault.
- A lookup goes on (weak in `Iso9660`): the calls it makes return
  (`CallReturns`), but for a read into NULL, which the model halts on, and a probe that spins on a
  device's fault, which comes before any lookup.
- No fairness is assumed of keys, of callers, or of requests.
- `EventFifo` has weak fairness of `Take`; `events_calm` checks that it follows.

## Proofs

Eight modules hold theorems: the invariants of a component's runs, for all values of
its constants that its named assumption admits. Each rests on an inductive
invariant, which TLC has checked on the run's instance first (`HeapInv` and
`QueueInv` are properties of the runs themselves), and each has one lemma per action or per part
of the invariant that an action can disturb. But for the at most two
events that wait in `KeyEvents`, no proof uses that a bound is small: the loops, keys,
calls and sectors of the runs are any number here.

**Heap** (`MemManagerProofs`), from `LayoutAssumption` (21 times the cap is below the word, and the word no
multiple of 5; requests may have any size from 0 to the word's last). The safety
properties are not inductive: that a new entry lies above all others needs the
layout of the whole list, and that a merged size is big enough, and that the last
entry's end is where the next may begin, needs the last entry never to have been
merged. `HeapInv` adds `HeapLaidOut` (entries ascend, an unmerged one ends below
the next header) and `LastUnmerged` (merged entries lie below the last, and wrapped ones not above it). That a
merge grants a block as long as its request, and stops at the first neighbour whatever is asked, is arithmetic: the
distance of two headers that are less than 21 caps apart, divided by 20 modulo the word. From `HeapInvariant` follow
`TypeCorrect` (`memleaks` never wraps), `NeverTwice`, `LeaksCounted`,
`DisjointBlocks` and `BelowCap`: an unmerged block ends beyond the cap exactly if its test wrapped around.

**Event queue** (`EventsProofs`), from `EventsAssumption`. `QueueInv` is `CountInv`, which
relates the registers of a dequeue under way to the queue, and `ListInv`: from `front`
on at least as many nodes are chained, one to the next, as `size` says (`ListFrom`),
unless the starter of a burst, the one gap the code leaves, was taken with two or
more behind it. From `QueueInvariant` follow `TypeCorrect` (`size` never wraps), `LossIsExact`,
`FifoCorrect`, `OnlyForward` (no event is returned after a later one), and
`WildNeedsOverrun`: a pointer nobody set is followed only after three events
have waited. `CalmImplementsFifo`: the initial states and steps of the slow-key
behaviours are those of `EventFifo`, or stutter.

**Key events** (`KeyEventsProofs`), from `KeyboardAssumption` and `HeapAssumption` (the
first event fits behind the root entry, sums do not wrap). `KeyInv` needs of the heap no more
than where its last entry is, since nothing is freed (`HeapGrows`): once a request
for an event was refused, `Full`, every later one is. `Making` says what the
handler holds between its allocations, `Waiting` that from each waiting node three blocks
lead to the code that was sent, or, in a heap that refused, to a blank one, and
`KeysTold` that of every code the last of the events on their way (in the queue, in the
handler, on the wire) says whether its last stroke was a release (`struck`). That what the thread holds for
down is down needs that a struck code has a key that is held, whichever of those that share it. None of the three properties is
inductive without these: each speaks of a moment when what matters is still on its way.
Theorems `ReadAsSent`, `NoneAfterTheLost`, `KnowsTheKeys`.

**Interrupts** (`InterruptsProofs`), from `LinesAssumption`. `InterruptsInv` is
`Stacked`, `Nested` (an activation that still owes the master its EOI is interrupted
only by one of higher priority), `Owed` (a line is in service exactly if some
activation owes its EOI), `ThreadInterruptible` and the types. `InServiceIsStacked` alone is not inductive:
the EOI ends the service of the highest line, and that this is the handler's own
takes the order of the whole stack. Theorems `EoiIsOwn`, `OwnLineAtIret`,
`AllocatesAlone`, `FlagOutlivesHandlers`.

**IDE** (`IdeProofs`), from `IdeAssumption`. `IdeInv` is `Typed`, `Found` (which function
runs, and what the record of the device says), `Probed` (the probe knows which of its commands the
device is at and how many words it still holds), `Asked` (only sectors are asked
for), `Ordered` (a read begun after the device finished knows the device's phase;
`ataLock` taken while it waits is the answer to this packet until line 15
interrupts), and the properties. Theorems `ProbeFinds`, `ReadDelivers`, `LeavesNothing`.

**ISO 9660** (`Iso9660Proofs`), from `Iso9660Assumption`. `IsoInv` adds to the
properties where a lookup is on the disc (`OnDisc`), the blocks each stage of the
recursion holds (`Kept`) and how far the buffer is filled, junk of the
overrun included (`Filing`); without a buffer nothing is stored (`Unbuffered`). Theorems `BlocksKept`, `FileRead`, `OverrunLimited`. For `Resolves` a
second invariant, `ScanInv` (`ScanInvariant`), says where a scan is on the path it follows: the chain
of directories that the components behind it name leads to the block it looks at, and
the records it has passed have other names than the next component; once it has answered, that
the answer is what the path means. A chain is determined by its components, which takes an
induction: over numbers, by the least counterexample (`Least`). `PathResolved` claims nothing of
the paths that are `Misleading`.

**Shell** (`ShellProofs`), from `ShellAssumption`. The invariant is `ShellInv`
(types, the vector holds the line (`LineText`), `CursorFollowsText`,
`SilentSpillBounded`) and `Echoed`: unless the line went astray it is shorter than the
screen, which shows it with the cursor after it. `EchoShown` alone is not
inductive: a backspace must find the cell before the cursor, and that a character drawn does not
hit the line's own start needs the line to be shorter than the screen. The attempt to
prove it corrected the property and the model: `EchoShown` held only up to the bound
the run had then, since a line that comes round the screen overwrites itself, and
key 128 was a positive character.
Theorems `CursorFollows`, `LineKept`, `EchoCorrect`, `SpillBounded`.

**PCI** (`PciProofs`), from `PciAssumption` (what is plugged in are functions; the numbers
of buses, devices and functions are any). `PciInv` is types, the place in the loops with the count of
functions passed (`Walking`), that no VGA card was passed (`NoVgaYet`), and the properties.
Its core is `GoesOn`: going on from a function passes it and nothing else that is there, so that a device taken to have one function has no
other. Theorems `PrintsEveryFunction`, `FindsTheFirst`, `DescribesTruly`.
For `BlocksLost` (`LosesEveryFunction`) `LossInv` adds that the blocks of a call are finitely many while it runs, and that going on
adds exactly those of the function just examined. Proving it corrected the property: a device costs the
registers its header type has, and not those that are in use, which are the same in the layouts of the run.

**Logger** (second part of `PciProofs`, which extends `Pci` and `Logger`: the scan writes its rows with
these texts), from `LoggerAssumption`: letters are no signs and no NUL, texts hold no NUL, the
caller's buffer has room for what the format means, and numbers have 32 bits. The specification is
named `SpecText`, as the two modules' definitions stand side by side.
- `NumbersRead`: `Quotients` reaches 0 after eight digits of base 16 and after ten of base 10
  (`EightDigits`, `TenDigits`); the blanks before the digits are as many as `scnt` says; the loop that
  moves the text leaves what is read past the block only behind the digits; reading the
  digits gives the number (`DigitsRead`). The recursive functions of the model are
  unfolded by `Induction` over a set of numbers.
- `LinesPrinted`: what a line being written is, how far it and the refusal of one too big have been
  written (`LineInv`, `Measured`), and how many columns are outside two blanks.
- `FormatsMeant` and `OneCharacterStays`: neither property is inductive, as a text is appended
  where the first NUL is and a letter is put where `j` is. `FormatInv` says that the buffer has one of
  three shapes: the text itself (`Whole`), the former first character and then the text (`Trails`), or that
  and the text without one character (`Loses`). Setting the end keeps each (`EndKeeps`), a text
  appended too (`CatShape`), and a letter turns the second into the first while nothing is laid
  out, and else into the third (`PutShape`). That no shape grows past the buffer follows from the
  rounds made so far (`Room`). Once a number's text was not found whole (`~intact`) nothing is left of
  the shapes but that the text ends in the buffer (`Placed`, `CatBuffer`, `Spoiled`), which the next call begins from.

Only model-checked: everything about liveness (`QueuedIsServed`, `EveryRequestServed`, `CallReturns`,
`ReadFileReturns`, the fairness part of `EventFifo`), which is out of the prover's reach. Every invariant
of a passing run is a theorem.

## Findings

1. `heap_no_overlap`: the merge computes a size near 2^32 from a negative
   difference (`manager.c:31`) and leaves the absorbed entry linked, so the merged block
   reaches over blocks that others hold or are given later.
2. `heap_self_test`: `s2_MemoryTest` (`kmain.c:150`) expects two freed neighbours
   to be merged into the lower one. The allocator takes the later of equally big free
   entries, which has no free neighbour, and extends the list.

Seen while modelling, and part of the models without a run of their own: NULL is returned when
twenty times the sizes reach the cap, with interrupts left off, and a size of about 207 MB or more, read
off a disc, wraps around the test and gets a block far beyond the cap (`manager.c:74`, `BelowCapUnlessWrapped`);
a file whose buffer is refused is read into NULL with interrupts off, and the read's `hlt` never
ends (`iso9660.c:105`, "halted"); a sector read stores up to twice the sector (`ide.c:232`): of a file
of 2148 bytes the first read stores 1948 bytes past its buffer (`OverrunBounded`);
a device that reports a fault without an error is waited for without end (`ide.c:118-127`, the exception in
`CallReturns`); where nothing is connected `type` is what the heap held, which may read as a packet
device (`ide.c:112`, left open by `FoundIsConnected`); the release of one of two keys that share a code, as the arrows
and the keypad do, hides the other (`ps2_keyboard.c:9-18`, `KeysKnown`); the texts of `%u` and
`%x` are read in a frame that is gone, so the logger's own test (`log.c:127`) need not print
its 123 (`intact` in `FormatMeans`); the vector's overflow is reported late (`vector.c:16`, bounded by
`SilentSpillBounded`); a shell command is read through its characters taken as an
address (`vector.c:51`), so `v` need not print the version; three waiting events
make the thread follow a pointer nobody set, far below `S2_EVENT_QUEUE_MAX`
(`events.c:62`, exactly characterised by `WildOnlyAfterOverrun`); an exhausted heap
turns every key into the release of key 0 (`events.c:58`, `LostForGood`); an
interrupt of the secondary channel ends a read too early (`irq_handlers.c:102`,
excluded by `foreign` from `SectorDelivered`); a directory that cannot be read is skipped in the
path (`iso9660.c:27`, `Resolves`), and the file returned has no size (`iso9660.c:113` never sets
it); an empty place of the bus costs three blocks for each of eight functions
(`pci.c:126`, `BlocksLost`); `s2_ToDec` reads past its block (`io.c:99`,
`NumberRead`); and `s2_Log` writes up to twelve bytes past its own for a line it prints, and
further for one it refuses, whose size it tests too late (`log.c:115`, `LinesFit`).

## Not modelled

- VGA register tables, port instructions, the boot loader, the sequences of
  `PIC_init`, `IRQ_clear_mask` and `s2_PITTimerInit`: straight-line accesses to
  devices, without state of the kernel's own.
- Paging stubs, `s2_MemoryPurge`, `s2_EventUnqueue`, `s2_DisposeEvent`,
  `s2_ShellDispose`, `s2_CatSZ`: nothing calls them.
- Directories of more than one sector, whose scan leaves its block; two reads on
  the two channels at once, which the one thread cannot make.
- That an allocation in an interrupt takes the block `iso9660.c:66` has freed and still
  reads: the allocator hands a block out whole, its owner writes at most twelve
  bytes at its start, and a record that can match begins at byte 68.
- What a format does behind a lone sign at its end, and what the thread reads
  when two events wait in a heap that refuses.
- What comes of memory that is overwritten: the heap's headers behind the vector, a file's buffer or
  in a merged block, and the frame under a log line that is refused.
- A second free of one pointer; the refusal of a record of twelve bytes in the file system, and of any block
  in the PCI scan; rows of the scan below the screen; 64-bit base address registers.
- Records whose length does not lead to the next record of the directory.
- Bytes of the keyboard that are no key's: an acknowledgement, an overrun.
- Colours and wording, as far as no property is about them.

## Plan

Done, in this order: heap and its proofs; event queue, its abstract
specification and its proofs; interrupts; file system; shell; then PCI; logger
and formatting; the composition of keyboard, heap and queue; the probe and the
reads over one IDE channel; reads that fail in the file system; the shell's row counter.

Then the proofs, in the order heap, queue, interrupts, IDE, shell, file system, PCI,
key events; last the meaning of paths, the blocks a scan loses, and the texts of the logger.

Next: directories of more than one sector, whose scan leaves its block; the effect of a
merged block's owner on the headers inside it.
