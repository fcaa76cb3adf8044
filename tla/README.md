# MiniOS: models, checks and proofs

TLA+ modules about MiniOS (`src/MiniOS/boot` and `src/MiniOS/kernel`), a 64-bit kernel
with its boot loader, for one processor with one thread and interrupts: what it is made
of, which parts are modelled and how, what TLC checks about them on small instances and
what TLAPS proves about them for every instance. Paths below are relative to
`src/MiniOS/`.

Contents: [the system](#1-the-system), [the modules](#2-the-modules), [the
runs](#3-the-runs), [disagreements found](#4-disagreements-found), [the
proofs](#5-the-proofs), [what is not modelled](#6-what-is-not-modelled), [the
plan](#7-the-plan).

## 1. The system

`boot/mbr.asm` and `boot/ssl.asm` read the kernel from a floppy laid out by
`utils/makeFloppy.py` and copy it to its place. `kernel/__init.asm` builds the page
tables, switches to long mode and calls `KernelMain` (`kernel/main.c`), which sets up
the interrupt controllers, the IDT, timer, clock, keyboard and console, enables
interrupts, identifies the drives, initialises the memory and calls `ExecuteConsole`,
which does not return. From then on there is **one thread**, the console's loop, and the
**interrupt handlers** of the timer, the keyboard and (as far as the code intends) the
clock. There is no scheduler and no lock; what the thread and the handlers share is kept
apart by the order of assignments and by the interrupt flag.

| Component | State | Operations | Talks to |
|---|---|---|---|
| Boot loader (`mbr.asm`, `ssl.asm`) | registers, memory below 1 MB, the copy at 0x200000 | reading in batches, copying, the test of A20 | BIOS; `ASMEntryPoint` |
| Paging (`__init.asm`) | four levels of page tables | `ASMEntryPoint` | the page allocator owns the fourth page table |
| Interrupt stubs and exceptions (`__init.asm`, `interrupt.c`) | the stack and the registers of what was interrupted | `__IRQn`, `__ERQn`, `ERQn_handler`, `PrintTrapFrame` | processor; the C handlers |
| Page allocator (`memory.c`) | bitmap of 512 page frames, present bits of the page table at `PT_3_ADDR` | `PageAlloc`, `PageFree` | called by the block allocator and by `mem -alloc -p`, `mem -free -p` |
| Block allocator (`memory.c`) | pool of 255 elements, lists `FreeBlocks` and `OccupiedBlocks` | `MemBlockAlloc`, `MemBlockFree`, `CompactFreeBlocks` | page allocator; called by `mem -alloc -b`, `mem -free -b`, `test-memory` |
| Console (`console.c`) | state machine, history of 100 command lines with cursor and arguments, the line on the screen | `ExecuteConsole`, `newCommand`, `processCommand`, the commands, the keyboard callback `function` | keyboard interrupt, timer (`Sleep`), everything the commands call |
| Interrupts (`interrupt.c`, `main.c`, `__init.asm`) | masks and in-service bits of two controllers, IDT, interrupt flag | start of the kernel, the handlers, `PIC_sendEOI` | devices, keyboard driver, timer |
| Timer (`timer.c`, `pit.c`) | counter of ticks | `TimerInterruptHandler`, `GetTicks`, `Sleep`, `mSleep` | interrupt 0, console, disk driver |
| Keyboard driver (`keyboard.c`) | modifiers, prefix 0xe0, subscriber | `KeyboardInterruptHandler`, `KeyboardSubscribe` | interrupt 1, console |
| Real-time clock (`rct.c`) | the clock's registers | `RTCInit`, `ReadCMOS`, `SysGetTime`, `SysGetDate` | interrupt 8, console |
| Disk driver (`ata.c`) | `ide_devices`, the registers of each channel | `ide_initialize`, `ATAIdentify`, `ide_read_sectors`, `ide_write_sectors`, `PoollingUntilReady` | the drives; called by `disk -r`, `disk -w` |
| Screen (`screen.c`) | video memory, cursor, color | `PutChar`, `NewLine`, `CursorPosition`, `ClearPos`, ... | everybody; the console reads the cursor back |
| String functions (`stdfunc.c`) | none | `roundUp`, `insertChar`, `removeChar`, conversions | everybody |
| Older copies (`kernel/ata/`, `kernel/memory/`, ...) | | | not compiled by `kernel.vcxproj` |

What is hard in it, and what has to be right:

- **Boot loader.** Three ways of counting the same sectors (the batches that are read,
  the windows of 64 KB they go to, the batches that are copied) must meet in an image
  with every sector in its place; no read may cross a window or hit the loader.
- **Paging.** Entries are computed one from the other, with the flags of the entry
  before still in the register, in tables of which some were never cleared.
- **Stubs.** Pushes and pops must match, with and without an error code, and what is not
  saved, or saved where the called function may write, must not matter.
- **Keyboard.** One byte per interrupt, keys of two bytes, two keys for one modifier,
  bytes that come late or never: a modifier must not get stuck, a key must not be taken
  for another.
- **Page allocator.** Two tables updated in separate statements with separate indices
  must agree; a hand-written search for consecutive bits must find the first fitting
  run, must not skip one, and must end. Its bound is wrong (section 4).
- **Block allocator.** Blocks are extents in two ordered lists, split, merged and
  released page by page, and `CompactFreeBlocks` only merges *list neighbours*: after
  every sequence of calls the lists must still be ordered, no byte may be in two blocks
  or in none, no page may be released under a block or kept without one. Neither
  `PageAlloc` nor `GetFirstAvailable` is asked whether it found something.
- **Console.** A handler changes the line, the history and the state machine between any
  two steps of the thread. What is shown must be what is executed, a line that is being
  executed must not change, Ctrl-C must end a command, every line must be answered.
- **Screen.** The console does not know where its line is: it computes it back from the
  cursor and the position in the line, at every key, for lines over several rows and at
  the end of a screen that does not scroll. When it computes a place before the screen,
  clearing the line clears the kernel.
- **Commands.** A clock that goes on while its six registers are read; answers written
  over older ones and over old text, also behind the last row; numbers that do not fit,
  and addresses printed by one command and typed into another.
- **Interrupts.** Nothing may be taken before its handler is ready, no line may be left
  in service, `Sleep` must survive a counter that starts again at 0, and `ReadCMOS` a
  handler that selects another register between its two steps.
- **Disks.** A drive works by itself: it shows that it is busy only a moment after a
  command, may fail at any sector, and may be left in the middle of a transfer by an
  earlier call. Data must be moved only when the drive is ready, to and from the place
  that was asked for.

The hazards this leads to are listed in `PROJECT.json`, each at its line and with the
properties that watch over it, or the reason why none does.

## 2. The modules

| Module | Models | Composed of |
|---|---|---|
| `PageFrames` | the page allocator, one action per call | |
| `PageScan` | `PageAlloc` loop by loop | implements `PageFrames` |
| `AbstractHeap` | what the block allocator promises its caller | |
| `BlockHeap` | the block allocator | EXTENDS `PageFrames`; implements `AbstractHeap` while memory lasts |
| `BootLoader` | from the floppy to the kernel's address | |
| `Paging` | `ASMEntryPoint` and what the processor makes of the tables | EXTENDS `BootLoader` |
| `Traps` | stubs, frames, exception handlers | EXTENDS `Paging`: boots, then is interrupted and faults |
| `Keyboard` | keyboard, handler byte by byte, what `function` makes of a key | |
| `Console` | the console's thread, the keyboard callback, the sleeping timer | |
| `Screen` | the functions of `screen.c` as operators on a screen | |
| `LineOnScreen` | what every step of the console makes of the screen | EXTENDS `Console` and `Screen` |
| `Clock` | `SysGetDate`, `SysGetTime` against a clock that goes on | |
| `Numbers` | conversions between numbers and texts | |
| `Commands` | what commands do with answers and arguments | EXTENDS `Clock`, `Numbers`, `Screen` |
| `Interrupts` | start of the kernel, controllers, handlers, `Sleep`, `ReadCMOS` | |
| `AtaDrives` | the drives (external: what the driver relies on) | |
| `Ata` | the disk driver | EXTENDS `AtaDrives` |
| `PageScanProofs`, `AtaProofs` | theorems | EXTEND their module and TLAPS |
| `BlockHeapStructure`, `BlockHeapProofs` | theorems about `PageFrames` and `BlockHeap`: what holds always, and what holds while memory lasts | the second EXTENDS the first |
| `InterruptsProofs` | theorems about the start, the boot loader included, and about interrupts | EXTENDS `Interrupts` and `Traps` |
| `ScreenProofs` | lemmas: what the operators of `Screen` do, arithmetic, functions defined step by step | EXTENDS `Screen` |
| `ConsoleProofs` | theorems about thread, keys and screen | EXTENDS `LineOnScreen` and `ScreenProofs` |
| `DeviceProofs` | theorems about clock, commands, numbers and keyboard | EXTENDS `Commands`, `Keyboard`, `ScreenProofs` |
| `MC...` | instances for TLC | EXTEND their module |

**Plausible mistakes.** A definition named `X_FewWords` beside a definition `X` is `X`
with a mistake somebody could make in that code (a bit index that is not started again,
a mask cleared too many, a flag not reset). No specification uses it; `PROJECT.json`
lists under "mutants" which property rejects it. A property that rejected nothing would
say nothing about the code.

### BootLoader, Paging and Traps

`stage` is where the loader is, from the master boot record to the jump into the kernel,
or `"halted"`, or `"lost"` when it goes on with registers it never set or has
overwritten itself. Memory is kept by sectors: `low` and `image` say which sector of the
floppy lies where. `int13` is the BIOS, which may always fail and refuses a transfer
over a window of 64 KB or behind the floppy's end; `rest` is the word that `.readLoop`
pops and pushes again. `readLoop`/`readLastBatch` and `kernelCopyLoop`/`copyLastBatch`
are one batch each.

`Paging` begins with `call eax`: `ClearTables`, `LinkTables`, then `FillEntry` once for
each entry of the four tables, with `eax` as the register that goes on. `mem` has both
halves of each entry, since the code writes one of them only; `ram` is what memory held
before. `Entry` and `Translate` are the processor's walk through the tables.

`Traps` boots first; when paging is on, the thread may be interrupted or fault at any
time. A page fault is one on a page that `Translate` does not map. `stack` holds what
was pushed with its meaning, `regs` whose value is in each register. The handler is
compiled C: it may change any set of `Scratch` registers, and any set of the four words
above its return address, which the convention for x64 gives to the function that is
called and in which the stubs, reserving nothing, have saved rdi, rsi, rbp and rbx
(`HOME_WORDS`). So `ResumesAsItWas` promises these four only if the handler leaves them
alone. (The handlers of the build that is kept in the repository do: in
`kernel/x64/Release/*.obj` those that return never write there. Another build need not.)
`HandlerFrame`, the distance that `__trap_esp` and `interrupt.c:335` between them
assume, is not in the source: it is what the compiler reserved in that build, where
`ERQ0_handler` and `ERQ14_handler` begin with `sub rsp, 48h` (`interrupt.obj`), 72
bytes, with the return address on top. What is said about printed frames is said of that
build.

### Keyboard

`wire` holds bytes on their way, at most `Buffer` of them; a key that finds no room is
dropped (`lost`). `LockByte`, `ModifierByte`, `PrefixByte` and `KeyByte` are the cases
of the `switch`; `keyState` is a `KeyStatus`; `event` is the call of `function` that a
byte led to, `Function` what `function` does with it while a command is waited for.
`owner` is a history variable: the key whose prefix is being kept. The tables are those
of the headers, element by element. `KEY_SCROLLLOCK` is larger than a byte and
`KEY_RSHIFT` is not the code of that key, so neither case is ever taken by a real key.

### PageFrames and PageScan

`PageFrames` is the allocator as its callers see it, with one bit for each frame, taken
or not. `PageFrames!PageAlloc(n)` picks the page from `Answers(n)` (NULL is `NoPage`)
and marks it by `TakePages`; `PageFree` is `ReleasePage`. `status` becomes `"corrupted"`
when the code stores outside its tables; what the kernel does afterwards is not defined
by its source, and the behaviour ends there. `InitMemory` clears no bit: any set of
pages may be taken from the start.

`PageScan` has the two tables: `BitMap` is the bytes of `BitMap.bits`, `present` bit 0
of each entry at `PT_3_ADDR`. Each is read and written through indices of its own, as in
the code: byte and mask (`i`, `j`, `bitmapIndex`, `bitIndex`, `MaskOf`, `MASK_BIT_7`),
and the number of the entry (`idx`), computed separately for one page, for several and
in `PageFree`. There is one action per iteration: `LookForOne` is
`GetFirstFreePageNumber`, `BeginRun`, `CountPage` and `EndRun` are the two `for` loops
and the `while` of `GetFreePagesNumberStart` with `start` and `pagesCounter`,
`MarkOnePage` and `MarkPage` are the two ways in which `PageAlloc` marks. Behind the end
of the bitmap `BitRead` is either value: it is somebody else's memory. `stale` is a
history variable, the pages that `InitMemory` found marked: they have no entry until
they have been freed once. The refinement mapping shows a request's pages as taken from
the moment they are found.

### BlockHeap and AbstractHeap

An element of the pool is a number; `Address`, `Size`, `IsFree` (with the third value
`U_BOOL`) are its fields, and the linked lists are the sequences `FreeBlocks` and
`OccupiedBlocks`. `MemMap` and `AvailableBlocks`, which point to each other for good,
are one element. `MemBlockAlloc` is one action with the code's four outcomes:
`SplitBlock`, `ExactBlock`, `BlockAndRest`, `PoolExhausted`. `MemBlockFree` is the scan
(`FreeFoundBlock`, `ScanNextBlock`), and for each block freed the two loops of
`CompactFreeBlocks` (`MergeBlocks`, ..., `ReleaseEnds`), one iteration per step, since
the lists change under the scan. `consolePages` are pages that `mem -alloc -p` took.
`shortage` records that a block was made although there was no page: properties that
talk about a healthy heap are conditioned on `Intact`, and two of the findings are about
what happens then.

`AbstractHeap` knows blocks as pairs of address and size: a request gets bytes nobody
has, freeing an address removes the block it is in and nothing else.

### Console

`StateMachine`, `commands`, `commandIdx`, `NumberOfCommands` are the fields of
`console`; `shown` is the line that `CommandToScreen` printed last. `at` is where the
thread is: a case of the `switch`, or a point inside it between two accesses to what the
handler also uses, `wait` and `back` are its sleep. `KeyForTheLine` and `CtrlC` are
`function`, and may run between any two steps; `Tick` is the timer. A word is a sequence
of characters, and `Kinds` maps command words to what the commands do to the machine:
`Execute...` has the `-c` loops, the sleeps, the faults that halt, and the rest, which
only answer. Writes behind `args` or `commandStructs` lead to `"corrupted"`, and so does
a word that is longer than `command` or a row of `args` (`MaxWord`, 19 characters):
`processCommand` looks at none of these limits.

### Screen and LineOnScreen

A screen is a record of `cells` and `cursor`; each operator is what one function makes
of it. `LineOnScreen` joins the actions of `Console` with what they print: each key with
`CommandToScreen` as the code calls it, the prompt of `newCommand`, the answer of a
command (any of `Outputs`, or a cleared screen), the new line of `EXIT_COMMAND`. `row`
(where the line was drawn) and `over` (it went over the end of the screen) are history
variables. `EndOfClearing` has the division where the code has it.

A cursor before the screen is kept in 16 bits and read back as a place near 65500; from
there `CommandToScreen` clears up to cell 80 times that, which is 0xD7F40 to 0xAB7000
and more: stack, kernel and page tables. `FreeCells` is the number of cells from the
start of video memory that nobody needs; a step that clears more sets `destroyed`, and
the behaviour ends there. `Screen` itself keeps no cell behind the screen, which nobody
reads. `HelloBoot` with the greeting `boot` is what `KernelMain` leaves on the screen
before the first prompt.

### Clock, Numbers and Commands

`Clock` reads one register per step; `SecondPasses` may come between any two, and after
it each register may still read as before until `RegistersSettle`, as the chip does
while its update flag is set, which the kernel never looks at. `moments` is the history
of what the clock showed since the function was called, `torn` that a register was read
in between. Fewer than 60 seconds pass in one call (`MaxSeconds`); between the calls the
clock goes on freely, and `Commands` lets it stand still there. `TimeOf` is the
arithmetic of `SysGetTime` as written; the overflow of its `int` is benign modulo 2^32
and left out.

`Numbers` has the conversions with the widths as constants. `Commands` has the loops of
`get_date` and `get_time` on a `Screen` (with `printf`, `sprintf` and the text
`response` that the second fills). A command begins where Enter left the cursor, at the
start of any row or behind the last one, on a screen with any of `OldTexts`; `found` and
`longest` are history variables, what was on the screen and the longest answer since.
Then there are the commands that read numbers: `call` is the call that a command makes,
with the texts its numbers were made of; `ref` and `printed` are an address that `mem
-alloc` got and the text it printed. Where the calls go is in `Interrupts` (`Sleep`),
`Ata` and `BlockHeap`.

### Interrupts

`boot` is the next call of `KernelMain`, `masked`, `requested` and `inService` the
controllers, `gates` the vectors that have a handler, `func` the keyboard's subscriber,
`handler`/`step` the handler that runs, `pc` and the variables after it the thread in
`Sleep`/`GetTicks` or `ReadCMOS`. The device side is external: a device may request at
any moment, and a controller passes on the request of the highest priority that is not
masked and not behind one in service. Devices 8 to 15 come in through line 2, which the
code never unmasks, so that the handler of the clock never runs; `ReadsSelectedRegister`
depends on that.

### Ata and AtaDrives

`AtaDrives` is what the driver relies on: a drive that was given a command or a sector
is `"settling"` (not busy yet), then `"busy"`, then has data, is ready, or is in error;
it does not hear a command while it is busy, and a place without a drive reads as 0 (as
in Bochs, on which the kernel is run). An ATAPI drive refuses IDENTIFY. In `Ata`,
`ATAIdentify` to `ReadIdentification` are `ide_initialize`; `Delay`, `TestBusy`,
`ReadStatus` are `PoollingUntilReady`, which has no `return` behind its loop, so that
its answer for a drive that is not busy is either value; an `ide_device` is what the
driver keeps of a drive; `Request` holds the checks of `ide_read_sectors` and
`ide_write_sectors`; `SendCommand` to `WriteEnds` are `ide_ata_access`. `lba_io`
computes the registers from the position (LBA48, LBA28, CHS) and `Decoded` is the
position that the drive makes of them.

## 3. The runs

| Run | Question | Instance |
|---|---|---|
| `boot` | is the kernel whole, is memory mapped to itself, do traps come back? | 17 sizes around 1, 2 and 9 batches; tables of 6 entries |
| `page_scan` | does the search find the first fit, end, and implement `PageFrames`; do bitmap and page table agree? | 3 bytes of 2 bits in any state, requests of 0 to 4 |
| `heap` | is each element where its flag says; are blocks disjoint, on pages of the heap, ordered; is no byte lost and no page idle; does `MemBlockFree` return; does the heap implement `AbstractHeap`? | 3 pages of 3 bytes, 3 elements, sizes 0 to 8, up to 2 pages taken at once by the console, shortages included |
| `heap_all_freed` | finding | 3 pages of 3 bytes, 4 elements |
| `console` | are thread and keyboard kept apart, is what is shown executed, does Ctrl-C end a command, is every line answered? | 2 slots, 2 rows of arguments, words of 2, lines of up to 3 characters out of 2, 3 commands begun |
| `console_goes_on` | finding | same |
| `interrupts` | are handlers ready, nothing left in service, `Sleep` long enough and finite, `ReadCMOS` undisturbed? | counter modulo 4, sleeps of 0 to 2 ticks, at most 1 tick between two readings |
| `ata` | are the sectors asked for moved, no other written, nothing moved while busy; does every call come back? | 1 channel with any two drives of 5 sectors, bytes of 4 values, tracks of 2 sectors, 2 heads, 0 to 2 sectors per request, 2 contents |
| `keyboard` | does a modifier get stuck, is a key taken for another? | 6 keys, 2 held, 3 bytes on their way |
| `screen` | does the screen show the line and the cursor, and what may clear the kernel? | 3 rows of 3 and 48 cells in all, prompt of 1, lines of up to 3 of one character, 2 slots, 3 lines entered |
| `commands` | is a date a moment, does time count every second, do answers stand and arguments arrive? | 4 dates at the end of fields, 2 seconds in each call, 2 answers on a full screen of 2 rows of 24; types of 16, 256 and 65536 values |
| `help_holds` | finding | same, on a clear screen |

**Why the bounds are enough.** *Pages*: the scan sees runs at the start, in the middle
and at the end of the arena, across byte limits, in the last byte and behind it with 3
bytes of 2 bits; a byte has two masks, and a request for 4 pages ends in another byte
than it begins in. *Heap*: sizes below, at and above a page, a block over three pages,
and an exact fit, a split, merges to the left and right and the release of a block's
first page all occur; pages of the console lie between pages of the heap; the pool is
exhausted, and the run goes on after that and after a shortage of pages. *Console*: two
slots and three commands reach the end of the history, going back in it, reuse of a slot
with its old text, the last row of `args` and a word that is too long; characters are a
blank and one letter because only blanks and equality of words matter: one letter is the
word for the continuous command, two are a fault. *Interrupts*: four values of the
counter are the smallest number in which a sleep of two ticks and its lag can begin
before the wrap and end after it. *Disks*: a request for two sectors from position 1
crosses a track, one from 4 reaches the last sector or beyond, the third position
overflows; the failing drive can be either and at any sector. Bytes of four values give
positions of eight bits, so that LBA28, LBA48 and the carry occur. *Boot*: the constants
of the loader are the real ones; sizes at, one below and one above every multiple of a
batch that changes the way taken, the last one that fits under the video memory, and
sizes that are no whole number of sectors; tables of six entries still have the page
directory, its four used entries, and pages behind the arena. *Keyboard*: a key with two
modifiers of its own, one key without and one with a prefix, a lock; three bytes are a
prefixed key and one more, so that a release can be dropped while a press waits.
*Screen*: a prompt and three characters on rows of three take two rows, and three rows
are few enough for prompts on every row, behind the last one and back at the top; blanks
suffice because the property compares cells, and an empty cell is not a blank. 48 cells
are as many as a line that begins on the screen may clear, and a cursor before the
screen is far behind them. *Commands*: each date is a second or two before a carry into
minutes, days, months or years, a leap February, a year 0; an answer begins on the
second row or behind it, so that both ends of the screen are met; a byte of 16 values is
exceeded by numbers of one, two and three digits, and addresses contain digits and
letters.

`CHECK_DEADLOCK FALSE` is set for the page, heap, console, screen, boot and command
runs: their behaviours end where the code has overwritten memory (`"corrupted"`), has
halted the machine, or a bound is reached. Interrupts, the keyboard and the disks never
stop and are checked for deadlock.

**Fairness.** The thread is the only one and the processor goes on, so a loop of the
kernel that can take a step takes one: WF of the loops of `PageScan`, of `FreeStep` in
`BlockHeap`, of `Thread` in `Console`, of `Driver` in `Ata`. The timer goes on ticking
(`WF(Tick)` in `Console`). In `Interrupts`, handlers run to their end and the kernel's
start goes on (WF); the timer goes on requesting (WF) and, having the highest priority,
is served infinitely often if the interrupt flag is set infinitely often (SF; `GetTicks`
clears it again and again, so weak fairness would not do); and the devices leave the
thread time for an instruction between two interrupts (SF of `Kernel`), which the rates
of these devices justify. A drive ends what it was told to do, with success or an error
(WF). Nobody ever has to press a key.

## 4. Disagreements found

Three runs are expected to find a violation; `PROJECT.json` quotes the text that each
contradicts.

1. `heap_all_freed`: an exact fit leaves a free block of no bytes. Releasing the first
   page of its left neighbour can move that one to the same address without inserting it
   again; then it is not next to its right neighbour in the list, the two never merge,
   and a page stays taken after everything has been freed. `NoIdlePage` says that there
   is no other way: the empty block is at the first byte of the idle page or of a page
   below it. (An earlier form allowed for the page itself only and passed every run; the
   proof did not go through, and with blocks of 8 bytes TLC shows why.)
2. `console_goes_on`: `processCommand` appends to the arguments that a line of the
   history has from its first execution (`console.c:843`): `get_time` without arguments
   goes on for ever.
3. `help_holds`: `HelpHolds` has one named part for each of four lines of the help. TLC
   stops at the first trace, which is that of the first part; put into the configuration
   alone, each of the others gives a trace as well.
   - `SleepsSeconds`: `sleep -s` "sleeps for SECONDS seconds" in the help
     (`console.c:405`) and ten times as long in the code, which hands `Sleep` a thousand
     ticks for each (`console.c:422`).
   - `WritesFromTheBuffer`: `disk -w` writes "from BUFFER address" (`console.c:436`), but
     takes an address as `mem -alloc` prints it, and as `disk -r` reads it, for 0
     (`console.c:463`).
   - `TimeIsCurrent`: `get_time`, which "returns current time" (`console.c:331`), counts
     the whole current month and forgets the leap day of the year 2000 (`rct.c:49`). What
     it returns instead is in `TimeIsNotBehind`.
   - `DateIsShown`: `get_date -c`, which shows the "current date in continous mode"
     (`console.c:368`), prints each date over the one before (`console.c:383`), and the
     end of a longer one stays: 12:1:0 after 12:0:59 is shown as 12:1:09.

Others are part of the models and bound what the properties say; a property names the
exception, so that it would fail if there were another one.

| Where | What the code does | Where a property says so |
|---|---|---|
| `memory.c:71` | the byte index of the search is compared with the number of *bits*: a run at the end of the arena that is too short goes on behind the bitmap | `"corrupted"` in `PageFrames`; `ImplementsPageFrames` |
| `memory.c:390` | the answer of `PageAlloc` is not looked at: a block is made at NULL and its rest handed out later | `Intact`; `ImplementsAbstractHeap` allows `Break` |
| `console.c:300` | a Ctrl-C that comes while the line is being parsed is overwritten | `CtrlCEndsCommand` leaves that moment out |
| `ata.c:435`, `:460` | position and number of sectors are added in 32 bits and pass the check when the sum starts again at 0 | `Request`; the drive answers with an error, and `CallsComeBack` holds |
| `ssl.asm:114` | a kernel of a multiple of 70 sectors is read from a wrong sector into a wrong segment, one below 70 to a wrong offset, and with a size that is no whole number of sectors the remainder of one division goes into the next | `Loads` |
| `ssl.asm:34` | the comment's formula for the head is not the code's, and would be wrong | mutant `LBA2CHS_HeadAsCommented` |
| `__init.asm:72` | three of the seven tables are not cleared | `ram = 0 \/ v < PT_SIZE` in `MapsToItself` |
| `__init.asm:336` | the stub of a double fault leaves the error code on the stack: `iretq` returns astray | `ResumesAsItWas` |
| `__init.asm:229` | r8 to r11 are not saved, and rdi, rsi, rbp and rbx where the handler may write | `ResumesAsItWas` speaks of `Pushed` only, and of `HomeRegisters` with an exception |
| `memory.c:7` | the bits of the bitmap are not cleared: a page may be taken that nobody has, and is then not mapped | `stale` in `MappedIffTaken` |
| `console.c:829`, `:838` | a word of 20 characters or more runs over `command` or its row of `args` | `"corrupted"` in `Console` |
| `keyboard.c:77` | the prefix of the right Ctrl and Alt is kept for the next key; at the start it is what memory held | `KeyIsReported` |
| `console.c:113` | CapsLock alone changes nothing and undoes Shift; the right Shift never counts | `KeyIsReported`, `ModifiersFollowKeys` |
| `console.c:853` | the first row is not cleared to its end | `row > 0` in `LineIsShown` |
| `screen.c:28` | the line after the last row is not on the screen | `over` in `LineIsShown` |
| `console.c:850` | after a line over the end of the screen, or an Up or Down to the end of a line near it, the place of the prompt is computed as one before the screen, and clearing from there (`console.c:853`) clears the kernel | `KernelOutlivesTheLine` |
| `rct.c:63` | registers are read while the clock changes them | `torn` in `DateIsAMoment` |
| `console.c:342`, `:379` | an answer on the last row loses its first character, and the rest goes to the first row | `Lost` in `AnswerStands` |

## 5. The proofs

Every invariant that a passing run checks is also a theorem for every value of the
constants; so are both refinements and the action properties.

| Theorem | Says | Inductive invariant |
|---|---|---|
| `PageScanProofs!ScanMapsWhatItTakes` | bitmap and page table agree whatever was allocated and freed, each stored to through its own indices | `IInv`, with `IndicesAgree` and `StaleAreTaken` |
| `PageScanProofs!ScanIsFirstFit` | the search passes over no fitting run, its counter is the length of the run it stands in, only pages nobody holds are marked | `IInv`: types, `CounterBounded`, `IndicesAgree`, `TablesAgree`, `NothingSkipped`, `CountIsRunLength`, `MarksFreePages` |
| `PageScanProofs!ScanImplementsPageFrames` | the loops of `PageAlloc` implement `PageFrames`: the caller gets one of the allowed answers and both tables change as they may | `RInv`: `IInv`, `SearchKnows`, `MarkedSoFar` |
| `BlockHeapStructure!HeapListsMatchFlags` | elements, flags and the two lists agree, shortages included | `HeapStructure`: types, `ListsMatchFlags` |
| `BlockHeapProofs!HeapListsOrdered`, `HeapBlocksDisjoint`, `HeapBlocksOnHeapPages`, `HeapLosesNoByte` | while memory lasts: both lists ordered, no byte in two blocks, none outside the heap's pages, none of these lost | `HeapInvariant`: `HeapStructure`, and `Promises` if `Intact` |
| `BlockHeapProofs!HeapKeepsNoIdlePage` | freeing gives back every page whose last block has gone, but for pages kept by an empty block | `CompactedInvariant`: `HeapInvariant`, and if `Intact` `InsideOnePage`, `EmptyInPlace`, `Merged`, `Released` |
| `BlockHeapProofs!HeapImplementsAbstractHeap` | the allocator implements `AbstractHeap` | `HeapInvariant`, `ScannedAreKept` |
| `ConsoleProofs!ConsoleIsTyped`, `OnlyOneWrites`, `CursorStaysInLine`, `ShownLineIsTheCommand`, `EnteredLineIsKept` | thread and keyboard keep apart, the cursor is in the line, what is shown is executed, an entered line stands | `CInv`: `Typed`, `Control`, `RoomForCommand`, `ShownIsCurrent` |
| `ConsoleProofs!ScreenShowsTheLine` | at every key the screen shows the line where it was drawn, and the cursor in it | `LInv`: `CInv`, `IsScreen`, and `LineStands` while a line is waited for |
| `ConsoleProofs!KernelOutlivesTheScreen` | `CommandToScreen` clears the kernel only after a line has gone over the end of the screen, or when Up or Down take the cursor over it | same |
| `InterruptsProofs!InterruptsAreHandled` | no interrupt is taken before its handler is ready | `IInv`: `Ready`, `Serviced`, `CascadeMasked`, `ReadsSelectedRegister` |
| `InterruptsProofs!EveryHandlerEnds` | nothing is left in service | same |
| `InterruptsProofs!CMOSIsNotDisturbed` | `ReadCMOS` reads the register it selected | same |
| `InterruptsProofs!SleepIsLongEnough` | `Sleep` ends no earlier than it was asked to, over the wrap of the counter | `SInv`: `IInv`, `SleepTypeOK`, `SleepCounted` |
| `AtaProofs!DrivesAreFound`, `TransfersWait`, `ReadsAreDelivered`, `WritesAreStored`, `NothingElseIsWritten` | the list of drives is that of the places; no word moves while the drive is busy; sectors arrive in their places, in both directions, and nothing else is written | `AInv`: types, `Devices`, `Transfers`, `Working`, `Place`, `Writing`, `Reading`, and the two properties |
| `InterruptsProofs!LoadedKernelIsWhole` | kernels of every size the loader is made for arrive whole | `LoaderInv` |
| `InterruptsProofs!MemoryMapsToItself` | the tables map every page to itself, the arena absent, nothing behind it | `PagingInv`: `TablesTyped`, `Halves`, `Links`, `Filled` |
| `InterruptsProofs!InterruptsReturn` | the address is that of the interrupted thread, the registers are as far as the handlers leave their home area alone, and the frame printed in the repository's build is the processor's | `StubInv` |
| `DeviceProofs!SysGetDateReadsAMoment`, `SysGetTimeIsNotBehind` | a date that was read is one that the clock showed; a time that was read is never behind the call and counts every second | `ClockInv`: `ClockTypeOK`, `ClockTicks`, `MomentsKept`, `ReadInTime`, `ReadsADate`, `SecondsTell`, `ReadsForwards`, and both properties |
| `DeviceProofs!CommandsReadTheClock` | the commands implement `Clock`, so both hold for `get_date` and `get_time` | |
| `DeviceProofs!ArgumentsComeThrough` | what `sleep -m`, `disk` and `mem` get is what was typed, up to the width of its type, and the address that was printed, but for `disk -w` | `ArgumentsInv`: `ArgumentsArrive`, `PrintedIsRef` |
| `DeviceProofs!AnswersStand` | every answer stands where the first one began, but for a character behind the last row, and nothing else on the screen has changed | `ClockInv`, `DisplayInv`: `AnswersAreShown`, `time` is a number |
| `DeviceProofs!ModifiersFollow`, `KeysAreReported` | no modifier stays set without its key, no key is taken for another | `KeyboardInv`: `KeyboardTypeOK`, `Clean`, `Follows`, `ShiftFits` |

The theorems hold for every value of the constants that satisfies the named assumptions
of their modules, so also for 512 pages, 64 bytes of 8 bits, a pool of 255, a history of
100 lines, bytes of 256 values and a counter of 2^64. The assumptions say that sizes are
positive numbers, and where the code needs more:

- `HeapAssumption`: the arena begins at a page's address that is not 0, and a page has
  more than one byte.
- `InterruptsAssumption`: the longest sleep and the ticks that pass between two readings
  of the counter are together fewer than the counter's values.
- `ConsoleAssumption`: at least one slot and one line (`MaxEntered`).
- `AtaAssumption`: heads and sectors of a track fit into their registers, a request
  counts sectors in one byte, and a drive is smaller than LBA28 reaches. A drive without
  LBA is in `Init` no larger than cylinders, heads and sectors can say; without that,
  `ReadDelivers` is false, as the first attempt at the proof showed.
- `ScreenAssumption`: no more rows than columns, and places that fit into the 16 bits of
  the cursor.
- `LineOnScreenAssumption`: a prompt of at least one character that leaves two columns
  of a row free (the code's has 7 characters on rows of 80); neither it nor what is
  typed contains the character 0 or an end of line. What is cleared for a line that
  begins on the screen ends before memory that is in use: `FreeCells`, 671744 less the
  depth of the stack, is more than (2000 + 255 + 1) * 80.
- `ClockAssumption`: the clock is found at a date of the calendar, and less than a
  minute passes while six registers are read: the seconds tell two moments apart only
  within a minute.
- `NumbersAssumption`, `CommandsAssumption`: a byte is no wider than an int and an int
  no wider than 64 bits; addresses are not 0 and fit into an int (`%x` prints no more);
  numbers that are typed have no sign; an answer of six numbers is shorter than a row
  (65 characters of 80).
- `KeyboardAssumption`: scan codes below 89, the length of the table; what lies behind
  the table is up to the linker.

*PageScan.* `NothingSkipped` alone is not inductive: that the search may jump over a run
it gave up needs to know that every page before the place it stopped at was free and
that this page is taken or that the run is behind the end, which is `CountIsRunLength`;
that marking takes only free pages needs both, and all need types and the bound on the
counter. The multiplication in `Bit(i, j)` is confined to three lemmas on arithmetic
(`BitArithmetic`, `BitOrder`, `PagesBounds`). `IndicesAgree` says of the byte, the bit
and the entry that are marked next that they belong to the same page; from it, and from
masks of two forms meaning the same bit, `TablesAgree` follows. For the refinement,
`SearchKnows` adds what the search knows about the run it has found or given up, and
`MarkedSoFar` which pages of a found run have been marked: the mapping shows all of them
as taken, so the step that finds the run is the step of `PageFrames`, and each
`MarkPage` a stutter.

*BlockHeap.* `BlockHeapStructure` restates each action with the elements it picks as
parameters and shows that elements, flags and lists agree whatever happens. `Promises`
is what an intact heap keeps: blocks are apart as intervals (`AllApart`); a byte is in
some block exactly if its page is one of the heap (`HeldAreHeapPages`, which is
`BlocksOnHeapPages` and `NoByteLost` in one, and from which it follows that a page
`PageAlloc` answers is under no block); both lists are ordered among blocks of more than
no bytes (`BothOrdered`); the console's pages are taken. `BlocksDisjoint` is not
inductive without `HeldAreHeapPages`: a new block would not be known to be on pages of
its own. For `AbstractHeap` one more fact is needed, `ScannedAreKept`: what the scan of
`MemBlockFree` has passed is no longer inside a block it must free. TLC checked
`HeapInvariant` on 3 pages with 5 elements (4.6 million states) before it was proved.
For `NoIdlePage` the invariant says what the two loops of `CompactFreeBlocks` leave
behind (`Compacted`): a block that begins inside a page ends in it (`InsideOnePage`),
empty blocks inside a page are in order too (`EmptyInPlace`), neighbours that touch are
merged as far as the first loop has come (`Merged`), and as far as the second has come
no free block covers a whole page (`Released`). A page without an occupied byte is then
covered by free blocks that touch; either they are one, which would have been released,
or something stands between them in the list, and that is an empty block (`KeptApart`).

*Console.* `Control` is the heart: for each place of the thread it says which states the
state machine may be in. Nothing in the code says so; it follows from the few
transitions that `function` makes. Then a key can reach only a line that is waited for.
`RoomForCommand` bounds the history, `ShownIsCurrent` ties the screen to the slot.

*Interrupts.* `Ready` says of each state of the start what is already there and that
interrupts are off; `Serviced` ties `inService` to the handler that runs and the step it
is at; `CascadeMasked` says that line 2 is masked once `PIC_remap` has run, so that line
8 is never passed on. `ReadsSelectedRegister` then follows, because no handler writes
`index`. `SleepCounted` says that the first value of the counter, what `Sleep` has
counted and the ticks it has not yet seen give the counter, with at most one wrap, and
that no more have been counted than have passed.

*Ata.* `Working` says that only the drive of the request (or the one that is being
identified) can be busy, that it is the selected one, and that it is quiet at the three
places that come behind a poll; that is why `NoTransferWhileBusy` holds although
`PoollingUntilReady` may answer anything. `Transfers` is what a drive in the middle of a
transfer is doing, an abandoned one included; `Place` says how far the call is;
`Reading` and `Writing` say which sector the drive goes on with, how many it still
expects and which have arrived. That the sectors are the ones asked for is
`PositionIsKept`: `Decoded` is the inverse of `lba_io` for LBA48 and LBA28
(`BytesOfPosition`) and CHS (`CHSIsPosition`).

*BootLoader, Paging, Traps.* One specification, three invariants that do not disturb one
another. `LoaderInv` has the number k of batches that are read or copied: count,
position, segment and offset are each a linear function of k, and the first 70k sectors
are in their windows, or in their places. The lemma `SizeArrives` shows that the
exchanged bytes of the size are put together again, `SectorIsFound` that `LBA2CHS` loses
nothing. `Filled` knows the entries written so far and, in `eax`, the flags of the entry
before; `Halves` why the upper halves are 0. `StubInv` has the whole stack of each step;
`FrameIsFound` that the sum of `__trap_esp` points at the frame with and without an
error code.

*Screen.* `PutString` is a recursive function; its steps exist and agree by the least
number at which they would not (`StringIsPut`), and `StringIsWritten` turns them into
"these cells hold the string". `LineStands` says that the line of the slot stands behind
the prompt where `CommandToScreen` drew it, up to the first cell that is empty, and that
the cursor is in it, unless it went over the end of the screen. Each key is shown to
lead from there to there: the place of the prompt is computed back from the cursor,
which finds the same row because the prompt is shorter than a row. For the same reason
that place is not before the screen, and what is cleared from it ends in time
(`ClearingEndsInTime`). All of this rests on `CInv`: that the slot drawn is the one the
thread waits for is `Control`.

*Clock.* `Completed(n, d, b)` is a reading in which the registers not read yet are those
of the clock. Read without a carry it is the date of one moment; `SecondsTell` says how
many seconds ago that was, as long as nothing was read while the clock changed, and
since fewer than 60 pass, equal seconds at the end mean that none did. `ReadsForwards`
compares the same reading with the dates seen so far, in seconds since 2000: a carry
moves it ahead or leaves it at or after the new date (`SettlingDoesNotGoBack`). The sums
over months are recursive functions over a finite table, unfolded month by month
(`DaysToIsTable`, `DaysBeforeIsTable`); leap years are counted as a cardinality
(`LeapYearsCounted`).

*Keyboard.* `Leaves(w, s, f, i, v)`: when the bytes in front of the i-th on the wire
have been handled, starting from `s`, modifier `f` has the value `v`. `Follows` says
that at the wire's end this is the value of the keys held, unless a byte of theirs was
dropped; `ShiftFits` that a letter's Shift is right at the moment its byte is handled;
`Clean` that a prefix and the byte behind it stay together and whose prefix the handler
keeps. The tables are followed element by element only where a property depends on them
(letters and their capitals, the keys of modifiers).

*Numbers and commands.* `convert` is followed down the quotients by least
counterexample: its digits mean the number again (`ConvertedIsRead`). `NumberIsRest`
shows that reading in a type of any width is what the text means modulo that width,
because rests may be left out at any step (`RestOfSum`), and `ByteFits` that the test in
`convertToByte` comes before anything is lost. For `AnswersStand`, a format is printed
step by step (`FormatIsPrinted`): eleven of them for a date, each with the most it adds
(`Fits`). `RowIsWritten` says what such a text leaves on the screen from the start of a
row or from behind the last one (`StringIsWrittenFromTheTop`); that only cells which
answers reached differ from `found`, and that the cursor is at `pos` whenever an answer
is awaited, is `AnswersAreShown`.

**Only model-checked**

- Liveness: `RequestReturns`, `FreeReturns`, `CtrlCEndsCommand`,
  `EnteredLineIsAnswered`, `SleepComesBack`, `CallsComeBack`. Fairness and ENABLED are
  out of the prover's reach.
- The three runs that are expected to find a violation: there is nothing to prove.
- `Ata`, `Interrupts` and `BlockHeap` are not composed with `Commands`: that the
  arguments which come through are the ones the drivers get is read off the code, not
  proved.

## 6. What is not modelled

- **The keys `Console` takes**: any key in any state; what scan codes they come from is
  in `Keyboard`, which is not composed with it (the product of both is too large for
  TLC, and `Console` allows more than `Keyboard` delivers). The fake shifts that a
  keyboard sends around some prefixed keys, and the commands nobody sends to it.
- **Colors, help texts, the wording of answers, `printBinary`.** What is written behind
  the screen is not kept: up to the stack nobody reads it, and what reaches further ends
  the behaviour.
- **Functions nobody calls**: `ClearLine`, `ScreenShiftLeft`, `CopyFromScreen`,
  `PutBuf`, `PutStringPreservePos`, `clearString`, `uSleep`, `detect_ata`.
- **The TLB**: a page's entry is what counts. The SSE bit, segments and the GDT.
- **Lines nobody unmasks** (2 to 7, 9 to 15) and their handlers.
- **Of the disks**: the printed summary, the identification data that is not read again,
  drives with the signature of SATA, the cache of a drive.
- **Negative sizes, pages of the heap given to `mem -free -p`**: the console's user can
  do that; the models let callers free any *address* but only pages they have.
- **Memory layout**: `ata_buffer` is half as long as what is stored into it, a line may
  be longer than its 255 characters. What is overwritten then is decided by linker and
  compiler. These are listed as hazards without a property.
- **Older copies** of the sources in the subdirectories of `kernel/`.

## 7. The plan

Done, in this order: `PageFrames`, `PageScan` and their proofs (the base of all memory);
`AbstractHeap` and `BlockHeap` (the largest algorithm); `Console` (the only interleaving
of thread and handler that changes data); `Interrupts` and its proofs; `AtaDrives` and
`Ata`; `BootLoader`, `Paging`, `Traps`; `Keyboard`; `Screen` and `LineOnScreen`;
`Clock`, `Numbers`, `Commands`; the proofs of `BlockHeap`, of both refinements, of
`Sleep`, `Console`, `Ata` and of `Traps` with what is under it; then those of
`NoIdlePage`, `LineOnScreen`, `Clock`, `Keyboard` and `Commands`. With them every safety
property of every run is a theorem.

What is left:

1. Five hazards have no property. Three are stores behind an array, which need the
   layout of memory that only the linker knows; one is a command to a drive that does
   not hear it, which needs a drive with a cache; one is the Ctrl-C that the code loses
   while it parses a line, which no text of the repository excludes.
2. A composition of `Keyboard` and `Console`. `Console` takes any key in any state, so
   that nothing is missed; the product would only rule behaviours out.
3. Liveness by hand: the loops of `PageScan` and of `MemBlockFree` have variants (places
   that are left, bytes of free blocks), which could be stated as action properties.
