# A TLA+ model of experimental_kernel

The repository is a small 32-bit x86 kernel: it boots under GRUB, turns paging
on, runs a heap, forks processes that a timer interrupt switches between, and
lists an initial ramdisk. The modules here model the parts of it that carry its
own logic, check them with TLC and prove the invariants of each with TLAPS.

Paths are relative to the repository; `paging_management.cpp` and the like are
in `src/source`. Names of the source are kept, `Sheduler` included. The
definitions called *slips* in the modules are small mistakes of the kind the
properties are meant to catch. The model does not use them; PROJECT.json says
which property rejects which.

## 1. The system

### Components

| Component | State | Operations | What makes it correct |
|---|---|---|---|
| Paging (`paging_management.cpp`, `page.h`) | frame bitmap, page tables, page directories, `currentPageDirectory_`, cr3 | `initialisePaging`, `getPage`, `allocFrame`, `freeFrame`, `clonePageDirectory`, `switchPaging`, the page fault handler | no frame behind two pages; the processor's walk and the kernel's pointers lead to the same pages; kernel tables are shared by all processes and all others by none |
| kmalloc (`memory_management.cpp`) | `placement_address` until the heap is enabled | `kmalloc`, `memset`, `memcpy`, `copy_page_physical` | the physical address it reports is the one the processor needs |
| Kernel heap (`kernel_heap.cpp`) | headers and footers in the heap's memory, an index of holes | `init`, `allocate`, `free`, `findSmallestHole` | blocks are disjoint and keep their data; holes and blocks tile the heap; neighbouring holes are merged |
| Array, OrderedArray (`utils/array.cpp`) | elements, size | `add`, `erase`, `place` | order and size kept |
| Scheduler (`process.cpp`, `process.S`) | list of PCBs, `currentProcess_`, `pidCounter_` | `init`, `changeStack`, `fork`, `switchTask` | a process that gets the processor back finds itself as it was; fork returns in two processes; everyone gets a turn |
| Timer and interrupt dispatch (`pic_timer.cpp`, `isr.cpp`, `interrupt.S`) | the PIC's and the timer's registers, handler tables | `irq_handler`, `fault_handler`, the stubs | interrupts return to what they interrupted |
| IDT, GDT, TSS | descriptor tables | set-up | encodings |
| System calls, user mode (`system_calls.cpp`) | handler table, the TSS's `esp0` | `init`, `switchToUserMode`, the handler | kernel stacks of processes in user mode do not collide |
| VFS and initial ramdisk (`vfs/`, `src/mk_initrd_img`) | the image, `fileHeaders_`, `root_`, `dev_`, the one `currDirent` | the packing tool; `init`, `readdir`, `finddir`, `read` | what was packed is what is listed and read |
| Screen (`screen.cpp`) | video memory, cursor, attribute | `printChar`, `printInt`, `clean`, ... | the cursor stays on the screen |
| Strings (`utils/common.cpp`) | none | `strlen`, `strncmp`, `strncpy`, `strcat` | |
| Boot (`loader.S`, `kernel_main.cpp`) | none | the order of initialisation, the main program | |
| C++ runtime (`icxxabi.cpp`) | table of destructors | `__cxa_atexit`, `__cxa_finalize` | |

Files that no rule of the makefile builds (`vector_.cpp`, `task.cpp`,
`_system_calls.cpp`, ...) are not part of the kernel.

### How they interact

* `kernel_main` calls, in this order: the timer's and the descriptor tables'
  set-up, `initialisePaging`, `Sheduler::init`, `InitrdFs::init`, `fork`. From
  the `sti` behind the fork on, parent and child are switched by the timer, and
  both also call `switchTask` themselves, once.
* Paging takes its directories and tables from `kmalloc`, which takes them from
  the placement pointer at first and from the heap later; the heap lies in
  pages that paging mapped; and `kmalloc` asks paging for the physical address
  of what the heap returned. Before paging is on, the loop that maps memory
  moves its own limit.
* `fork` clones the current directory while it runs on the stack it is copying.
  The child starts in the middle of that copy.
* The timer's interrupt calls `switchTask` in whatever process runs; it returns
  in another one.
* The kernel's heap, screen, file system and process list lie in kernel tables
  and are one for all processes. Nothing is locked.
* `Sheduler::init` moves the stack it runs on: the loop that maps the new pages
  is paging's work, the copy and the shift of the addresses in it are its own.
* `switchToUserMode` changes the one TSS, which all processes' interrupts use.
* `fault_handler` prints on the screen whose cursor the interrupted programs
  were moving.

### What is hard about it

Two ways into `switchTask`, one with interrupts enabled; interrupts that nest
because the PIC is acknowledged before the handler has returned; `fork`
returning twice; the order of the boot loops; frame exhaustion that nobody looks
at; merges of holes whose footers are not updated; unsigned arithmetic; strings
without terminators. There is one processor, nothing is persisted and there is
no network: crashes with recovery and lost messages do not occur. The list in
PROJECT.json, `hazards`, names each of these at its line.

## 2. The modules

| Module | What it is |
|---|---|
| `AddressSpaces` | abstract: what paging promises to processes |
| `Paging` | paging with its use of `kmalloc`, from boot to forks |
| `PagingProperties` | its properties; the refinement of `AddressSpaces` |
| `MCPaging` | instances for TLC |
| `PagingProofs` | its theorems: frames, page tables, and where pages are mapped |
| `IsolationProofs` | that frames suffice, and that it implements `AddressSpaces` |
| `StackMove` | `changeStack`'s copy of the stack and shift of its addresses |
| `KernelBoot`, `MCKernelBoot` | composes `Paging` with `StackMove`; its instance |
| `KernelBootProofs` | the theorems of `StackMove` and of `KernelBoot` |
| `KernelHeap` | the heap, word by word, with its index |
| `KernelHeapProperties`, `MCKernelHeap` | its properties and instances |
| `KernelHeapProofs` | its theorems |
| `KernelClients`, `MCKernelClients` | composes the heap with the sequence of requests the kernel makes |
| `Processes` | abstract: what the scheduler promises to programs |
| `Sheduler` | `fork`, `switchTask`, the timer's interrupt, user mode |
| `ShedulerProperties` | its properties; the refinement of `Processes` |
| `ShedulerProofs` | its theorems, and that it implements `Processes` |
| `Interrupts` | from the device to the handler and back: controllers, gates, stubs, `irq_handler` |
| `InterruptsProperties`, `MCInterrupts` | its properties and its instance |
| `InterruptsProofs` | its theorems |
| `Terminal` | abstract: what the screen promises to who prints |
| `Screen` | `printChar`, access by access, for processes that are switched between |
| `ScreenProperties`, `MCScreen` | its properties, the refinement of `Terminal`; its instance |
| `ScreenProofs` | its theorems |
| `Initrd` | the packing tool, the ramdisk's file system and its readers |
| `InitrdProperties`, `MCInitrd` | its properties and instances |
| `InitrdProofs` | its theorems |

### Paging

Memory is counted in pages. A table or directory is named by the page it starts
at; page 0 is the null pointer. `tables`, `dirs` and `physicalAddress` are the
contents of all page tables, directories and their `physicalAddress` fields;
`frames` is the bitmap as the set of bits that are set; `placement` is
`placement_address` and `heapNext` the next heap page (the heap's own behaviour
is KernelHeap's). `clone` holds the locals of `clonePageDirectory` and
`clonePageTable`; `ram` is what frames contain.

Each iteration of a loop of the source is an action, and `pc` names the loop:

| `pc` | Source | Actions |
|---|---|---|
| start | bitmap and directory | AllocateBitmap |
| tables | heap's page tables made | MakeHeapTables, HeapTablesMade |
| low | pages below `placement_address` mapped | MakeLowTable, MapLowPage, LowPagesMapped |
| heap | heap's pages mapped | MapHeapPage, HeapPagesMapped |
| enable, heapInit | `switchPaging`, `kernelHeap.init` | EnablePaging, CloneFirstDirectory |
| clone | `clonePageDirectory`, `clonePageTable` | SkipSlot, LinkTable, CloneTable, SkipPage, ClonePage, ClonePageWithoutFrame, LinkClone, FirstDirectoryCloned, Forked |
| stack | loop of `changeStack` | MakeStackTable, MapStackPage, StackMapped |
| run | processes | Fork, Switch, Store, PageFault, FreeFrame |

`getPage` with `makePageTable` in the loop "low" is two actions because it moves
the limit that loop tests. All of this runs with interrupts disabled, except
what processes do in "run"; the steps need not be smaller.

`AddressSpaces` knows only shared pages, private pages and the current space.
The mapping reads `ram` through the page tables, so it holds only if fork
copied exactly the private pages and nobody else's entries changed.

### The move of the stack

`memory` holds the words of the loader's stack and of the new one, `esp` and
`ebp` the two registers, `start` the stack as `changeStack` found it (history,
for the property). `IsStart` says what a stack is when `changeStack` is entered:
the frames of `changeStack`, `Sheduler::init` and `kernel_main`, linked by their
saved ebp, return addresses that lie outside of the stack, and fewer words than
the new stack has. `ChangeStack` is the copy, the loop that shifts and the load
of esp and ebp: interrupts are disabled, nothing can be seen in between. Every
word of the new stack that lies in the old one's range is shifted, whatever it
is; so are words the copy did not write. What is left out: `changeStack`'s own
locals, which live on the stack it copies, do not change during the copy in the
model.

`KernelBoot` lets `Paging` and `StackMove` run together. It adds one ordering:
the move comes behind the loop that maps (`StackLoopLeft`) and before the rest of
boot (`Behind`). Pages and words are linked by `PageWords`.

### The kernel heap

`mem` holds headers (magic, hole flag, size), footers (magic, header) and the
clients' data in one memory, so that a wrong size shows as overwritten data.
`findSmallestHole`, `allocate` and `free` are followed write by write in their
order, with sizes modulo 2^30 words as the code's are modulo 2^32 bytes. `free` that does not find
what it looks for ends in status "spinning", and a write outside of the heap in
"wild". `live` is what the clients hold: it is not the code's, and knows only
what was asked and where the pointer is.

`Discipline` says which blocks clients free: any, those whose right neighbour is
in use or is the last hole ("guarded"), or none. The heap is correct for the
second and for the third, which is the kernel's own; with the first it is not
(section 5).

### The scheduler

`stacks[d]` is the stack of address space d, as frames from `main` up.
`processList[i].context` is what the PCB keeps: `esp` is a depth of the stack
and `eip` a point in a function. Resuming is a jump to a context, whatever is
there: if the frame found is not of the function that the point belongs to, the
status is "lost". `history` in `main`'s frame keeps what fork has returned, which
`Processes` compares.

Code between `cli` and `sti` is one action: an interrupt's switch (`Timer`) and
`Fork` in the parent. A `switchTask` that a program calls is five (`CallSwitch`,
`Save`, `Advance`, `Wrap`, `Load`) up to its `cli`, and `Jump`. Returning from a
switch is one `Return` per function, so an interrupt may come in between and
nest. The three stores of `Save` and the loads of `Load` are one step each:
while a process runs nobody else reads or writes its PCB, except a switch by an
interrupt in between; that one saves the same `eip`, and the stores still to do
are done after it has returned.

A process in `users` has called `switchToUserMode`. `esp0` is the TSS's field in
units of 2048 bytes; `stacks[-k]` is the stack that ends at 2048 * k, in page 0,
which all address spaces share. An interrupt in user mode starts at `esp0`
whatever is below it (`InterruptStack`, `Timer`); one that comes while the
kernel runs pushes on the stack in use.

The model lets every process fork and call `switchTask` at any time, which is
more than `kernel_main` does (one fork), and any go to user mode, which there the
child does (kernel_main.cpp:141-143). `MaxUsers` is 1 in the runs, as in
`kernel_main`: with two, the second process's `switchToUserMode` moves the `esp0`
that both use (section 5).

### Interrupts

`pic` is the state of the two 8259s: raised lines, lines in service, masks,
priorities and the initialisation sequence. They are the processor's side, marked
external; `Written` is what they do with a byte on a port, and `IcwWrites` the
bytes that `idt_install` writes, one `Install` each. `Idt` packs a gate as
`setIdtDescriptor` does, `Offset` reads it as the processor does, and `Number` is
what the stub found there pushes. Boot starts with the controllers as the BIOS
may have left them (`LeftByBios`).

`frames[p]` are the interrupts on the stack of process p. `irq_handler` is one
action per effect: `AcknowledgeSlave`, `AcknowledgeMaster`, then `Callback` for
the timer or `NoCallback`, then `Leave`. `Callback` is `switchTask` seen from the
interrupts: it continues in the next process, with interrupts enabled, wherever
that one was left. Exceptions and system calls end in `for(;;)`.

### The screen

The kernel is compiled without optimisation, so `x++` is a load and a store, and
an interrupt may come between them. Each access to `x`, `y` and `attribute_` is
one action; `reg[p]` is the register between a load and its use. `todo[p]` are
the characters still to print: one for a program, which may print any at any
time (`printHex` and `printBinary` are sequences of these), the whole text for
`fault_handler`. Digits of `printInt` leave printChar's path behind the `x++`
(`StoreX`). `Switch` gives the processor to another process and sets the
attribute to white, as the tail of the timer's callback does. `races` counts the
switches within a character, `settled` is the screen when nobody was printing
last: both are history, for the properties.

### The initial ramdisk

`image` is what `mk_initrd_img` wrote: headers with their offsets as it summed
them up, and the bytes behind. `ByteAt` is the kernel's view of the same bytes at
addresses. Strings are sequences of characters without the terminator;
`Strncmp` and `Upto` say what the code's `strncmp` and `strlen`/`strncpy` do
with them. `reader` is the loop of `kernel_main`'s child, with its buffer and
what it has printed; `readdir` is two steps because `currDirent` is the
kernel's.

## 3. The runs

| Run | Question | States |
|---|---|---|
| `paging_boot` | Does boot end, with memory identity mapped, the processor and the kernel agreeing on every table, and the stack moved whole into its pages? Are three processes isolated? | 14 994 |
| `paging_limits` | What if frames run out during a fork, or `freeFrame` is called? Are pages put on frame 0 only then? | 13 622 |
| `paging_main_memory` | Are frames handed out within main memory? No | violation |
| `heap_blocks` | Is the heap sound under every guarded order of requests? | 10 503 |
| `heap_kernel` | Are the kernel's own requests all served, at their real sizes? | 248 |
| `heap_right_merge` | Does `free` always find the hole it merges? No | violation |
| `sheduler_timer` | Are processes independent, switched by the timer and by themselves, one of them in user mode, and does everyone get a turn? | 32 344 |
| `sheduler_race` | And if the timer interrupts a process that is switching itself? No | violation |
| `interrupts` | Is every interrupt told to the handler as the one it is, and acknowledged at the master? Do ticks go on? | 291 675 |
| `screen_shared` | Does the cursor come back to the screen, and can a report be read, when processes print at the same time? | 3 946 452 |
| `initrd_listing` | Is what is printed what was packed? | 1 679 |
| `initrd_long_name` | Also for names of 64 characters? No | violation |

`CHECK_DEADLOCK FALSE` is in every configuration but `heap_kernel`'s: the kernel
halts on a page fault or another exception, clients of the heap may hold all
of it, the listing ends, and devices and races are used up. In `heap_kernel` a request that is not served would
be a deadlock, so that run also shows that all are.

### Bounds

* Paging: pages of 2 units, tables of 4 entries, directories of 10 slots. The
  proportions are the source's where the code depends on them: a directory takes two
  pages and a bit, the bitmap part of a page, the heap starts and ends on a table
  boundary, the stack spans two tables with its top in the second. In `paging_boot` the bitmap is
  4-bit words with one stray bit inside and one behind its end, and the frames
  suffice for three processes; in `paging_limits` they do not. Two values of a
  page are enough to tell a copy from an alias.
* Heap: in `heap_blocks` 28 words, blocks of 8 and 9 words and three at a time: enough
  for a free block on the left, in the middle and on the right, and for the last
  hole to be split in some orders and used whole in others. In `heap_kernel`
  everything has its real size, with 0, 1 and 27 to 32 files, around the number
  at which the files' nodes no longer fit in the hole in front of the first
  aligned block, and two forks, the second of which meets the holes of the
  first.
* The move: pages of 8 words, two of them for the stack. The three stacks found
  are one without locals, one with locals that are addresses, and one that fills
  the new stack but for a word; the stack's lowest word and its end occur among the
  addresses. Fresh pages hold 0 or a word in the old stack's range.
* Scheduler: three processes, so that the successor of a process is neither
  always itself nor always the predecessor; one interrupt above another, on
  whichever stack; one process in user mode. In `sheduler_race` two processes
  suffice.
* Interrupts: three processes; a device on the master (6), and two on the slave
  (8 and 14), so that lines of one controller and of both compete, each raised
  twice; exceptions 0 (no handler), 14 (a handler), 31 (the last) and the system call 128;
  two ticks that come while a handler runs. The stubs' addresses differ in all
  bytes a gate splits them into.
* Screen: two processes, three columns and two lines, which is the smallest
  screen on which a report fits and fills it, and two switches within a
  character: one to leave a process in it, one to come back too early.
* Ramdisk: up to three files of four names, all orders and repetitions. Names
  begin one another, one is the directory's, and files are empty, shorter than,
  as long as and longer than the buffer of 2.

### Fairness

* `Paging` and `KernelBoot`: weak fairness of the kernel thread's own loops and of
  the move. It runs alone with interrupts disabled. Nothing is assumed of
  processes.
* `Sheduler`: the timer goes on ticking (weak fairness of `Timer`; the PIT is in
  mode 3 with divisor 0x5D25, a tick every 20 ms), the processor goes on
  executing what was called (weak fairness of `Proceed`), and the timer does not
  hit the same few instructions of the same process for ever (strong fairness
  of `Unwind`, per process and depth of interrupts): a return takes
  microseconds. Nothing is assumed of `Fork`, `CallSwitch` or of programs.
* `Interrupts`: boot goes on, the timer ticks (`Raise(0)`), and the processor takes
  what is asked for and goes on in its handlers (`Accept`, `Handle`). Nothing is
  assumed of other devices.
* `Screen`: none; its properties are of safety.
* `Initrd`: the reader goes on, which is the scheduler's `TurnsTaken`.

## 4. What is proved

`PagingProofs` proves for every geometry that satisfies `PagingAssumption`, any
number of processes and any contents of the bitmap at power on:

* `TypeCorrect`: `Spec => []TypeOK`.
* `BitmapCorrect`: `Spec => []MappedFramesBusy`, every frame in a page table is
  marked in the bitmap.
* `FramesIsolated`: `Spec => []FrameIsolation`, no frame but frame 0 is behind
  two pages.

`FrameIsolation` is not inductive: `allocFrame` would break it in a state where a
frame is mapped but not marked. `MappedFramesBusy` excludes these; it in turn
needs that nothing is mapped when `initialisePaging` clears the bitmap
(`NothingMappedAtStart`), and that `clonePageTable` runs only for a slot of the
directory (`CloneInDirectory`), so that the entry it writes is one of a table.
`IInv` is the conjunction; lemma by lemma, one action after the other
preserves it, and `Invariance` puts them together. The lemmas below are about the operators:
the slot and the entry of a page exist, `AlignUp` of a positive size is
positive, the block `kmalloc` returns is a page below the stack, and entering a
free frame in an empty entry keeps frames isolated.

The assumptions are the ranges of the constants and that the heap ends below the
stack. Frame 0 is the code's "no frame".

It also proves, from the same assumptions, `TablesStayShared`,
`Spec => []TablesShared`: a process has the kernel's page tables themselves and no
other table in common with another process. The comparison that decides it in
`clonePageDirectory` looks at the table only, not at whose directory is cloned;
it is right because of the order of things, which the invariant `SInv` states:
`kmalloc` never returns a block twice, before or after the heap is enabled
(`Allocated`, with `AlignUpShift` and `BlockNew`); the kernel's directory gets no
table any more once the first clone has started (`Phases`); the first stack's
tables are made only in slots the kernel has none in (`FirstApart`); and the clone is
right as far as it has got (`CloneApart`), while the table it fills is in no
directory yet (`Unlinked`).

The other theorems about paging, the last two of them in `IsolationProofs`, have
hypotheses on the constants; a theorem names those it needs, and `MCBootFits` lets TLC evaluate them for the geometry of
`paging_boot`:

| Hypothesis | What it says | Why the code justifies it |
|---|---|---|
| `Freeable = {}` | nobody calls `freeFrame` | nobody does; it clears `frame_` and keeps the bit and the present flag (paging_management.cpp:228-234), so that the frame is lost and the page shows frame 0 |
| `MainMemoryHolds` | the image, the bitmap, the directory and a table per slot end below the last frame | about 5 MB of 16 |
| `BootHasFrames` | the bits the scan goes over suffice for that and for the heap | the heap takes 8192 frames, twice what main memory has; 131072 bits are scanned (section 5), less those that what lies behind the bitmap has set |
| `ProcessesHaveFrames` | and for the stacks of `MaxSpaces` processes | a process takes two frames for its stack; without one, its page is mapped to frame 0 |
| `StackApart` | the stack is in slots the kernel's pages do not reach | the stack ends at 0xE0000000, the heap at 0xC2000000 |

* `FramesStayHeld`: `Spec => []NoFrameLost`, and `MappingsStay`:
  `Spec => MappingsStable`, need the first hypothesis only. Both rest on entries
  being written once: a block `kmalloc` gives away for a table holds an empty one
  already (`Fresh`), an entry that gets a frame had none, and the one page
  mapped to frame 0, whose entry `allocFrame` would take for free, is page 0,
  which no loop comes to again (`TInv`).
* `FrameZeroComesLast`: `Spec => []FrameZeroLast`, needs the first only. Before
  processes fork, page 0 alone is on frame 0 (`Frameless`). Afterwards only a clone
  may enter it, when the scan finds no clear bit, and bits are not cleared any more.
* `LowMemoryMapped`: `Spec => []IdentityMapped`, and `WalksAgree`:
  `Spec => []WalkAgrees`, need the first three. The loop that maps low memory
  asks for the lowest free frame, which is the page's own number as long as
  what is mapped is an initial segment (`BootInv`); a table made on the way moves
  the limit, not the segment. From then on every table and directory is at a
  page that is mapped where it lies, or in the heap at the frame that
  `kmalloc` looked up, so physical addresses and pointers agree (`WalkInv`).
* `FramesSuffice`: `Spec => []FramesLeft`, needs all five. It is a count: bits set
  are at most what boot placed, the heap's pages, strays, and for each process the
  pages of its stack, page by page while a stack is mapped or cloned (`Counted`).
* `ImplementsSpaces`: `Spec => ProcessesIsolated`, the refinement of
  `AddressSpaces`. All pages of a process that are not the kernel's are its
  stack's and each has a frame (`IsoInv`); the clone has, page by page, what its
  source has, in frames that were free. So a step of `Fork`, of `Store` or of
  `Switch` is the abstract one, and every other step leaves what each
  process sees as it was.

`KernelBootProofs` proves `FramesMoved`, `StackSpec => []FramesFollow`, for stacks at
any place, of any size and contents that satisfy `IsStart`: the assumption
`StackMoveAssumption` names. That frames are linked by words strictly above esp
and below the stack's end is what makes the code's test (`PointsIntoStack`)
find all of them. `StackHasPages`, `BootSpec => []StackInPages`, takes it to the
composition, under all five hypotheses: the loop that maps has mapped all of the stack when the
move begins, esp and ebp stay in it, and forks copy those pages.

`KernelHeapProofs` proves for heaps, pages, words and requests of every size
that satisfy `HeapAssumption` (sizes do not wrap around; the heap has room for a
hole of its own), and for clients that are plain (`PlainClients`):

* `HeapTypes`, `HeapTiled`, `HeapCoalesced`, `HeapNeverStops`, `HeapDataPreserved`,
  `HeapIndexOrdered`: each invariant of `heap_blocks`; and `HeapBlocksSound`, for
  the invariant `heap_kernel` checks, which here follows from the tiling.

Plain clients ask for no page alignment, free no block in front of a hole that
another block follows, and hold fewer blocks than the index has entries. The
first two are where the code breaks: `heap_right_merge` shows the second, and
section 5 names what an aligned request does. The kernel does ask for aligned
blocks, and frees none: its own sequence is checked by `heap_kernel`, and not
covered by the theorems beyond that. `GuardedIsPlain`
lets TLC confirm that the clients of `heap_blocks` are plain.

The invariant (`HInv`) reads the heap as tiles that lie side by side, holes and
blocks, each marked by the words the code goes by: magic, `isHole_` and `size_` in
front, and, unless it is a hole that ends the heap, a footer that names the
header. So the word in front of a block tells `free` whether a hole ends there,
and the one behind it whether a hole begins. Words left over from old headers lie
inside of tiles and are never looked at. Two facts that the marks do not give are
carried along: no two holes are neighbours (`Apart`), so that one merge on each side is
enough; and with it holes number at most blocks and one, so `MaxLive < IndexSize`
bounds the index, and `add` is never called on a full one. A guarded `free`
merges on the right only with the hole that ends the heap, which has no footer to
be updated; that is the whole difference to `heap_right_merge`. Each of
`allocate` and `free` is shown to take tiles to tiles: split a hole, use it
whole, turn a block into a hole, merge left, merge right; and each is shown to
write in the tiles it changes only (`Within`), so others' data stay.

`ShedulerProofs` proves for any number of processes, of interrupts on stacks and
of processes in user mode, under `Racing = FALSE` (no interrupt comes between the
save and the `cli` of a `switchTask` that a program called; `sheduler_race` shows
what happens otherwise):

* `TypeCorrect`: `Spec => []TypeOK`, with it that pids and directories are never
  given twice.
* `RunsCurrent`: `Spec => []RunningIsCurrent`.

Both need that a jump to a saved context and a return arrive in a frame of the
function that runs on. `Shape` therefore says of every stack, from the bottom, on
which frame each may lie and what it returns to; `Sound` adds that `main` lies at
the bottom of a process's own stack and nowhere else, and that a process in user
mode has nothing above it; `Running` ties the running function to the top frame
and, outside of the window in `switchTask`, `currentProcess_` to cr3. With two
processes in user mode frames are overwritten, but by others of the same shape:
`IInv` holds there too, and `StacksPrivate` does not.

With `MaxUsers <= 1` besides, it proves

* `AlwaysResumable`: `Spec => []Resumable`.
* `StacksStayPrivate`: `Spec => StacksPrivate`.

With one process in user mode every stack belongs to one process (`Apart`): its
own, and for the one in user mode those of the TSS. Who does not run has a
context that names the end of one of its stacks (`Waiting`), so a resumed process
finds that stack whole and the jump cuts nothing off; this is why a switch
changes no stack but the one it leaves. `Owned` says what frames hold: an
interrupt's, the registers of a process the stack is for, and fork's, the parent,
which is another process than the stack's. So a child never takes itself for the
parent, and the processor never ends up in what is not a function. Two facts
make the window of a program's `switchTask` harmless: the process that runs it
has saved a context which stays good until the jump, and what was loaded for the
jump is still what the PCB holds (`Loaded`).

It also proves `KeepsPromise`, `Spec => ImplementsProcesses`, under the
same assumptions. A process's history is read from the first frame of its stack
and from whether a frame of fork lies above it. `StacksStayPrivate` covers the
processes that do not run; for the one that does, each step but fork's is shown to
keep the first frame and to push, pop or replace frames that are not fork's
(`Onward`). So a step is a `Fork` of the abstract specification or a `Switch`
to the process in cr3, which may be the same; the child's return from fork moves
its 0 from the frame to the history it already stood for.

`InterruptsProofs` proves for any number of processes, any devices, stubs and
bounds:

* `TypeCorrect`: `Spec => []TypeOK`.
* `Dispatched`: `Spec => []NumberIsVector`.
* `NoLineLocked`: `Spec => []MasterAcknowledged`.
* `TicksNest`: `Spec => []OnlyTicksNest`.

An end of interrupt names no line: it ends the one of highest priority in
service. That it is the handler's own follows from there being one only, and
this from interrupts being disabled until it is ended; the byte written for the
slave changes the priorities before, but ends nothing while nothing else is in
service. So the invariant follows the handler: where it is, what the master has
in service, and what `idt_install` has programmed so far.

`OnlyTicksNest` needs to know of every stack, not only of the one in use, that what
lies below its top is ticks on their way out, and that no stack is higher than
the ticks that came early and one, less the one still asked for (`NestInv`): a
tick that arrives while a handler runs has been counted before it can nest.

`ScreenProofs` proves for any number of processes, any screen and any number of
races:

* `CursorAtRest`: `Spec => []AtRest`.
* `ScreenTypes`: `Spec => []TypeOK`, and `WritesStayNear`: `Spec => []WritesNearScreen`.
* `TerminalKept`: `Spec => KeepsTerminal`, the refinement of `Terminal`.
* `ReportsReadable`: `Spec => []ReportReadable`.

`ScreenAssumption` gives the ranges; `ReportAssumption` says that the screen has two lines
and that a report fits: "EXCEPTION  " and two digits on one line, each of
`exception_messages` on another (isr.cpp:5-40; they have 13 and at most 38
characters, the screen 80 columns and 24 lines).

`AtRest`: if the cursor stands behind an end of a line
or of the screen, some process is between the store that moved it there and the
test that brings it back. Who has loaded an old value may move it there again, and
then tests it itself.

`WritesNearScreen`: a process that is about to increment has still to look, so that
x passes the end of the line by at most one for each interrupt in a character
and one for the process that is about to look, and y the end of the screen
likewise (`ColumnsBounded`, `LinesBounded`). Each interrupt leaves at most
one process on its way.

`KeepsTerminal`: the abstract terminal prints a character in one step; here it takes up
to fifteen. As long as nobody has been interrupted in a character, at most one process
is in one, and `GlyphAt` and `BreakAt` say, access by access, what the video memory and the
cursor are then, compared with the screen as it was when nobody was printing
last. So all accesses but the last are stutters, and the last is the
terminal's step.

`ReportReadable`: a report starts with a line break, wherever the cursor was left, and
nobody interrupts it. So the position k in the text determines column, line and register
(`ReportAt`), and the k characters before it are on the screen, each in a cell of
its own (`PlacesApart`), in black on light red (`Shown`). Video memory may hold
anything else.

`InitrdProofs` proves for any files, any names, any sizes of name, buffer and image that
satisfy `InitrdAssumption` (names fit the header's field, as the tool checks;
files are text):

* `InitrdTypes`: `Spec => []TypeOK`, for any number of readers.
* `AllListed`: `Spec => []Listed`, under `NamesTerminated` and `OneReader`.

The hypotheses are where the code breaks: `initrd_long_name` shows what a name
of 64 characters does, and a second reader would write `currDirent` between the
first one's `readdir` and its `finddir`. `kernel_main` makes one child that
lists. `ListingTerminated` lets TLC confirm that `initrd_listing` satisfies both.

That a file's bytes are where its header says is a statement about
`FlattenSeq`, for any number of parts: each part lies behind the parts
before it (`FlattenPart`). `FlattenSeq` is a recursive function, and induction by
the library's theorems is out of reach; instead `NoLeast` takes the least number
of parts for which the statement would fail, and shows that it fails for one
fewer. `StrncmpWhole` is about names: asked for the length of its first string,
the kernel's `strncmp` still compares the next character, and so
finds the file of that very name and none whose name only begins with it. With
these, `ListInv` follows the reader: its index, and where it is in the loop,
determine what it has printed, the name in `currDirent`, and the file it
has opened.

Only model-checked: the heap beyond plain clients, which includes the requests for
aligned blocks that the kernel makes while it boots (`heap_kernel`), and liveness
(`BootCompletes`, `TurnsTaken`, `TicksReachAll`, `ListingEnds`): TLAPS does
not reason about ENABLED here.

## 5. What the checks found

Four runs show the code doing something else than it says of itself.

* `paging_main_memory`: `getFreeFrame` (paging_management.cpp:182) counts words
  up to the number of frames, 32 times too far. When the frames are used up, memory behind the
  bitmap is taken for more of it, and frames beyond the 16 MB are mapped.
* `heap_right_merge`: a merge on the right does not update the footer at the
  merged hole's end (kernel_heap.cpp:190 assigns to a local pointer). A later merge on the left
  follows the old footer into the middle of a hole, and `free` ends in its
  `for(;;)`, with a heap that is used as it should be.
* `sheduler_race`: `switchTask` called by a program moves `currentProcess_` with
  interrupts enabled. A timer tick before the jump saves the caller's context in
  the PCB of the next process. `kernel_main` makes such calls, right after the
  `sti`.
* `initrd_long_name`: a name of exactly 64 characters has no terminator in the
  header; `mk_initrd_img` then opens another name and packs what was in the new
  buffer.

Seen on the way, without a run of their own:

* A fork without enough frames maps frame 0 in the child, because
  `clonePageTable` does not look at what `allocFrame` returns (`ClonePageWithoutFrame`).
  All such pages, and page 0, are then the same memory. `FrameZeroLast` shows that it
  takes a full bitmap to get there.
* `allocate`'s check for a front hole that falls into another block has an empty
  body (kernel_heap.cpp:91); if a hole begins right before a page's end, the
  front hole's footer goes over the block before. None of the kernel's requests
  gets there (`heap_kernel`).
* For an aligned request `findSmallestHole` compares a negative difference as
  unsigned (kernel_heap.cpp:239) and takes a hole that ends before the block
  begins. It takes a small hole at a page's end; the slip `FitsAnyHole` shows what follows.
* What `irq_handler` calls the reset of the slave (isr.cpp:88-91, "Send reset
  signal to slave.") is written to the master's port. The slave is never acknowledged, and
  each of its lines serves one interrupt, then locks out itself and those below; the master
  rotates its priorities. Neither stops the timer (`TicksReachAll`).
* A page fault reports the error code 0, whatever the processor pushed: isr14 and
  the other stubs with a code push a 0 above it.
* Two processes in user mode share `esp0`: `StacksPrivate` is violated with
  `MaxUsers = 2`. In `kernel_main` one process goes to user mode, the child; two
  never do.
* If ticks come faster than a resumed process unwinds, each turn leaves one more
  frame on its stack. `OnlyTicksNest` counts them.
* `printInt` writes on behind the end of the line (screen.cpp:90-93); in a report it starts at
  one.
* `changeStack` shifts every word in the old stack's range, also one that is a
  number and no address.
* `GdtDescriptor::setTss` takes base plus size for the limit (gdt_entry.cpp:29):
  larger than the TSS, which nothing here depends on.
* Freeing the block that ends the heap reads a header at `endAddress_`, which is
  not mapped.
* `readdir` of `dev` lists the root's files, and `finddir` in it finds them.
* With two readers, `Listed` is violated: they share `currDirent`.
* `read` of 256 bytes into a buffer of 256 writes byte 256.
* `finddir` finds exact names although it asks `strncmp` for the length of the
  shorter one: this `strncmp` compares one character more. With the C library's
  it would return the first file whose name begins with the one asked for; the
  slip `StrncmpPrefix` shows it.

## 6. What is not modelled, and why

* What happens after `allocate` has returned 0: no caller looks, and all write to
  page 0 on. `heap_kernel` shows that it does not happen within its requests.
* Bits behind the bitmap that belong to the page directory: setting one would
  change a mapping. The model keeps them apart; `paging_main_memory` shows that
  they are reached.
* ebx, esi and edi across a `switchTask` that a program called, which depends on
  the compiler; the size of stacks in bytes; `changeStack`'s own locals
  during its copy.
* `copy_page_physical`'s turning paging off: it uses no memory but the pages it copies meanwhile.
* The packing of GDT and TSS descriptors, multiboot, linking, and the PIT's
  registers: set-up code whose result the processor interprets once. (The
  gates of the IDT are modelled.)
* What a system call does: each of the three prints a text, and the processor
  stops behind it.
* `icxxabi.cpp`: the kernel is never left, so no destructor of a global runs.
* More than 32 arguments or names above 64 characters in `mk_initrd_img`, which
  leave or overrun arrays.
* What the texts on the screen say, apart from a report's layout; code that is not
  built, and functions that nothing calls.

## 7. Plan

Not done, in this order:

1. `Kernel`: `Sheduler` composed with `Paging`, so that a frame on a stack is
   memory of a frame of RAM, and the timer may interrupt a listing of the
   ramdisk.
2. `OrderedArray` as a module of its own against sorted sequences, with the
   unordered `Array` behind it.
3. `open`, `close` and `write` of `fs.cpp`, once a file system implements them.
4. Descriptors: the packing of base and limit, against unpacking.

Theorems: the heap for aligned requests that nobody frees, as the kernel's are.
