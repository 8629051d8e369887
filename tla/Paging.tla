------------------------------- MODULE Paging -------------------------------
(***************************************************************************)
(* Paging of the kernel: src/source/paging_management.cpp, the kmalloc of  *)
(* src/source/memory_management.cpp and the stack loop of                  *)
(* Sheduler::changeStack (src/source/process.cpp).                         *)
(*                                                                         *)
(* One kernel thread runs all of it with interrupts disabled: it builds    *)
(* the kernel's page directory, turns paging on, clones the directory for  *)
(* the first process, maps that process's stack and from then on clones    *)
(* the current directory on every fork.  A loop of the source is one       *)
(* action per iteration; pc says in which loop the thread is and cursor is *)
(* its variable.  Between forks a process stores to memory and the         *)
(* scheduler switches directories.                                         *)
(*                                                                         *)
(* Definitions marked as slips are small mistakes of the kind the          *)
(* properties are there to catch; the model does not use them.             *)
(*                                                                         *)
(* Memory is counted in pages.  A table or a directory is named by the     *)
(* virtual page it starts at, 0 being the null pointer; only placement,    *)
(* the boot allocator's pointer, is an address, in units of which a page   *)
(* has PageSize.                                                           *)
(***************************************************************************)
EXTENDS Integers, FiniteSets

CONSTANTS
    PageSize,       \* units of an address in a page (Page::SIZE)
    FrameNumber,    \* frames of the 16 MB of main memory (frameNumber_)
    WordBits,       \* bits of a word of the frame bitmap
    TableSize,      \* entries of a page table (PageTable::SIZE)
    SlotNumber,     \* entries of a page directory (PageDirectory::SIZE)
    InitrdEnd,      \* address at which the boot allocator starts
    BitmapSize,     \* size of the frame bitmap
    DirectorySize,  \* sizeof(PageDirectory): more than two pages
    HeapStart,      \* page of KernelHeap::START
    HeapPages,      \* pages of KernelHeap::INITIAL_SIZE
    HeapIndexPages, \* pages of the heap taken by its index
    StackTop,       \* page of the new stack's start address, 0xE0000000
    StackPages,     \* pages of the new stack's size, 0x2000
    Garbage,        \* bits that may be set in memory the bitmap is laid over
    DataPages,      \* pages the processes store to
    Freeable,       \* pages freeFrame may be called for; the kernel never
                    \* calls it
    Values, Blank,  \* what a page of memory can hold, and holds at power on
    MaxSpaces       \* bound: processes made before forking stops

\* The loop over the bitmap runs over FrameNumber words, not bits: these are
\* the frame numbers getFreeFrame can return.
Frames == 0 .. FrameNumber * WordBits - 1
PageNo == 0 .. SlotNumber * TableSize - 1
Slots  == 0 .. SlotNumber - 1
Index  == 0 .. TableSize - 1

ASSUME PagingAssumption ==
    /\ {PageSize, FrameNumber, WordBits, TableSize, SlotNumber,
        InitrdEnd, BitmapSize, DirectorySize} \subseteq Nat \ {0}
    /\ {HeapStart, HeapPages, HeapIndexPages, StackTop, StackPages,
        MaxSpaces} \subseteq Nat
    /\ HeapStart + HeapPages <= StackTop - StackPages
    /\ StackTop < SlotNumber * TableSize
    /\ Garbage \subseteq Frames
    /\ DataPages \subseteq PageNo
    /\ Freeable \subseteq PageNo
    /\ Blank \in Values

VARIABLES
    pc,                     \* the loop the kernel thread is in
    cursor,                 \* the page that loop is at
    placement,              \* placement_address
    heapNext,               \* first heap page not handed out yet
    frames,                 \* bits set in frames_
    tables,                 \* entries of the page table at a page
    dirs,                   \* slots of the page directory at a page
    physicalAddress,        \* physicalAddress of the directory at a page
    pageDirectory,          \* pageDirectory_
    currentPageDirectory,   \* currentPageDirectory_
    cr3,                    \* the frame the processor walks
    spaces,                 \* directories in the scheduler's process list
    clone,                  \* locals of clonePageDirectory, clonePageTable
    ram                     \* contents of the frames

boot == <<placement, heapNext>>
structure == <<frames, tables, dirs, physicalAddress>>
processor == <<pageDirectory, currentPageDirectory, cr3>>
vars == <<pc, cursor, boot, structure, processor, spaces, clone, ram>>

-----------------------------------------------------------------------------
(* Pages, tables, directories.                                             *)

NullPage == [frame |-> 0, present |-> FALSE]
NullLink == [table |-> 0, phys |-> 0]
ZeroTable == [i \in Index |-> NullPage]             \* after its memset
ZeroDirectory == [s \in Slots |-> NullLink]
NoClone == [dir |-> 0, slot |-> 0, table |-> 0, phys |-> 0, page |-> 0]

Slot(v)  == v \div TableSize
Entry(v) == v % TableSize

\* The table getPage finds for page v of directory d, 0 if there is none.
TableOf(d, v) == dirs[d][Slot(v)].table

\* getPage without makePageTable: the entry of page v in directory d.
PageOf(d, v) == tables[TableOf(d, v)][Entry(v)]

-----------------------------------------------------------------------------
(* kmalloc, for page-aligned requests.                                     *)

\* kernelHeap.isEnabled(): init ran, right after paging was turned on.
HeapEnabled == pc \notin {"start", "tables", "low", "heap", "enable"}

\* The first page that starts at address a or above; also, the pages that a
\* units occupy.
AlignUp(a) == (a + PageSize - 1) \div PageSize

\* The page of the block: from the placement pointer before the heap is
\* enabled, a fresh aligned page of the heap (module KernelHeap) after.
NewBlock == IF HeapEnabled THEN heapNext ELSE AlignUp(placement)

\* Slip: the heap's virtual address taken for the physical one.
PhysicalIsVirtual(p) == p

\* What kmalloc stores through phys: the page itself before paging, the
\* frame behind the heap's page after.
Physical(p) == IF HeapEnabled THEN PageOf(currentPageDirectory, p).frame
                              ELSE p

\* Bound: allocations end before the heap, and in the heap before its end.
Room(size) ==
    NewBlock + AlignUp(size) <=
        IF HeapEnabled THEN HeapStart + HeapPages ELSE HeapStart

Reserve(size) ==
    /\ Room(size)
    /\ IF HeapEnabled
       THEN heapNext' = heapNext + AlignUp(size) /\ UNCHANGED placement
       ELSE placement' = NewBlock * PageSize + size /\ UNCHANGED heapNext

-----------------------------------------------------------------------------
(* Frames.                                                                 *)

\* Slip: the scan ends one bit early.
FreeFramesButLast == {f \in Frames \ frames : f + 1 \in Frames}

FreeFrames == Frames \ frames

\* getFreeFrame: bits are tried in ascending order.
GetFreeFrame(f) == f \in FreeFrames /\ \A g \in FreeFrames : f <= g

\* Slips: the bit after the frame's; the index wrapped to the bitmap's size.
BusyNext(f) == frames \cup {f + 1}
BusyWrapped(f) == frames \cup {f % FrameNumber}

\* What the bitmap is after set().
Busy(f) == frames \cup {f}

\* The part of getPage that makes the missing table of page v of directory d.
MakeTable(d, v) ==
    /\ Reserve(PageSize)
    /\ dirs' = [dirs EXCEPT ![d][Slot(v)] =
                  [table |-> NewBlock, phys |-> Physical(NewBlock)]]
    /\ tables' = [tables EXCEPT ![NewBlock] = ZeroTable]
    /\ UNCHANGED <<frames, physicalAddress>>

\* allocFrame for page v of directory d.  Without a free frame it prints a
\* message and returns false, which no caller looks at.
AllocFrame(d, v) ==
    /\ IF PageOf(d, v).frame = 0 /\ FreeFrames # {}
       THEN \E f \in Frames :
               /\ GetFreeFrame(f)
               /\ frames' = Busy(f)
               /\ tables' = [tables EXCEPT ![TableOf(d, v)][Entry(v)] =
                               [frame |-> f, present |-> TRUE]]
       ELSE UNCHANGED <<frames, tables>>
    /\ UNCHANGED <<dirs, physicalAddress, boot>>

-----------------------------------------------------------------------------
(* initialisePaging.                                                       *)

Init ==
    /\ pc = "start"
    /\ cursor = 0
    /\ placement = InitrdEnd
    /\ heapNext = HeapStart + HeapIndexPages
    /\ frames \in SUBSET Garbage
    /\ tables = [p \in PageNo |-> ZeroTable]
    /\ dirs = [p \in PageNo |-> ZeroDirectory]
    /\ physicalAddress = [p \in PageNo |-> 0]
    /\ pageDirectory = 0
    /\ currentPageDirectory = 0
    /\ cr3 = 0
    /\ spaces = {}
    /\ clone = NoClone
    /\ ram = [f \in Frames |-> Blank]

\* The bitmap is allocated and its FrameNumber bits cleared, what follows it
\* in memory is not; then comes the kernel's directory.
AllocateBitmap ==
    /\ pc = "start"
    /\ LET dir == AlignUp(placement + BitmapSize)
       IN  /\ dir + AlignUp(DirectorySize) <= HeapStart
           /\ placement' = dir * PageSize + DirectorySize
           /\ pageDirectory' = dir
           /\ currentPageDirectory' = dir
           /\ physicalAddress' = [physicalAddress EXCEPT ![dir] = dir]
    /\ frames' = frames \ (0 .. FrameNumber - 1)
    /\ pc' = "tables"
    /\ cursor' = HeapStart
    /\ UNCHANGED <<heapNext, tables, dirs, cr3, spaces, clone, ram>>

\* First loop: the heap's page tables are made while kmalloc still places
\* them below placement_address, so that the second loop maps them.
MakeHeapTables ==
    /\ pc = "tables"
    /\ cursor < HeapStart + HeapPages
    /\ IF TableOf(pageDirectory, cursor) = 0
       THEN MakeTable(pageDirectory, cursor)
       ELSE UNCHANGED <<boot, structure>>
    /\ cursor' = cursor + 1
    /\ UNCHANGED <<pc, processor, spaces, clone, ram>>

HeapTablesMade ==
    /\ pc = "tables"
    /\ cursor = HeapStart + HeapPages
    /\ pc' = "low"
    /\ cursor' = 0
    /\ UNCHANGED <<boot, structure, processor, spaces, clone, ram>>

\* Slip: the last page below placement_address left out.
LowPagesShort == (cursor + 1) * PageSize < placement

\* Second loop's condition: one page more than placement_address, which the
\* loop itself moves by making the tables of the pages it maps.
LowPagesLeft == cursor * PageSize < placement + PageSize

\* getPage of the second loop makes a table ...
MakeLowTable ==
    /\ pc = "low"
    /\ LowPagesLeft
    /\ TableOf(pageDirectory, cursor) = 0
    /\ MakeTable(pageDirectory, cursor)
    /\ UNCHANGED <<pc, cursor, processor, spaces, clone, ram>>

\* ... or finds it; either way allocFrame then maps the page.
MapLowPage ==
    /\ pc = "low"
    /\ LowPagesLeft
    /\ TableOf(pageDirectory, cursor) # 0
    /\ AllocFrame(pageDirectory, cursor)
    /\ cursor' = cursor + 1
    /\ UNCHANGED <<pc, processor, spaces, clone, ram>>

LowPagesMapped ==
    /\ pc = "low"
    /\ ~LowPagesLeft
    /\ pc' = "heap"
    /\ cursor' = HeapStart
    /\ UNCHANGED <<boot, structure, processor, spaces, clone, ram>>

MapHeapPage ==
    /\ pc = "heap"
    /\ cursor < HeapStart + HeapPages
    /\ AllocFrame(pageDirectory, cursor)
    /\ cursor' = cursor + 1
    /\ UNCHANGED <<pc, processor, spaces, clone, ram>>

HeapPagesMapped ==
    /\ pc = "heap"
    /\ cursor = HeapStart + HeapPages
    /\ pc' = "enable"
    /\ cursor' = 0
    /\ UNCHANGED <<boot, structure, processor, spaces, clone, ram>>

\* switchPaging: the kernel's and the processor's notion of the current
\* directory move together.
SwitchPaging(d) ==
    /\ currentPageDirectory' = d
    /\ cr3' = physicalAddress[d]
    /\ UNCHANGED pageDirectory

-----------------------------------------------------------------------------
(* clonePageDirectory(currentPageDirectory_), which initialisePaging calls *)
(* once and fork for every process.  clone holds the locals: the new       *)
(* directory, the loop's slot, and while clonePageTable runs the new table *)
(* (0 otherwise), its physical address and the inner loop's page.          *)

\* kmalloc of the new directory, its memset and its physicalAddress.
NewDirectory ==
    /\ Reserve(DirectorySize)
    /\ clone' = [NoClone EXCEPT !.dir = NewBlock]
    /\ dirs' = [dirs EXCEPT ![NewBlock] = ZeroDirectory]
    /\ physicalAddress' = [physicalAddress EXCEPT ![NewBlock] = Physical(NewBlock)]
    /\ pc' = "clone"
    /\ UNCHANGED <<cursor, frames, tables, spaces, ram>>

\* switchPaging(pageDirectory_), kernelHeap.init and the call of
\* clonePageDirectory, whose first kmalloc already comes from the heap.
EnablePaging ==
    /\ pc = "enable"
    /\ SwitchPaging(pageDirectory)
    /\ pc' = "heapInit"
    /\ UNCHANGED <<cursor, boot, structure, spaces, clone, ram>>

CloneFirstDirectory ==
    /\ pc = "heapInit"
    /\ NewDirectory
    /\ UNCHANGED processor

SourceLink == dirs[currentPageDirectory][clone.slot]
KernelLink == dirs[pageDirectory][clone.slot]

InLoop == pc = "clone" /\ clone.slot < SlotNumber /\ clone.table = 0

\* Slips: the cloned table not forgotten; the slot not advanced.
NextSlotKeepsTable == clone' = [clone EXCEPT !.slot = @ + 1]
NextSlotStays == clone' = [clone EXCEPT !.table = 0]

NextSlot == clone' = [clone EXCEPT !.slot = @ + 1, !.table = 0]

\* No table in the slot: the loop continues.
SkipSlot ==
    /\ InLoop
    /\ SourceLink.table = 0
    /\ NextSlot
    /\ UNCHANGED <<pc, cursor, boot, structure, processor, spaces, ram>>

\* Slips: all tables taken for the kernel's, or none.
ShareEveryTable == TRUE
ShareNoTable == FALSE

\* A table of the kernel's directory is linked, not copied.
IsKernelTable == SourceLink.table = KernelLink.table

LinkTable ==
    /\ InLoop
    /\ SourceLink.table # 0
    /\ IsKernelTable
    /\ dirs' = [dirs EXCEPT ![clone.dir][clone.slot] = SourceLink]
    /\ NextSlot
    /\ UNCHANGED <<pc, cursor, boot, frames, tables, physicalAddress,
                   processor, spaces, ram>>

\* Any other table is cloned: clonePageTable starts with an empty one.
CloneTable ==
    /\ InLoop
    /\ SourceLink.table # 0
    /\ ~IsKernelTable
    /\ Reserve(PageSize)
    /\ clone' = [clone EXCEPT !.table = NewBlock, !.phys = Physical(NewBlock),
                              !.page = 0]
    /\ tables' = [tables EXCEPT ![NewBlock] = ZeroTable]
    /\ UNCHANGED <<pc, cursor, frames, dirs, physicalAddress, processor,
                   spaces, ram>>

InTable == pc = "clone" /\ clone.table # 0 /\ clone.page < TableSize
SourcePage == tables[SourceLink.table][clone.page]
NextPage == clone' = [clone EXCEPT !.page = @ + 1]

SkipPage ==
    /\ InTable
    /\ SourcePage.frame = 0
    /\ NextPage
    /\ UNCHANGED <<pc, cursor, boot, structure, processor, spaces, ram>>

\* Slip: the frame entered in the table that is copied.
CopyIntoSource(f) ==
    /\ tables' = [tables EXCEPT ![SourceLink.table][clone.page] =
                    [frame |-> f, present |-> SourcePage.present]]
    /\ ram' = [ram EXCEPT ![f] = ram[SourcePage.frame]]
    /\ NextPage
    /\ UNCHANGED <<pc, cursor, boot, dirs, physicalAddress, processor, spaces>>

\* The page gets a frame, the flags of the source page and the contents of
\* its frame.  Frame f stands for frame_ of the new page.
CopyInto(f) ==
    /\ tables' = [tables EXCEPT ![clone.table][clone.page] =
                    [frame |-> f, present |-> SourcePage.present]]
    /\ ram' = [ram EXCEPT ![f] = ram[SourcePage.frame]]
    /\ NextPage
    /\ UNCHANGED <<pc, cursor, boot, dirs, physicalAddress, processor, spaces>>

ClonePage ==
    /\ InTable
    /\ SourcePage.frame # 0
    /\ \E f \in Frames : /\ GetFreeFrame(f)
                         /\ frames' = Busy(f)
                         /\ CopyInto(f)

\* allocFrame failed: frame_ stays 0, and the loop goes on with it.
ClonePageWithoutFrame ==
    /\ InTable
    /\ SourcePage.frame # 0
    /\ FreeFrames = {}
    /\ CopyInto(0)
    /\ UNCHANGED frames

\* clonePageTable returns and its table is linked into the new directory.
LinkClone ==
    /\ pc = "clone"
    /\ clone.table # 0
    /\ clone.page = TableSize
    /\ dirs' = [dirs EXCEPT ![clone.dir][clone.slot] =
                  [table |-> clone.table, phys |-> clone.phys]]
    /\ NextSlot
    /\ UNCHANGED <<pc, cursor, boot, frames, tables, physicalAddress,
                   processor, spaces, ram>>

Cloned == pc = "clone" /\ clone.slot = SlotNumber

\* initialisePaging goes on: switchPaging(pDir); then Sheduler::init enters
\* the loop of changeStack.
FirstDirectoryCloned ==
    /\ Cloned
    /\ spaces = {}
    /\ SwitchPaging(clone.dir)
    /\ clone' = NoClone
    /\ pc' = "stack"
    /\ cursor' = StackTop
    /\ UNCHANGED <<boot, structure, spaces, ram>>

-----------------------------------------------------------------------------
(* changeStack maps the stack of the first process, from its top down.     *)

MakeStackTable ==
    /\ pc = "stack"
    /\ cursor >= StackTop - StackPages
    /\ TableOf(currentPageDirectory, cursor) = 0
    /\ MakeTable(currentPageDirectory, cursor)
    /\ UNCHANGED <<pc, cursor, processor, spaces, clone, ram>>

MapStackPage ==
    /\ pc = "stack"
    /\ cursor >= StackTop - StackPages
    /\ TableOf(currentPageDirectory, cursor) # 0
    /\ AllocFrame(currentPageDirectory, cursor)
    /\ cursor' = cursor - 1
    /\ UNCHANGED <<pc, processor, spaces, clone, ram>>

\* pushBackCurrent: the first process is in the list.
StackMapped ==
    /\ pc = "stack"
    /\ cursor < StackTop - StackPages
    /\ spaces' = {currentPageDirectory}
    /\ pc' = "run"
    /\ cursor' = 0
    /\ UNCHANGED <<boot, structure, processor, clone, ram>>

-----------------------------------------------------------------------------
(* Processes run.                                                          *)

\* Bound: at most MaxSpaces processes.
Fork ==
    /\ pc = "run"
    /\ Cardinality(spaces) < MaxSpaces
    /\ NewDirectory
    /\ UNCHANGED processor

\* fork puts the child into the list after the clone is complete.
Forked ==
    /\ Cloned
    /\ spaces # {}
    /\ spaces' = spaces \cup {clone.dir}
    /\ clone' = NoClone
    /\ pc' = "run"
    /\ UNCHANGED <<cursor, boot, structure, processor, ram>>

\* switchTask: the scheduler moves to another process.
Switch(d) ==
    /\ pc = "run"
    /\ d \in spaces
    /\ SwitchPaging(d)
    /\ UNCHANGED <<pc, cursor, boot, structure, spaces, clone, ram>>

\* The processor finds a page through cr3 and the physical addresses in the
\* directory; that this is the page the kernel's pointers lead to is the
\* invariant WalkAgrees.
Store(v, x) ==
    /\ pc = "run"
    /\ PageOf(currentPageDirectory, v).present
    /\ ram' = [ram EXCEPT ![PageOf(currentPageDirectory, v).frame] = x]
    /\ UNCHANGED <<pc, cursor, boot, structure, processor, spaces, clone>>

\* pageFaultHandler reports the fault, disables interrupts and spins.
PageFault(v) ==
    /\ pc = "run"
    /\ ~PageOf(currentPageDirectory, v).present
    /\ pc' = "halted"
    /\ UNCHANGED <<cursor, boot, structure, processor, spaces, clone, ram>>

\* freeFrame resets frame_ only: the bit of the frame and the present flag
\* stay as they are.
FreeFrame(v) ==
    /\ pc = "run"
    /\ PageOf(currentPageDirectory, v).frame # 0
    /\ tables' = [tables EXCEPT
                    ![TableOf(currentPageDirectory, v)][Entry(v)].frame = 0]
    /\ UNCHANGED <<pc, cursor, boot, frames, dirs, physicalAddress, processor,
                   spaces, clone, ram>>

-----------------------------------------------------------------------------
Boot ==
    \/ AllocateBitmap
    \/ MakeHeapTables \/ HeapTablesMade
    \/ MakeLowTable \/ MapLowPage \/ LowPagesMapped
    \/ MapHeapPage \/ HeapPagesMapped
    \/ EnablePaging \/ CloneFirstDirectory \/ FirstDirectoryCloned
    \/ MakeStackTable \/ MapStackPage \/ StackMapped

Clone ==
    \/ SkipSlot \/ LinkTable \/ CloneTable \/ LinkClone
    \/ SkipPage \/ ClonePage \/ ClonePageWithoutFrame

Next ==
    \/ Boot
    \/ Clone
    \/ Fork \/ Forked
    \/ \E d \in spaces : Switch(d)
    \/ \E v \in DataPages, x \in Values : Store(v, x)
    \/ \E v \in DataPages : PageFault(v)
    \/ \E v \in Freeable : FreeFrame(v)

Spec == Init /\ [][Next]_vars

\* The kernel thread runs alone with interrupts disabled, so the loops it is
\* in go on; nothing is assumed of what processes do.
FairSpec == Spec /\ WF_vars(Boot \/ Clone \/ Forked)
=============================================================================
