-------------------------- MODULE PagingProperties --------------------------
(***************************************************************************)
(* What must hold of paging, over the actions of module Paging.            *)
(***************************************************************************)
EXTENDS Paging

PhysicalPage == Frames \cup PageNo
Link == [table : PageNo, phys : PhysicalPage]
Page == [frame : Frames, present : BOOLEAN]
CloneLocals == [dir : PageNo, slot : 0 .. SlotNumber, table : PageNo,
                phys : PhysicalPage, page : 0 .. TableSize]

PC == {"start", "tables", "low", "heap", "enable", "heapInit", "clone",
       "stack", "run", "halted"}

\* Every variable of the paging state stays in its range: links name tables,
\* entries name frames the bitmap scan can return, loops stay in bounds.
TypeOK ==
    /\ pc \in PC
    /\ cursor \in Int
    /\ placement \in Nat
    /\ heapNext \in Nat
    /\ frames \subseteq Frames
    /\ tables \in [PageNo -> [Index -> Page]]
    /\ dirs \in [PageNo -> [Slots -> Link]]
    /\ physicalAddress \in [PageNo -> PhysicalPage]
    /\ pageDirectory \in PageNo
    /\ currentPageDirectory \in PageNo
    /\ cr3 \in PhysicalPage
    /\ spaces \subseteq PageNo
    /\ clone \in CloneLocals
    /\ ram \in [Frames -> Values]

\* The entries of all page tables that have a frame.
MappedEntries == {e \in PageNo \X Index : tables[e[1]][e[2]].frame # 0}
FrameOf(e) == tables[e[1]][e[2]].frame

\* A frame in use is marked in the bitmap (allocFrame, freeFrame).
MappedFramesBusy == \A e \in MappedEntries : FrameOf(e) \in frames

\* No frame other than frame 0 is behind two pages: allocFrame never hands
\* out a frame some table, of whichever directory, still names.
FrameIsolation ==
    \A e, g \in MappedEntries : FrameOf(e) = FrameOf(g) => e = g

\* No frame is lost: a bit that is set is a frame some page table maps, or
\* frame 0, or was found set behind the end of the bitmap (initialisePaging).
NoFrameLost ==
    pc # "start" =>
        frames \ (Garbage \ 0 .. FrameNumber - 1) \subseteq
            {0} \cup {FrameOf(e) : e \in MappedEntries}

\* Entries that may be present without a frame: page 0's, which gets frame 0
\* when booting maps it first, and those of pages given to freeFrame.
FirstEntry == <<TableOf(pageDirectory, 0), Entry(0)>>
FreedEntries == {<<TableOf(d, v), Entry(v)>> : d \in spaces, v \in Freeable}

\* A page is mapped to frame 0 only when there is no frame left: clonePageTable,
\* which does not look at what allocFrame returns, puts pages of a child there,
\* all in the same memory as page 0, but not while a bit of the bitmap is clear.
FrameZeroLast ==
    Frames \ frames # {} =>
        \A t \in PageNo, i \in Index :
            tables[t][i] = [frame |-> 0, present |-> TRUE] =>
                <<t, i>> \in {FirstEntry} \cup FreedEntries

-----------------------------------------------------------------------------
\* Where the boot allocator stands before it makes tables, and the bits that
\* may be set behind the end of the bitmap.
Base == AlignUp(InitrdEnd + BitmapSize) + AlignUp(DirectorySize)
Leftover == Garbage \ 0 .. FrameNumber - 1

\* What the machine must have for booting to go well: what lies below
\* placement_address, with a table for every slot, ends in main memory; and the
\* bits the scan goes over suffice for it and for the heap.
MainMemoryHolds == Base + SlotNumber < FrameNumber
BootHasFrames ==
    Base + SlotNumber + HeapPages + Cardinality(Leftover) < FrameNumber * WordBits

\* The first process's stack lies in slots in which the kernel's pages do not
\* reach: its tables are not the kernel's.
StackRange == StackTop - StackPages .. StackTop
StackApart ==
    /\ HeapPages > 0
    /\ \A v \in 0 .. HeapStart + HeapPages - 1, w \in StackRange : Slot(v) # Slot(w)

\* That every process gets a stack, and a frame more.
ProcessesHaveFrames ==
    /\ MaxSpaces > 0
    /\ Base + SlotNumber + 1 + HeapPages + Cardinality(Leftover)
          + MaxSpaces * (StackPages + 1) < FrameNumber * WordBits

\* A frame is left whenever a stack is mapped or cloned.
FramesLeft == pc \in {"stack", "clone"} => FreeFrames # {}

\* Directories the processor or the kernel still uses.
Directories == {pageDirectory, currentPageDirectory} \cup spaces
PagingEnabled == pc \notin {"start", "tables", "low", "heap", "enable"}

\* The kernel reads and writes tables and directories at their virtual
\* addresses, of which those below placement_address were given out as
\* physical ones: every directory maps each such page to the frame of the
\* same number, whatever the order of the boot loops did to placement.
IdentityMapped ==
    PagingEnabled =>
        \A d \in Directories : \A p \in 0 .. AlignUp(placement) - 1 :
            PageOf(d, p) = [frame |-> p, present |-> TRUE]

\* The frame behind page p of the kernel.
Backing(p) == PageOf(pageDirectory, p).frame

\* The processor and the kernel see the same structures: cr3 is the frame of
\* currentPageDirectory_, and every physical address in a directory is the
\* frame of the table its pointer names, mapped in every directory in use.
WalkAgrees ==
    PagingEnabled =>
        /\ cr3 = Backing(currentPageDirectory)
        /\ \A d \in Directories :
              /\ physicalAddress[d] = Backing(d)
              /\ \A s \in Slots : dirs[d][s].table # 0 =>
                    /\ dirs[d][s].phys = Backing(dirs[d][s].table)
                    /\ \A e \in Directories : PageOf(e, dirs[d][s].table).present

\* A process sees the kernel's tables themselves and shares no other table
\* with another process (the comparison in clonePageDirectory).
TablesShared ==
    \A d \in spaces : \A s \in Slots :
        IF dirs[pageDirectory][s].table # 0
        THEN dirs[d][s] = dirs[pageDirectory][s]
        ELSE \A e \in spaces \ {d} :
                dirs[d][s].table # 0 => dirs[d][s].table # dirs[e][s].table

\* A page that is mapped is never mapped elsewhere: the kernel flushes the
\* translation cache for new pages only, and by reloading cr3.
MappingsStable ==
    [][\A d \in Directories : \A v \in PageNo :
          PageOf(d, v).present => PageOf(d, v)' = PageOf(d, v)]_vars

\* Booting ends: the loop that maps memory up to placement_address catches up
\* with the pointer it moves, and the first process starts.
BootCompletes == <>(pc = "run")

-----------------------------------------------------------------------------
(* Paging implements AddressSpaces.                                        *)

SharedPages == {v \in DataPages : v < HeapStart + HeapPages}
PrivatePages == {v \in DataPages : v \in StackRange}

Started == spaces # {}

Spaces == INSTANCE AddressSpaces WITH
    Spaces  <- PageNo,
    Shared  <- SharedPages,
    Private <- PrivatePages,
    NoSpace <- 0,
    shared  <- [v \in SharedPages |->
                  IF Started /\ PageOf(pageDirectory, v).present
                  THEN ram[Backing(v)] ELSE Blank],
    private <- [d \in spaces |->
                  [v \in PrivatePages |-> ram[PageOf(d, v).frame]]],
    current <- IF Started THEN currentPageDirectory ELSE 0

\* Processes have memory of their own: a fork copies the parent's stack and
\* leaves everybody else's alone, a store reaches the storing process only,
\* or everyone if the page is the kernel's.
ProcessesIsolated == Spaces!Spec

-----------------------------------------------------------------------------
\* "Main memory size = 16 MB": only frames of main memory are mapped.
MainMemory == \A e \in MappedEntries : FrameOf(e) < FrameNumber
=============================================================================
