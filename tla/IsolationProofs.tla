--------------------------- MODULE IsolationProofs ---------------------------
(***************************************************************************)
(* Paging implements AddressSpaces: a process's memory is its own.         *)
(*                                                                         *)
(* Shown for every geometry in which the stack's tables are not the        *)
(* kernel's (StackApart) and the bitmap has a bit for every page that is   *)
(* given a frame (ProcessesHaveFrames); without a frame a page would be    *)
(* mapped to frame 0, which is the kernel's.  The argument: all pages of a *)
(* process that are not the kernel's are its stack's, each has a frame,    *)
(* and a clone has, page by page, what the source has.  That frames        *)
(* suffice is counted: so many for booting, and for each process those of  *)
(* its stack, a page at a time while it is mapped or cloned.               *)
(***************************************************************************)
EXTENDS PagingProofs

-----------------------------------------------------------------------------
(* The invariant.                                                          *)

\* Directories, the one that is being made included.
Live == Directories \cup {d \in {clone.dir} : pc = "clone"}

\* The kernel's directory ends with the heap.
KernelBelow ==
    /\ \A v \in PageNo : KernelPage(v).present => v < HeapStart + HeapPages
    /\ \A s \in Slots : dirs[pageDirectory][s].table # 0 =>
          \E v \in 0 .. HeapStart + HeapPages - 1 : s = Slot(v)

\* A page that is mapped is the kernel's or the stack's.
OwnPages ==
    /\ \A d \in Live, v \in PageNo : PageOf(d, v).present =>
          v \in StackRange \/ TableOf(d, v) = TableOf(pageDirectory, v)
    /\ clone.table # 0 =>
          \A v \in PageNo :
             Slot(v) = clone.slot /\ tables[clone.table][Entry(v)].present
                => v \in StackRange

\* The stack of a process has frames.
StacksMapped ==
    /\ \A d \in spaces, v \in StackRange : PageOf(d, v).frame # 0
    /\ pc = "stack" =>
          \A v \in StackRange : v > cursor => PageOf(currentPageDirectory, v).frame # 0

\* A page has what the current process has there.
Copy(page, v) ==
    /\ page.frame # 0
    /\ ram[page.frame] = ram[PageOf(currentPageDirectory, v).frame]

\* So far the clone has a copy of the stack.
CloneCopied ==
    pc = "clone" /\ spaces # {} =>
        \A v \in StackRange :
           /\ Slot(v) < clone.slot => Copy(PageOf(clone.dir, v), v)
           /\ clone.table # 0 /\ Slot(v) = clone.slot /\ Entry(v) < clone.page
                 => Copy(tables[clone.table][Entry(v)], v)

RamBlank == spaces = {} => ram = [f \in Frames |-> Blank]

NonNull == /\ pc # "start" => 0 \notin Directories
           /\ pc = "clone" => clone.dir # 0

\* Page 0 stays the only one that is mapped to frame 0.
FrameZero ==
    \A t \in PageNo, i \in Index :
       tables[t][i].frame = 0 /\ tables[t][i].present =>
          t = TableOf(pageDirectory, 0) /\ i = 0

IsoInv == /\ KernelBelow /\ OwnPages /\ StacksMapped /\ CloneCopied
          /\ RamBlank /\ NonNull /\ FrameZero

-----------------------------------------------------------------------------
(* Pages and entries.                                                      *)

LEMMA StackPagesInRange ==
    /\ StackRange \subseteq PageNo
    /\ \A v \in StackRange : v >= HeapStart + HeapPages
    /\ StackTop \in Nat /\ StackPages \in Nat
<1>1. /\ StackTop \in Nat /\ StackPages \in Nat /\ HeapStart \in Nat /\ HeapPages \in Nat
      /\ HeapStart + HeapPages <= StackTop - StackPages
  BY PagingAssumption
<1> QED
  BY <1>1, Ranges DEF StackRange

\* What a directory's pages are after an entry has been written.
LEMMA WriteSeen ==
    ASSUME TypeOK, NEW t, NEW i, NEW page, Written(t, i, page), UNCHANGED dirs,
           NEW d \in PageNo, NEW v \in PageNo
    PROVE  PageOf(d, v)' = IF TableOf(d, v) = t /\ Entry(v) = i
                           THEN page ELSE PageOf(d, v)
<1>1. TableOf(d, v) \in PageNo /\ Entry(v) \in Index
  BY SlotOfPage DEF TypeOK, TableOf, Link
<1> QED
  BY <1>1 DEF Written, PageOf, TableOf

\* Two pages with one entry are one page.
LEMMA SameEntry ==
    ASSUME TypeOK, SlotsApart, NEW d \in PageNo, NEW e \in PageNo,
           NEW v \in PageNo, NEW w \in PageNo,
           TableOf(d, v) # 0, TableOf(d, v) = TableOf(e, w)
    PROVE  Slot(v) = Slot(w) /\ (Entry(v) = Entry(w) => v = w)
<1>1. PICK s \in Slots, r \in Slots : s = Slot(v) /\ r = Slot(w)
  BY SlotOfPage
<1>2. dirs[d][s].table # 0 /\ dirs[d][s].table = dirs[e][r].table
  BY <1>1 DEF TableOf
<1>3. s = r
  BY <1>2 DEF SlotsApart
<1> QED
  BY <1>1, <1>3, PageDetermined

\* A page without a table is not mapped.
LEMMA NoTable ==
    ASSUME TypeOK, Fresh, NEW d, NEW v \in PageNo, TableOf(d, v) = 0
    PROVE  PageOf(d, v) = NullPage
BY SlotOfPage DEF PageOf, Fresh, ZeroTable

\* The kernel has no table where the stack is.
LEMMA StackSlots ==
    ASSUME StackApart, TypeOK, KernelBelow, NEW v \in StackRange
    PROVE  TableOf(pageDirectory, v) = 0
<1>1. Slot(v) \in Slots
  BY StackPagesInRange, SlotOfPage
<1> QED
  BY <1>1 DEF StackApart, KernelBelow, TableOf

\* What has a frame has one that is marked; other pages do not have it.
LEMMA FrameHeld ==
    ASSUME IInv, NEW t \in PageNo, NEW i \in Index, tables[t][i].frame # 0
    PROVE  /\ tables[t][i].frame \in frames
           /\ \A u \in PageNo, j \in Index :
                 tables[u][j].frame = tables[t][i].frame => u = t /\ j = i
<1>1. IsolatedTables
  BY IsolatedExpanded DEF IInv, Isolated
<1> QED
  BY <1>1 DEF IsolatedTables

-----------------------------------------------------------------------------
(* What a step does.                                                       *)

LEMMA MapParts ==
    ASSUME MapInv
    PROVE  /\ TypeOK /\ CloneInDirectory /\ IInv /\ SInv /\ TInv /\ EmptyAtStart /\ Frameless
           /\ Fresh /\ Loops /\ SlotsApart /\ MappedPresent /\ Phases
           /\ pageDirectory \in PageNo /\ currentPageDirectory \in PageNo
           /\ clone \in CloneLocals /\ Directories \subseteq PageNo /\ Live \subseteq PageNo
BY DEF MapInv, IInv, SInv, TInv, TypeOK, Directories, Live, CloneLocals

\* A directory in use was in use before, or is the clone, or new.
LEMMA LiveStep ==
    ASSUME MapInv, [Next]_vars, pc # "start"
    PROVE  /\ Directories' \subseteq Live /\ pc' # "start"
           /\ pageDirectory' = pageDirectory
           /\ spaces' \subseteq spaces \cup
                 {d \in {currentPageDirectory} : StackMapped} \cup
                 {d \in {clone.dir} : Forked}
           /\ Live' \subseteq Live \cup
                 {d \in {clone'.dir} : CloneFirstDirectory \/ Fork}
<1> USE DEF boot, structure, processor
<1>1. pageDirectory' = pageDirectory
  BY MapParts, LinksKept
<1>2. CASE CloneFirstDirectory \/ Fork
  <2>1. UNCHANGED <<currentPageDirectory, spaces>> /\ pc' = "clone"
    BY <1>2 DEF CloneFirstDirectory, Fork, NewDirectory
  <2> QED
    BY <1>1, <1>2, <2>1 DEF Directories, Live
<1>3. CASE FirstDirectoryCloned \/ Forked
  <2>1. /\ pc = "clone" /\ pc' # "clone" /\ pc' # "start"
        /\ currentPageDirectory' \in {currentPageDirectory, clone.dir}
        /\ spaces' = spaces \/ (Forked /\ spaces' = spaces \cup {clone.dir})
    BY <1>3 DEF FirstDirectoryCloned, Forked, Cloned, SwitchPaging
  <2> QED
    BY <1>1, <2>1 DEF Directories, Live
<1>4. CASE StackMapped \/ EnablePaging \/ (\E d \in spaces : Switch(d))
  <2>1. /\ pc' # "clone" /\ pc' # "start"
        /\ currentPageDirectory' \in Directories
        /\ \/ spaces' = spaces
           \/ StackMapped /\ spaces' = {currentPageDirectory}
    BY <1>4 DEF StackMapped, EnablePaging, Switch, SwitchPaging, Directories
  <2> QED
    BY <1>1, <2>1 DEF Directories, Live
<1>5. CASE SkipSlot \/ LinkTable \/ CloneTable \/ LinkClone \/ SkipPage
           \/ ClonePage \/ ClonePageWithoutFrame
  <2>1. /\ pc = "clone" /\ pc' = "clone" /\ clone'.dir = clone.dir
        /\ UNCHANGED <<currentPageDirectory, spaces>>
    BY <1>5, MapParts
       DEF SkipSlot, LinkTable, CloneTable, LinkClone, SkipPage, ClonePage,
           ClonePageWithoutFrame, CopyInto, InLoop, InTable, NextSlot, NextPage,
           CloneLocals
  <2> QED
    BY <1>1, <2>1 DEF Directories, Live
<1>6. CASE UNCHANGED vars
  BY <1>6 DEF vars, Directories, Live
<1>7. CASE \/ MakeHeapTables \/ HeapTablesMade \/ MakeLowTable \/ MapLowPage
           \/ LowPagesMapped \/ MapHeapPage \/ HeapPagesMapped
           \/ MakeStackTable \/ MapStackPage
           \/ (\E v \in DataPages, x \in Values : Store(v, x))
           \/ (\E v \in DataPages : PageFault(v))
           \/ (\E v \in Freeable : FreeFrame(v))
  <2>1. /\ pc' # "clone" /\ pc' # "start"
        /\ UNCHANGED <<currentPageDirectory, spaces>>
    BY <1>7
       DEF MakeHeapTables, HeapTablesMade, MakeLowTable, MapLowPage, LowPagesMapped,
           MapHeapPage, HeapPagesMapped, MakeStackTable, MapStackPage, Store,
           PageFault, FreeFrame
  <2> QED
    BY <1>1, <2>1 DEF Directories, Live
<1>8. ~AllocateBitmap
  BY DEF AllocateBitmap
<1> QED
  BY <1>2, <1>3, <1>4, <1>5, <1>6, <1>7, <1>8 DEF Next, Boot, Clone

\* Processes are added only.
LEMMA SpacesKept ==
    ASSUME [Next]_vars
    PROVE  \/ spaces' = spaces
           \/ StackMapped \/ Forked
<1> USE DEF boot, structure, processor
<1>1. CASE UNCHANGED vars
  BY <1>1 DEF vars
<1>2. CASE Boot
  BY <1>2 DEF Boot, AllocateBitmap, MakeHeapTables, HeapTablesMade, MakeLowTable,
     MapLowPage, LowPagesMapped, MapHeapPage, HeapPagesMapped, EnablePaging,
     CloneFirstDirectory, NewDirectory, FirstDirectoryCloned, MakeStackTable,
     MapStackPage
<1>3. CASE Clone
  BY <1>3 DEF Clone, SkipSlot, LinkTable, CloneTable, LinkClone, SkipPage,
     ClonePage, ClonePageWithoutFrame, CopyInto
<1>4. CASE \/ Fork
           \/ (\E d \in spaces : Switch(d))
           \/ (\E v \in DataPages, x \in Values : Store(v, x))
           \/ (\E v \in DataPages : PageFault(v))
           \/ (\E v \in Freeable : FreeFrame(v))
  BY <1>4 DEF Fork, NewDirectory, Switch, Store, PageFault, FreeFrame
<1> QED
  BY <1>1, <1>2, <1>3, <1>4 DEF Next

LEMMA NonNullStep ==
    ASSUME MapInv, NonNull, [Next]_vars
    PROVE  NonNull'
<1> USE DEF boot, structure, processor
<1>1. CASE AllocateBitmap
  <2>1. /\ pc = "start" /\ pc' = "tables" /\ spaces' = spaces
        /\ pageDirectory' = AlignUp(placement + BitmapSize)
        /\ currentPageDirectory' = AlignUp(placement + BitmapSize)
    BY <1>1 DEF AllocateBitmap
  <2>2. PICK dir \in Nat : dir = AlignUp(placement + BitmapSize) /\ dir > 0
    <3>1. placement \in Nat /\ BitmapSize \in Nat /\ BitmapSize > 0
      BY MapParts, PagingAssumption DEF TypeOK
    <3>2. placement + BitmapSize \in Nat /\ placement + BitmapSize > 0
      BY <3>1, SMT
    <3> QED
      BY <3>2, AlignUpNat
  <2>3. spaces = {}
    BY <2>1, MapParts DEF Phases, Booting
  <2> QED
    BY <2>1, <2>2, <2>3 DEF NonNull, Directories
<1>2. CASE CloneFirstDirectory \/ Fork
  <2>1. /\ pc # "start" /\ pc' = "clone" /\ Reserve(DirectorySize)
        /\ UNCHANGED <<pageDirectory, currentPageDirectory, spaces>>
        /\ clone' = [NoClone EXCEPT !.dir = NewBlock]
    BY <1>2 DEF CloneFirstDirectory, Fork, NewDirectory
  <2>2. PICK b : b = NewBlock
    OBVIOUS
  <2>3. b # 0
    BY <2>1, <2>2, MapParts, BlockEmpty, PagingAssumption
  <2>4. clone'.dir = b
    BY <2>1, <2>2 DEF NoClone
  <2> QED
    BY <2>1, <2>3, <2>4 DEF NonNull, Directories
<1>3. CASE pc # "start" /\ ~(CloneFirstDirectory \/ Fork)
  <2>1. Directories' \subseteq Live /\ Live' \subseteq Live
    BY <1>3, LiveStep
  <2> QED
    BY <1>3, <2>1 DEF NonNull, Live
<1>4. CASE UNCHANGED vars
  BY <1>4 DEF vars, NonNull, Directories
<1>5. pc = "start" => AllocateBitmap \/ UNCHANGED vars
  BY MapParts DEF Next, Boot, Clone, MakeHeapTables, HeapTablesMade, MakeLowTable,
     MapLowPage, LowPagesMapped, MapHeapPage, HeapPagesMapped, EnablePaging,
     CloneFirstDirectory, FirstDirectoryCloned, Cloned, MakeStackTable,
     MapStackPage, StackMapped, SkipSlot, LinkTable, CloneTable, LinkClone, InLoop,
     InTable, SkipPage, ClonePage, ClonePageWithoutFrame, Fork, Forked, Switch,
     Store, PageFault, FreeFrame
<1> QED
  BY <1>1, <1>2, <1>3, <1>4, <1>5

LEMMA FrameZeroStep ==
    ASSUME Freeable = {}, MapInv, FramesLeft, FrameZero, [Next]_vars
    PROVE  FrameZero'
<1>0. Frameless'
  BY MapParts, FramelessStep
<1> SUFFICES ASSUME NEW t \in PageNo, NEW i \in Index,
                    tables'[t][i].frame = 0, tables'[t][i].present
             PROVE  t = dirs'[pageDirectory'][0].table /\ i = 0
  BY PageZero DEF FrameZero, TableOf
<1>1. ASSUME tables'[t][i] = tables[t][i]
      PROVE  t = dirs'[pageDirectory'][0].table /\ i = 0
  <2>1. tables[t][i].frame = 0 /\ tables[t][i].present
    BY <1>1
  <2>2. t # 0 /\ pc # "start"
    BY <2>1, MapParts DEF Fresh, ZeroTable, NullPage
  <2>3. t = dirs[pageDirectory][0].table /\ i = 0
    BY <2>1, PageZero DEF FrameZero, TableOf
  <2>4. dirs'[pageDirectory][0] = dirs[pageDirectory][0] /\ pageDirectory' = pageDirectory
    BY <2>2, <2>3, MapParts, LinksKept, PageZero DEF Directories
  <2> QED
    BY <2>3, <2>4, PageZero DEF TableOf
<1>2. ASSUME NEW f \in Frames, Given(f), InClone(t, i),
             Written(t, i, [frame |-> f, present |-> TRUE])
      PROVE  FALSE
  <2>1. f = 0
    BY <1>2 DEF Written
  <2>2. pc = "clone"
    BY <1>2 DEF InClone, InTable
  <2>3. 0 \in frames
    BY <2>2, MapParts DEF Frameless, Unmapped
  <2>4. FreeFrames # {}
    BY <2>2 DEF FramesLeft
  <2> QED
    BY <1>2, <2>1, <2>3, <2>4 DEF Given, GetFreeFrame, FreeFrames
<1>3. ASSUME NEW d, InMapping(d, t, i)
      PROVE  t = dirs'[pageDirectory'][0].table /\ i = 0
  <2>1. pc' \in {"low", "heap", "stack"}
    BY <1>3 DEF InMapping, MapLowPage, MapHeapPage, MapStackPage
  <2> QED
    BY <1>0, <2>1, PageZero DEF Frameless, BeforeForks, Booting, TableOf
<1>4. ASSUME NEW u \in PageNo, NEW j \in Index, NEW page, Written(u, j, page)
      PROVE  ~(u = t /\ j = i) => tables'[t][i] = tables[t][i]
  BY <1>4 DEF Written
<1>5. CASE UNCHANGED tables
  BY <1>1, <1>5
<1>6. CASE ~UNCHANGED tables
  <2>1. PICK u \in PageNo, j \in Index, f \in Frames :
           /\ Written(u, j, [frame |-> f, present |-> TRUE]) /\ Given(f)
           /\ InClone(u, j) \/ \E d : InMapping(d, u, j)
    BY <1>6, MapParts, EntryWritten
  <2>2. CASE u = t /\ j = i
    BY <1>2, <1>3, <2>1, <2>2
  <2>3. CASE ~(u = t /\ j = i)
    BY <1>1, <1>4, <2>1, <2>3
  <2> QED
    BY <2>2, <2>3
<1> QED
  BY <1>5, <1>6

\* Memory is written by processes, and where a page of a clone gets its frame.
LEMMA RamStep ==
    ASSUME Freeable = {}, MapInv, FramesLeft, [Next]_vars
    PROVE  \/ UNCHANGED ram
           \/ \E v \in DataPages, x \in Values : Store(v, x)
           \/ \E f \in FreeFrames :
                 /\ f # 0 /\ InTable /\ SourcePage.frame # 0 /\ pc' = pc
                 /\ CopyInto(f) /\ GetFreeFrame(f) /\ UNCHANGED currentPageDirectory
                 /\ ram' = [ram EXCEPT ![f] = ram[SourcePage.frame]]
<1> USE DEF boot, structure, processor
<1>1. CASE ClonePage
  <2>1. PICK f \in Frames : GetFreeFrame(f) /\ CopyInto(f)
    BY <1>1 DEF ClonePage
  <2>2. pc = "clone" /\ InTable /\ SourcePage.frame # 0
    BY <1>1 DEF ClonePage, InTable
  <2>3. 0 \in frames
    BY <2>2, MapParts DEF Frameless, Unmapped
  <2> QED
    BY <2>1, <2>2, <2>3 DEF GetFreeFrame, FreeFrames, CopyInto
<1>2. ~ClonePageWithoutFrame
  BY DEF ClonePageWithoutFrame, InTable, FramesLeft
<1>3. CASE UNCHANGED vars
  BY <1>3 DEF vars
<1>4. CASE Boot
  BY <1>4 DEF Boot, AllocateBitmap, MakeHeapTables, HeapTablesMade, MakeLowTable,
     MapLowPage, LowPagesMapped, MapHeapPage, HeapPagesMapped, EnablePaging,
     CloneFirstDirectory, NewDirectory, FirstDirectoryCloned, MakeStackTable,
     MapStackPage, StackMapped
<1>5. CASE SkipSlot \/ LinkTable \/ CloneTable \/ LinkClone \/ SkipPage \/ Fork \/ Forked
  BY <1>5 DEF SkipSlot, LinkTable, CloneTable, LinkClone, SkipPage, Fork,
     NewDirectory, Forked
<1>6. CASE \/ (\E d \in spaces : Switch(d))
           \/ (\E v \in DataPages : PageFault(v))
           \/ (\E v \in Freeable : FreeFrame(v))
  BY <1>6 DEF Switch, PageFault, FreeFrame
<1> QED
  BY <1>1, <1>2, <1>3, <1>4, <1>5, <1>6 DEF Next, Clone

LEMMA RamBlankStep ==
    ASSUME Freeable = {}, MapInv, FramesLeft, RamBlank, [Next]_vars
    PROVE  RamBlank'
<1>1. spaces' = {} => spaces = {}
  <2>1. CASE StackMapped \/ Forked
    BY <2>1 DEF StackMapped, Forked
  <2>2. CASE pc = "start"
    BY <2>2, MapParts DEF Phases, Booting
  <2>3. CASE pc # "start" /\ ~StackMapped /\ ~Forked
    BY <2>3, SpacesKept
  <2> QED
    BY <2>1, <2>2, <2>3
<1>2. ASSUME NEW v \in DataPages, NEW x \in Values, Store(v, x)
      PROVE  spaces # {}
  BY <1>2, MapParts DEF Store, Phases
<1>3. ASSUME InTable, SourcePage.frame # 0
      PROVE  spaces # {}
  <2>1. pc = "clone" /\ clone.table # 0
    BY <1>3 DEF InTable
  <2>2. ASSUME spaces = {}
        PROVE  FALSE
    <3>1. SourceLink.table = 0
      BY <2>1, <2>2, MapParts DEF SInv, Phases, Unlinked, SourceLink
    <3>2. SourcePage = NullPage
      <4>1. clone.page \in Index
        BY <1>3, MapParts, PagingAssumption, SMT DEF InTable, CloneLocals, Index
      <4> QED
        BY <3>1, <4>1, MapParts DEF SourcePage, Fresh, ZeroTable
    <3> QED
      BY <1>3, <3>2 DEF NullPage
  <2> QED
    BY <2>2
<1> QED
  BY <1>1, <1>2, <1>3, RamStep DEF RamBlank

\* How a directory in use gets a table: an empty one, which the loops of
\* booting and changeStack make for page cursor, or in the clone the kernel's
\* or the one that clonePageTable has filled.
EmptyLinked(d, s) ==
    /\ dirs[d][s].table = 0 /\ tables'[dirs'[d][s].table] = ZeroTable
    /\ cursor \in PageNo /\ s = Slot(cursor)
    /\ \/ d = pageDirectory /\ (MakeHeapTables \/ MakeLowTable)
       \/ d = currentPageDirectory /\ MakeStackTable

CloneLinked(d, s) ==
    /\ d = clone.dir /\ s = clone.slot
    /\ \/ LinkTable /\ dirs'[d][s] = SourceLink
       \/ LinkClone /\ dirs'[d][s].table = clone.table

LEMMA LinkStep ==
    ASSUME MapInv, [Next]_vars, pc # "start", NEW d \in Live, NEW s \in Slots,
           dirs'[d][s] # dirs[d][s]
    PROVE  EmptyLinked(d, s) \/ CloneLinked(d, s)
<1> USE DEF boot, structure, processor
<1>0. dirs \in [PageNo -> [Slots -> Link]] /\ d \in PageNo
  BY MapParts DEF TypeOK
<1>1. CASE MakeHeapTables \/ MakeLowTable \/ MakeStackTable
  <2>1. PICK e \in PageNo, v \in PageNo :
           /\ v = cursor /\ MakeTable(e, cursor) /\ TableOf(e, cursor) = 0
           /\ \/ e = pageDirectory /\ (MakeHeapTables \/ MakeLowTable)
              \/ e = currentPageDirectory /\ MakeStackTable
    <3>1. cursor \in PageNo
      BY <1>1, MapParts, LoopPages DEF MakeHeapTables, MakeLowTable, MakeStackTable
    <3>2. dirs' # dirs
      OBVIOUS
    <3> QED
      BY <1>1, <3>1, <3>2, MapParts DEF MakeHeapTables, MakeLowTable, MakeStackTable
  <2>2. PICK b \in PageNo :
           /\ ~Used(b)
           /\ dirs' = [dirs EXCEPT ![e][Slot(v)] = [table |-> b, phys |-> Physical(b)]]
           /\ UNCHANGED tables
    BY <2>1, MapParts, TableLinked
  <2>3. d = e /\ s = Slot(v) /\ dirs'[d][s].table = b
    BY <1>0, <2>2
  <2>4. tables[b] = ZeroTable
    BY <2>2, MapParts DEF Fresh
  <2> QED
    BY <2>1, <2>2, <2>3, <2>4 DEF EmptyLinked, TableOf
<1>2. CASE CloneFirstDirectory \/ Fork
  <2>1. pc \in {"heapInit", "run"} /\ Reserve(DirectorySize)
        /\ dirs' = [dirs EXCEPT ![NewBlock] = ZeroDirectory]
    BY <1>2 DEF CloneFirstDirectory, Fork, NewDirectory
  <2>2. PICK b : b = NewBlock
    OBVIOUS
  <2>3. ~Used(b)
    BY <2>1, <2>2, MapParts, BlockEmpty, PagingAssumption
  <2>4. Used(d)
    BY <2>1, MapParts DEF SInv, Allocated, Live
  <2> QED
    BY <1>0, <2>1, <2>2, <2>3, <2>4
<1>3. CASE LinkTable
  <2>1. dirs' = [dirs EXCEPT ![clone.dir][clone.slot] = SourceLink]
    BY <1>3 DEF LinkTable
  <2>2. d = clone.dir /\ s = clone.slot /\ dirs'[d][s] = SourceLink
    BY <1>0, <2>1
  <2> QED
    BY <1>3, <2>2 DEF CloneLinked
<1>4. CASE LinkClone
  <2>1. dirs' = [dirs EXCEPT ![clone.dir][clone.slot] =
                   [table |-> clone.table, phys |-> clone.phys]]
    BY <1>4 DEF LinkClone
  <2>2. d = clone.dir /\ s = clone.slot /\ dirs'[d][s].table = clone.table
    BY <1>0, <2>1
  <2> QED
    BY <1>4, <2>2 DEF CloneLinked
<1>5. CASE MapLowPage \/ MapHeapPage \/ MapStackPage
  BY <1>5 DEF MapLowPage, MapHeapPage, MapStackPage, AllocFrame
<1>6. CASE AllocateBitmap \/ UNCHANGED vars
  BY <1>6 DEF AllocateBitmap, vars
<1>7. CASE \/ HeapTablesMade \/ LowPagesMapped \/ HeapPagesMapped \/ EnablePaging
           \/ FirstDirectoryCloned \/ StackMapped \/ SkipSlot \/ CloneTable \/ SkipPage
           \/ ClonePage \/ ClonePageWithoutFrame \/ Forked
  BY <1>7 DEF HeapTablesMade, LowPagesMapped, HeapPagesMapped, EnablePaging,
     FirstDirectoryCloned, StackMapped, SkipSlot, CloneTable, SkipPage, ClonePage,
     ClonePageWithoutFrame, CopyInto, Forked
<1>8. CASE \/ (\E e \in spaces : Switch(e))
           \/ (\E v \in DataPages, x \in Values : Store(v, x))
           \/ (\E v \in DataPages : PageFault(v))
           \/ (\E v \in Freeable : FreeFrame(v))
  BY <1>8 DEF Switch, Store, PageFault, FreeFrame
<1> QED
  BY <1>1, <1>2, <1>3, <1>4, <1>5, <1>6, <1>7, <1>8 DEF Next, Boot, Clone

\* The table that is filled is new, or stays until it is linked.
LEMMA FilledStep ==
    ASSUME MapInv, [Next]_vars, clone'.table # 0
    PROVE  \/ CloneTable /\ clone'.page = 0 /\ tables'[clone'.table] = ZeroTable
           \/ /\ pc = "clone" /\ clone.table # 0
              /\ clone'.table = clone.table /\ clone'.slot = clone.slot
              /\ clone'.dir = clone.dir
              /\ \/ clone' = clone /\ UNCHANGED <<tables, ram>>
                 \/ SkipPage /\ clone'.page = clone.page + 1
                 \/ /\ ClonePage \/ ClonePageWithoutFrame
                    /\ clone'.page = clone.page + 1
<1> USE DEF boot, structure, processor
<1>0. clone \in CloneLocals /\ (pc # "clone" => clone.table = 0)
  BY MapParts DEF Phases
<1>1. CASE CloneTable
  <2>1. /\ pc = "clone" /\ Reserve(PageSize)
        /\ clone' = [clone EXCEPT !.table = NewBlock, !.phys = Physical(NewBlock),
                                  !.page = 0]
        /\ tables' = [tables EXCEPT ![NewBlock] = ZeroTable]
    BY <1>1 DEF CloneTable, InLoop
  <2>2. PICK b : b = NewBlock
    OBVIOUS
  <2>3. b \in PageNo
    BY <2>1, <2>2, MapParts, BlockEmpty, PagingAssumption
  <2> QED
    BY <1>0, <1>1, <2>1, <2>2, <2>3, MapParts DEF CloneLocals, TypeOK
<1>2. CASE SkipPage \/ ClonePage \/ ClonePageWithoutFrame
  <2>1. /\ pc = "clone" /\ clone.table # 0
        /\ clone' = [clone EXCEPT !.page = @ + 1]
    BY <1>2 DEF SkipPage, ClonePage, ClonePageWithoutFrame, CopyInto, NextPage, InTable
  <2> QED
    BY <1>0, <1>2, <2>1 DEF CloneLocals
<1>3. CASE SkipSlot \/ LinkTable \/ LinkClone
  BY <1>0, <1>3 DEF SkipSlot, LinkTable, LinkClone, NextSlot, CloneLocals
<1>4. CASE CloneFirstDirectory \/ Fork \/ FirstDirectoryCloned \/ Forked
  BY <1>4 DEF CloneFirstDirectory, Fork, NewDirectory, FirstDirectoryCloned,
     Forked, NoClone
<1>5. CASE UNCHANGED vars
  BY <1>0, <1>5 DEF vars
<1>6. CASE \/ AllocateBitmap \/ MakeHeapTables \/ HeapTablesMade
           \/ MakeLowTable \/ MapLowPage \/ LowPagesMapped
           \/ MapHeapPage \/ HeapPagesMapped \/ EnablePaging
           \/ MakeStackTable \/ MapStackPage \/ StackMapped
  BY <1>0, <1>6 DEF AllocateBitmap, MakeHeapTables, HeapTablesMade,
     MakeLowTable, MapLowPage, LowPagesMapped, MapHeapPage, HeapPagesMapped,
     EnablePaging, MakeStackTable, MapStackPage, StackMapped
<1>7. CASE \/ (\E e \in spaces : Switch(e))
           \/ (\E v \in DataPages, x \in Values : Store(v, x))
           \/ (\E v \in DataPages : PageFault(v))
           \/ (\E v \in Freeable : FreeFrame(v))
  BY <1>0, <1>7 DEF Switch, Store, PageFault, FreeFrame
<1> QED
  BY <1>1, <1>2, <1>3, <1>4, <1>5, <1>6, <1>7 DEF Next, Boot, Clone

\* How a page appears in a directory: with a table of the clone, or because it
\* is the one that a loop maps.
LEMMA PageAppears ==
    ASSUME Freeable = {}, MapInv, [Next]_vars, pc # "start", NEW d \in Live,
           NEW v \in PageNo, PageOf(d, v)'.present, ~PageOf(d, v).present
    PROVE  \/ CloneLinked(d, Slot(v))
           \/ \E e : /\ InMapping(e, TableOf(d, v), Entry(v)) /\ v = cursor
                     /\ TableOf(d, v) = TableOf(e, v) /\ TableOf(d, v) # 0
<1>1. PICK s \in Slots, i \in Index, t \in PageNo :
         s = Slot(v) /\ i = Entry(v) /\ t = dirs[d][s].table
  BY MapParts, SlotOfPage DEF TypeOK, Link
<1>2. ~EmptyLinked(d, s)
  BY <1>1 DEF EmptyLinked, PageOf, TableOf, ZeroTable, NullPage
<1>3. CASE dirs'[d][s] = dirs[d][s]
  <2>1. tables'[t][i] # tables[t][i]
    BY <1>1, <1>3 DEF PageOf, TableOf
  <2>2. PICK u \in PageNo, j \in Index, f \in Frames :
           /\ Written(u, j, [frame |-> f, present |-> TRUE])
           /\ InClone(u, j) \/ \E e : InMapping(e, u, j)
    BY <2>1, MapParts, EntryWritten
  <2>3. u = t /\ j = i
    BY <2>1, <2>2 DEF Written
  <2>4. ~InClone(t, i)
    <3>1. ASSUME InClone(t, i) PROVE clone.table # 0 /\ clone.table = t
      BY <3>1 DEF InClone, InTable
    <3>2. clone.table # 0 => dirs[d][s].table # clone.table
      BY MapParts DEF SInv, Unlinked
    <3> QED
      BY <1>1, <3>1, <3>2
  <2>5. PICK e : InMapping(e, t, i)
    BY <2>2, <2>3, <2>4
  <2>6. e \in PageNo /\ cursor \in PageNo /\ t = TableOf(e, cursor) /\ t # 0
        /\ i = Entry(cursor)
    BY <2>5, MapParts DEF InMapping
  <2>7. v = cursor
    <3>1. PICK w \in PageNo : w = cursor
      BY <2>6
    <3>2. d \in PageNo /\ TableOf(d, v) # 0 /\ TableOf(d, v) = TableOf(e, w)
      BY <1>1, <2>6, <3>1, MapParts DEF TableOf
    <3>3. Entry(v) = Entry(w)
      BY <1>1, <2>6, <3>1
    <3> QED
      BY <2>6, <3>1, <3>2, <3>3, SameEntry, MapParts
  <2>8. TableOf(d, v) = t
    BY <1>1 DEF TableOf
  <2>9. InMapping(e, TableOf(d, v), Entry(v)) /\ TableOf(d, v) = TableOf(e, v)
    BY <1>1, <2>5, <2>6, <2>7, <2>8
  <2> QED
    BY <2>6, <2>7, <2>8, <2>9
<1> QED
  BY <1>1, <1>2, <1>3, LinkStep

\* What is mapped in a directory in use, or in the clone, stays mapped there.
LEMMA LivePageStays ==
    ASSUME Freeable = {}, MapInv, [Next]_vars, NEW d \in Live,
           NEW v \in PageNo, PageOf(d, v).present
    PROVE  PageOf(d, v)' = PageOf(d, v)
<1>1. CASE d \in Directories
  BY <1>1, MapParts, MappingStep
<1>2. CASE d = clone.dir /\ pc = "clone"
  <2>1. PICK s \in Slots, i \in Index, t \in PageNo :
           s = Slot(v) /\ i = Entry(v) /\ t = dirs[d][s].table
    BY MapParts, SlotOfPage DEF TypeOK, Link
  <2>2. t # 0 /\ tables[t][i].present
    BY <2>1, MapParts DEF PageOf, TableOf, Fresh, ZeroTable, NullPage
  <2>3. s < clone.slot
    BY <1>2, <2>1, <2>2, MapParts DEF SInv, CloneApart
  <2>4. dirs'[d][s] = dirs[d][s]
    <3>1. ~EmptyLinked(d, s)
      BY <1>2 DEF EmptyLinked, MakeHeapTables, MakeLowTable, MakeStackTable
    <3>2. ~CloneLinked(d, s)
      BY <2>3, PagingAssumption, SMT DEF CloneLinked, Slots
    <3> QED
      BY <1>2, <3>1, <3>2, LinkStep
  <2>5. tables'[t][i] = tables[t][i]
    <3>1. SUFFICES ASSUME tables'[t][i] # tables[t][i] PROVE FALSE
      OBVIOUS
    <3>2. PICK u \in PageNo, j \in Index, f \in Frames :
             /\ Written(u, j, [frame |-> f, present |-> TRUE])
             /\ InClone(u, j) \/ \E e : InMapping(e, u, j)
      BY <3>1, MapParts, EntryWritten
    <3>3. u = t /\ j = i
      BY <3>1, <3>2 DEF Written
    <3>4. ~InClone(t, i)
      BY <2>2 DEF InClone, NullPage
    <3>5. \A e : ~InMapping(e, t, i)
      BY <1>2 DEF InMapping, MapLowPage, MapHeapPage, MapStackPage
    <3> QED
      BY <3>2, <3>3, <3>4, <3>5
  <2> QED
    BY <2>1, <2>4, <2>5 DEF PageOf, TableOf
<1> QED
  BY <1>1, <1>2 DEF Live

LEMMA KernelBelowStep ==
    ASSUME Freeable = {}, StackApart, MapInv, KernelBelow, [Next]_vars, pc # "start"
    PROVE  KernelBelow'
<1> DEFINE end == HeapStart + HeapPages
<1>0. /\ pageDirectory \in Live /\ pageDirectory' = pageDirectory
      /\ HeapStart \in Nat /\ HeapPages \in Nat /\ HeapPages > 0 /\ end \in Nat
      /\ AlignUp(placement) \in Nat /\ AlignUp(placement) <= HeapStart
      /\ Slots \subseteq Int /\ placement \in Nat
  <2>1. pageDirectory' = pageDirectory
    BY LiveStep
  <2>2. AlignUp(placement) \in Nat /\ AlignUp(placement) <= HeapStart /\ placement \in Nat
    BY MapParts, AlignUpNat DEF SInv, Allocated, TypeOK
  <2> QED
    BY <2>1, <2>2, PagingAssumption DEF Live, Directories, StackApart, Slots
<1>1. PICK k : k = pageDirectory
  OBVIOUS
<1>2. ASSUME MakeHeapTables \/ MakeLowTable \/ MapLowPage \/ MapHeapPage,
             cursor \in PageNo
      PROVE  cursor \in 0 .. end - 1
  <2>1. cursor \in Nat
    BY <1>2, PagingAssumption, SMT DEF PageNo
  <2>2. CASE pc = "low" /\ LowPagesLeft
    <3>1. cursor <= AlignUp(placement)
      BY <1>0, <2>1, <2>2, LowCursor
    <3> QED
      BY <1>0, <2>1, <3>1, SMT
  <2>3. CASE cursor < end
    BY <1>0, <2>1, <2>3, SMT
  <2> QED
    BY <1>2, <2>2, <2>3 DEF MakeHeapTables, MakeLowTable, MapLowPage, MapHeapPage
<1>3. ASSUME NEW v \in PageNo, PageOf(k, v)'.present
      PROVE  v < end
  <2>1. CASE PageOf(k, v).present
    BY <1>1, <2>1 DEF KernelBelow, KernelPage
  <2>2. CASE ~PageOf(k, v).present
    <3>1. ~CloneLinked(k, Slot(v))
      BY <1>1, MapParts
         DEF CloneLinked, LinkTable, LinkClone, InLoop, Phases, Directories
    <3>2. PICK e : /\ InMapping(e, TableOf(k, v), Entry(v)) /\ v = cursor
                   /\ TableOf(k, v) = TableOf(e, v) /\ TableOf(k, v) # 0
      BY <1>0, <1>1, <1>3, <2>2, <3>1, PageAppears
    <3>3. CASE MapLowPage \/ MapHeapPage
      BY <1>0, <1>2, <3>2, <3>3
    <3>4. CASE MapStackPage
      <4>1. v \in StackRange
        <5>1. cursor >= StackTop - StackPages /\ pc = "stack"
          BY <3>4 DEF MapStackPage
        <5>2. cursor \in StackTop - StackPages - 1 .. StackTop
          BY <5>1, MapParts DEF Loops
        <5> QED
          BY <3>2, <5>1, <5>2, PagingAssumption, SMT DEF StackRange
      <4> QED
        BY <1>1, <3>2, <4>1, StackSlots, MapParts
    <3> QED
      BY <3>2, <3>3, <3>4 DEF InMapping
  <2> QED
    BY <2>1, <2>2
<1>4. ASSUME NEW s \in Slots, dirs'[k][s].table # 0
      PROVE  \E v \in 0 .. end - 1 : s = Slot(v)
  <2>1. CASE dirs'[k][s] = dirs[k][s]
    <3>1. dirs[k][s].table # 0
      BY <1>4, <2>1
    <3>2. PICK v \in 0 .. HeapStart + HeapPages - 1 : s = Slot(v)
      BY <1>1, <3>1 DEF KernelBelow
    <3>3. v \in 0 .. end - 1
      BY <1>0, <3>2, SMT
    <3> QED
      BY <3>2, <3>3
  <2>2. CASE EmptyLinked(k, s)
    <3>1. ~MakeStackTable \/ k # currentPageDirectory
      BY <1>1, MapParts DEF MakeStackTable, Phases
    <3> QED
      BY <1>2, <2>2, <3>1 DEF EmptyLinked
  <2>3. ~CloneLinked(k, s)
    BY <1>1, MapParts DEF CloneLinked, LinkTable, LinkClone, InLoop, Phases, Directories
  <2> QED
    BY <1>0, <1>1, <2>1, <2>2, <2>3, LinkStep
<1>5. pageDirectory' = k
  BY <1>0, <1>1
<1>6. /\ \A v \in PageNo : PageOf(k, v)'.present => v < end
      /\ \A s \in Slots : dirs'[k][s].table # 0 => \E v \in 0 .. end - 1 : s = Slot(v)
  BY <1>3, <1>4
<1>7. \A v \in PageNo : KernelPage(v)' = PageOf(k, v)'
  BY <1>5 DEF KernelPage, PageOf, TableOf
<1>8. 0 .. end - 1 = 0 .. HeapStart + HeapPages - 1
  BY <1>0, SMT
<1> QED
  BY <1>5, <1>6, <1>7, <1>8, Zenon DEF KernelBelow

\* The page that changeStack maps is the stack's.
LEMMA StackCursor ==
    ASSUME MapInv, MapStackPage
    PROVE  cursor \in StackRange
<1>1. cursor >= StackTop - StackPages /\ pc = "stack"
  BY DEF MapStackPage
<1>2. cursor \in StackTop - StackPages - 1 .. StackTop
  BY <1>1, MapParts DEF Loops
<1> QED
  BY <1>1, <1>2, PagingAssumption, SMT DEF StackRange

LEMMA OwnPagesStep ==
    ASSUME Freeable = {}, StackApart, MapInv, KernelBelow, OwnPages, [Next]_vars,
           pc # "start"
    PROVE  OwnPages'
<1>0. pageDirectory' = pageDirectory
  BY LiveStep
<1>1. ASSUME NEW d \in Live', NEW v \in PageNo, PageOf(d, v)'.present
      PROVE  v \in StackRange \/ dirs'[d][Slot(v)].table = dirs'[pageDirectory][Slot(v)].table
  <2>1. PICK s \in Slots, k \in PageNo : s = Slot(v) /\ k = pageDirectory
    BY SlotOfPage, MapParts
  <2>2. CASE d \notin Live
    <3>1. d = clone'.dir /\ (CloneFirstDirectory \/ Fork)
      BY <2>2, LiveStep
    <3>2. /\ pc # "start" /\ Reserve(DirectorySize) /\ UNCHANGED tables
          /\ clone' = [NoClone EXCEPT !.dir = NewBlock]
          /\ dirs' = [dirs EXCEPT ![NewBlock] = ZeroDirectory]
      BY <3>1 DEF CloneFirstDirectory, Fork, NewDirectory
    <3>3. d \in PageNo /\ d = NewBlock
      <4>1. PICK b : b = NewBlock
        OBVIOUS
      <4>2. b \in PageNo
        BY <3>2, <4>1, MapParts, BlockEmpty, PagingAssumption
      <4> QED
        BY <3>1, <3>2, <4>1, <4>2 DEF NoClone
    <3>4. dirs'[d] = ZeroDirectory
      BY <3>2, <3>3, MapParts DEF TypeOK
    <3>5. dirs'[d][s].table = 0
      BY <3>4 DEF ZeroDirectory, NullLink
    <3>6. PageOf(d, v)' = NullPage
      BY <2>1, <3>2, <3>5, SlotOfPage, MapParts DEF PageOf, TableOf, Fresh, ZeroTable
    <3> QED
      BY <1>1, <3>6 DEF NullPage
  <2>3. CASE d \in Live /\ PageOf(d, v).present
    <3>1. PageOf(d, v)' = PageOf(d, v)
      BY <2>3, LivePageStays
    <3>2. dirs[d][s].table # 0
      BY <2>1, <2>3, NoTable, MapParts DEF TableOf, NullPage
    <3>3. CASE v \notin StackRange
      <4>1. dirs[d][s].table = dirs[k][s].table
        BY <2>1, <2>3, <3>3 DEF OwnPages, TableOf
      <4>2. dirs'[k][s] = dirs[k][s]
        BY <2>1, <3>2, <4>1, MapParts, LinksKept DEF Directories
      <4>3. dirs'[d][s].table = dirs[d][s].table
        <5>1. ~EmptyLinked(d, s)
          BY <3>2 DEF EmptyLinked
        <5>2. ~CloneLinked(d, s)
          <6>1. ~(s < s)
            BY PagingAssumption, SMT DEF Slots
          <6> QED
            BY <3>2, <6>1, MapParts
               DEF CloneLinked, LinkTable, LinkClone, InLoop, SInv, CloneApart
        <5> QED
          BY <2>3, <5>1, <5>2, LinkStep
      <4> QED
        BY <2>1, <4>1, <4>2, <4>3
    <3> QED
      BY <3>3
  <2>4. CASE d \in Live /\ ~PageOf(d, v).present /\ CloneLinked(d, s)
    <3>1. CASE LinkTable /\ dirs'[d][s] = SourceLink
      <4>1. /\ SourceLink.table = KernelLink.table /\ s = clone.slot
            /\ SourceLink.table # 0
        BY <2>4, <3>1 DEF LinkTable, IsKernelTable, CloneLinked
      <4>2. dirs'[k][s] = dirs[k][s]
        BY <2>1, <4>1, MapParts, LinksKept DEF KernelLink, Directories
      <4> QED
        BY <2>1, <3>1, <4>1, <4>2 DEF KernelLink
    <3>2. CASE LinkClone /\ dirs'[d][s].table = clone.table
      <4>1. clone.table # 0 /\ s = clone.slot /\ UNCHANGED tables
        BY <2>4, <3>2 DEF LinkClone, CloneLinked
      <4>2. tables[clone.table][Entry(v)].present
        BY <1>1, <2>1, <3>2, <4>1 DEF PageOf, TableOf
      <4> QED
        BY <2>1, <4>1, <4>2 DEF OwnPages
    <3> QED
      BY <2>4, <3>1, <3>2 DEF CloneLinked
  <2>5. CASE d \in Live /\ ~PageOf(d, v).present /\ ~CloneLinked(d, s)
    <3>1. PICK e : /\ InMapping(e, TableOf(d, v), Entry(v)) /\ v = cursor
                   /\ TableOf(d, v) = TableOf(e, v) /\ TableOf(d, v) # 0
      BY <1>1, <2>1, <2>5, PageAppears
    <3>2. CASE MapStackPage
      BY <3>1, <3>2, StackCursor
    <3>3. CASE e = pageDirectory /\ (MapLowPage \/ MapHeapPage)
      <4>1. UNCHANGED dirs
        BY <3>3 DEF MapLowPage, MapHeapPage, AllocFrame
      <4> QED
        BY <2>1, <3>1, <3>3, <4>1 DEF TableOf
    <3> QED
      BY <3>1, <3>2, <3>3 DEF InMapping
  <2> QED
    BY <2>1, <2>2, <2>3, <2>4, <2>5
<1>2. ASSUME clone'.table # 0, NEW v \in PageNo, Slot(v) = clone'.slot,
             tables'[clone'.table][Entry(v)].present
      PROVE  v \in StackRange
  <2>1. PICK i \in Index : i = Entry(v)
    BY SlotOfPage
  <2>2. ~CloneTable
    BY <1>2, <2>1, FilledStep DEF ZeroTable, NullPage, CloneTable, InLoop
  <2>3. /\ pc = "clone" /\ clone.table # 0
        /\ clone'.table = clone.table /\ clone'.slot = clone.slot
        /\ UNCHANGED tables \/ ClonePage \/ ClonePageWithoutFrame
    BY <1>2, <2>2, FilledStep DEF SkipPage, structure
  <2>4. CASE tables'[clone.table][i].present = tables[clone.table][i].present
    BY <1>2, <2>1, <2>3, <2>4 DEF OwnPages
  <2>5. CASE ~(tables'[clone.table][i].present = tables[clone.table][i].present)
    <3>1. PICK f \in Frames : CopyInto(f) /\ InTable /\ SourcePage.frame # 0
      BY <2>3, <2>5, Ranges DEF ClonePage, ClonePageWithoutFrame
    <3>2. i = clone.page
      BY <2>5, <3>1, EntryCloned, MapParts
    <3>3. /\ v \in PageNo /\ Slot(v) = clone.slot
          /\ SourcePage = PageOf(currentPageDirectory, v)
      BY <1>2, <2>1, <2>3, <3>2 DEF SourcePage, SourceLink, PageOf, TableOf
    <3>4. PageOf(currentPageDirectory, v).present
      <4>1. TableOf(currentPageDirectory, v) \in PageNo
        BY SlotOfPage, MapParts DEF TypeOK, TableOf, Link
      <4> QED
        BY <2>1, <3>1, <3>3, <4>1, MapParts DEF MappedPresent, PageOf
    <3>5. TableOf(pageDirectory, v) = 0
      BY <2>3, <3>3, MapParts DEF SInv, Unlinked, TableOf
    <3>6. TableOf(currentPageDirectory, v) # 0
      BY <3>4, NoTable, MapParts DEF NullPage
    <3> QED
      BY <3>4, <3>5, <3>6 DEF OwnPages, Live, Directories
  <2> QED
    BY <2>4, <2>5
<1>3. \A d \in Live', v \in PageNo : PageOf(d, v)'.present
         => v \in StackRange \/ TableOf(d, v)' = TableOf(pageDirectory, v)'
  BY <1>0, <1>1 DEF TableOf
<1>4. clone'.table # 0 =>
          \A v \in PageNo :
             Slot(v) = clone'.slot /\ tables'[clone'.table][Entry(v)].present
                => v \in StackRange
  BY <1>2
<1> QED
  BY <1>3, <1>4, Zenon DEF OwnPages

\* A page with a frame is mapped, and keeps its frame.
LEMMA FrameStays ==
    ASSUME Freeable = {}, MapInv, [Next]_vars, NEW d \in Live, NEW v \in PageNo,
           PageOf(d, v).frame # 0
    PROVE  PageOf(d, v)' = PageOf(d, v) /\ PageOf(d, v).present
<1>1. TableOf(d, v) \in PageNo /\ Entry(v) \in Index
  BY SlotOfPage, MapParts DEF TypeOK, TableOf, Link
<1>2. PageOf(d, v).present
  BY <1>1, MapParts DEF MappedPresent, PageOf
<1> QED
  BY <1>2, LivePageStays

LEMMA StackPageMapped ==
    ASSUME Freeable = {}, MapInv, FramesLeft, [Next]_vars, MapStackPage,
           NEW v \in PageNo, v = cursor
    PROVE  PageOf(currentPageDirectory, v)'.frame # 0
<1>1. PICK d \in PageNo : d = currentPageDirectory
  BY MapParts
<1>2. AllocFrame(d, v) /\ pc = "stack" /\ currentPageDirectory' = d
  BY <1>1 DEF MapStackPage, processor
<1>3. FreeFrames # {} /\ 0 \in frames
  BY <1>2, MapParts DEF FramesLeft, Frameless, Unmapped
<1>4. TableOf(d, v) \in PageNo /\ Entry(v) \in Index /\ UNCHANGED dirs
  BY <1>2, SlotOfPage, MapParts DEF TypeOK, TableOf, Link, AllocFrame
<1>5. CASE UNCHANGED tables /\ PageOf(d, v).frame # 0
  BY <1>1, <1>2, <1>4, <1>5 DEF PageOf, TableOf
<1>6. ASSUME NEW f \in Frames, GetFreeFrame(f),
             tables'[TableOf(d, v)][Entry(v)] = [frame |-> f, present |-> TRUE]
      PROVE  PageOf(currentPageDirectory, v)'.frame # 0
  <2>1. f # 0
    BY <1>3, <1>6 DEF GetFreeFrame, FreeFrames
  <2> QED
    BY <1>1, <1>2, <1>4, <1>6, <2>1 DEF PageOf, TableOf
<1>7. \/ UNCHANGED tables /\ PageOf(d, v).frame # 0
      \/ \E f \in Frames :
            /\ GetFreeFrame(f)
            /\ tables'[TableOf(d, v)][Entry(v)] = [frame |-> f, present |-> TRUE]
  BY <1>2, <1>3, <1>4, FrameGiven, MapParts
<1> QED
  BY <1>5, <1>6, <1>7

\* The loop of changeStack is entered after the first clone.
LEMMA StackPhase ==
    ASSUME [Next]_vars, pc' = "stack"
    PROVE  \/ FirstDirectoryCloned \/ MakeStackTable \/ MapStackPage
           \/ pc = "stack" /\ UNCHANGED <<cursor, currentPageDirectory>>
<1> USE DEF boot, structure, processor
<1>1. CASE UNCHANGED vars
  BY <1>1 DEF vars
<1>2. CASE Boot
  BY <1>2 DEF Boot, AllocateBitmap, MakeHeapTables, HeapTablesMade, MakeLowTable,
     MapLowPage, LowPagesMapped, MapHeapPage, HeapPagesMapped, EnablePaging,
     CloneFirstDirectory, NewDirectory, StackMapped
<1>3. CASE Clone
  BY <1>3 DEF Clone, SkipSlot, LinkTable, CloneTable, LinkClone, InLoop, InTable,
     SkipPage, ClonePage, ClonePageWithoutFrame, CopyInto
<1>4. CASE \/ Fork \/ Forked
           \/ (\E d \in spaces : Switch(d))
           \/ (\E v \in DataPages, x \in Values : Store(v, x))
           \/ (\E v \in DataPages : PageFault(v))
           \/ (\E v \in Freeable : FreeFrame(v))
  BY <1>4 DEF Fork, NewDirectory, Forked, Switch, Store, PageFault, FreeFrame
<1> QED
  BY <1>1, <1>2, <1>3, <1>4 DEF Next

LEMMA StacksMappedStep ==
    ASSUME Freeable = {}, MapInv, FramesLeft, StacksMapped, CloneCopied, [Next]_vars,
           pc # "start"
    PROVE  StacksMapped'
<1>0. StackRange \subseteq PageNo /\ spaces \subseteq Directories /\ Directories \subseteq Live
  BY StackPagesInRange DEF Directories, Live
<1>1. ASSUME NEW d \in spaces', NEW v \in StackRange
      PROVE  PageOf(d, v)'.frame # 0
  <2>1. CASE d \in spaces
    <3>1. PageOf(d, v).frame # 0
      BY <2>1 DEF StacksMapped
    <3> QED
      BY <1>0, <2>1, <3>1, FrameStays
  <2>2. CASE StackMapped /\ d = currentPageDirectory
    <3>1. pc = "stack" /\ cursor < StackTop - StackPages
      BY <2>2 DEF StackMapped
    <3>2. v > cursor
      BY <3>1, PagingAssumption, MapParts, SMT DEF StackRange, TypeOK
    <3>3. PageOf(d, v).frame # 0
      BY <2>2, <3>1, <3>2 DEF StacksMapped
    <3> QED
      BY <1>0, <2>2, <3>3, FrameStays DEF Directories
  <2>3. CASE Forked /\ d = clone.dir
    <3>1. pc = "clone" /\ spaces # {} /\ clone.slot = SlotNumber
      BY <2>3 DEF Forked, Cloned
    <3>2. PICK s \in Slots : s = Slot(v)
      BY <1>0, SlotOfPage
    <3>3. s < SlotNumber
      BY PagingAssumption, SMT DEF Slots
    <3>4. PageOf(d, v).frame # 0
      BY <2>3, <3>1, <3>2, <3>3 DEF CloneCopied, Copy
    <3> QED
      BY <1>0, <2>3, <3>1, <3>4, FrameStays DEF Live
  <2> QED
    BY <2>1, <2>2, <2>3, LiveStep
<1>2. ASSUME pc' = "stack", NEW v \in StackRange, v > cursor'
      PROVE  PageOf(currentPageDirectory, v)'.frame # 0
  <2>1. CASE FirstDirectoryCloned
    <3>1. cursor' = StackTop
      BY <2>1 DEF FirstDirectoryCloned
    <3> QED
      BY <1>2, <3>1, PagingAssumption, SMT DEF StackRange
  <2>2. CASE pc = "stack" /\ currentPageDirectory' = currentPageDirectory
    <3>1. PICK d \in Live : d = currentPageDirectory
      BY DEF Live, Directories
    <3>2. CASE v > cursor
      <4>1. PageOf(d, v).frame # 0
        BY <2>2, <3>1, <3>2 DEF StacksMapped
      <4>2. PageOf(d, v)'.frame # 0
        BY <1>0, <4>1, FrameStays
      <4> QED
        BY <2>2, <3>1, <4>2 DEF PageOf, TableOf
    <3>3. CASE ~(v > cursor)
      <4>1. MapStackPage /\ v = cursor
        <5>1. MapStackPage \/ cursor' = cursor
          BY <1>2, <2>2, StackPhase DEF MakeStackTable, FirstDirectoryCloned, Cloned
        <5>2. MapStackPage
          BY <1>2, <3>3, <5>1
        <5>3. cursor' = cursor - 1 /\ cursor \in Int /\ v \in Int
          BY <5>2, PagingAssumption, MapParts DEF MapStackPage, TypeOK, StackRange
        <5> QED
          BY <1>2, <3>3, <5>2, <5>3
      <4> QED
        BY <1>0, <4>1, StackPageMapped
    <3> QED
      BY <3>2, <3>3
  <2>3. \/ FirstDirectoryCloned
        \/ pc = "stack" /\ currentPageDirectory' = currentPageDirectory
    BY <1>2, StackPhase DEF MakeStackTable, MapStackPage, processor
  <2> QED
    BY <2>1, <2>2, <2>3
<1> QED
  BY <1>1, <1>2 DEF StacksMapped

\* While a process is cloned, memory in use stays as it is.
LEMMA UsedFrameStays ==
    ASSUME Freeable = {}, MapInv, FramesLeft, [Next]_vars, pc # "run",
           NEW f \in frames
    PROVE  ram'[f] = ram[f]
<1>1. ASSUME NEW g \in FreeFrames, ram' = [ram EXCEPT ![g] = ram[SourcePage.frame]]
      PROVE  ram'[f] = ram[f]
  BY <1>1, MapParts DEF FreeFrames, TypeOK
<1> QED
  BY <1>1, RamStep DEF Store

LEMMA CopyKept ==
    ASSUME Freeable = {}, MapInv, FramesLeft, StacksMapped, [Next]_vars,
           pc = "clone", spaces # {}, currentPageDirectory' = currentPageDirectory,
           NEW page, NEW v \in StackRange, page.frame \in frames, Copy(page, v)
    PROVE  Copy(page, v)'
<1>1. PICK d \in spaces : d = currentPageDirectory
  BY MapParts DEF Phases
<1>2. PageOf(d, v).frame # 0
  BY <1>1 DEF StacksMapped
<1>3. v \in PageNo /\ d \in Live
  BY <1>1, StackPagesInRange DEF Live, Directories
<1>4. PageOf(d, v)' = PageOf(d, v)
  BY <1>2, <1>3, FrameStays
<1>5. PageOf(d, v).frame \in frames
  <2>1. TableOf(d, v) \in PageNo /\ Entry(v) \in Index
    BY <1>3, SlotOfPage, MapParts DEF TypeOK, TableOf, Link
  <2> QED
    BY <1>2, <2>1, MapParts, FrameHeld DEF PageOf
<1>6. ram'[page.frame] = ram[page.frame] /\ ram'[PageOf(d, v).frame] = ram[PageOf(d, v).frame]
  BY <1>5, UsedFrameStays
<1>7. PageOf(currentPageDirectory, v)' = PageOf(d, v)
  BY <1>1, <1>4 DEF PageOf, TableOf
<1> QED
  BY <1>1, <1>6, <1>7 DEF Copy

\* The steps of clonePageDirectory from slot to slot.
LEMMA SlotStep ==
    ASSUME MapInv, [Next]_vars, pc' = "clone", spaces' # {}
    PROVE  \/ Fork /\ clone'.slot = 0 /\ clone'.table = 0
           \/ /\ pc = "clone" /\ spaces' = spaces /\ clone'.dir = clone.dir
              /\ currentPageDirectory' = currentPageDirectory
              /\ \/ clone'.slot = clone.slot
                 \/ /\ SkipSlot \/ LinkTable \/ LinkClone
                    /\ clone.slot < SlotNumber /\ clone'.slot = clone.slot + 1
<1> USE DEF boot, structure, processor
<1>1. CASE UNCHANGED vars
  BY <1>1 DEF vars
<1>2. CASE Boot
  <2>1. spaces' = {} \/ pc' # "clone"
    BY <1>2, MapParts DEF Boot, AllocateBitmap, MakeHeapTables, HeapTablesMade, MakeLowTable,
     MapLowPage, LowPagesMapped, MapHeapPage, HeapPagesMapped, EnablePaging,
     CloneFirstDirectory, NewDirectory, FirstDirectoryCloned, MakeStackTable,
     MapStackPage, StackMapped, Phases, Booting
  <2> QED
    BY <2>1
<1>3. CASE Clone
  BY <1>3, MapParts DEF Clone, SkipSlot, LinkTable, CloneTable, LinkClone, InLoop,
     InTable, SkipPage, ClonePage, ClonePageWithoutFrame, CopyInto, NextSlot,
     NextPage, CloneLocals, CloneInDirectory
<1>4. CASE Fork
  BY <1>4 DEF Fork, NewDirectory, NoClone
<1>5. CASE \/ Forked
           \/ (\E d \in spaces : Switch(d))
           \/ (\E v \in DataPages, x \in Values : Store(v, x))
           \/ (\E v \in DataPages : PageFault(v))
           \/ (\E v \in Freeable : FreeFrame(v))
  BY <1>5 DEF Forked, Switch, Store, PageFault, FreeFrame
<1> QED
  BY <1>1, <1>2, <1>3, <1>4, <1>5 DEF Next

LEMMA CopiedStep ==
    ASSUME Freeable = {}, StackApart, MapInv, FramesLeft, KernelBelow, StacksMapped,
           CloneCopied, [Next]_vars, pc # "start"
    PROVE  CloneCopied'
<1> SUFFICES ASSUME pc' = "clone", spaces' # {}, NEW v \in StackRange
             PROVE  /\ Slot(v) < clone'.slot => Copy(PageOf(clone.dir, v), v)'
                    /\ clone'.table # 0 /\ Slot(v) = clone'.slot /\ Entry(v) < clone'.page
                          => Copy(tables[clone.table][Entry(v)], v)'
  BY DEF CloneCopied
<1>1. PICK s \in Slots, i \in Index : s = Slot(v) /\ i = Entry(v) /\ v \in PageNo
  BY SlotOfPage, StackPagesInRange
<1>2. s \in Int /\ 0 <= s /\ i \in Int /\ 0 <= i /\ i < TableSize
  BY PagingAssumption, SMT DEF Slots, Index
<1>3. CASE Fork /\ clone'.slot = 0 /\ clone'.table = 0
  BY <1>1, <1>2, <1>3
<1>4. CASE /\ pc = "clone" /\ spaces' = spaces /\ clone'.dir = clone.dir
           /\ currentPageDirectory' = currentPageDirectory
           /\ \/ clone'.slot = clone.slot
              \/ /\ SkipSlot \/ LinkTable \/ LinkClone
                 /\ clone.slot < SlotNumber /\ clone'.slot = clone.slot + 1
  <2>1. PICK d \in spaces : d = currentPageDirectory
    BY <1>4, MapParts DEF Phases
  <2>2. PageOf(d, v).frame # 0
    BY <2>1 DEF StacksMapped
  <2>3. TableOf(d, v) # 0
    BY <1>1, <2>1, <2>2, NoTable, MapParts DEF NullPage
  <2>4. TableOf(pageDirectory, v) = 0
    BY StackSlots, MapParts
  <2>5. SourceLink = dirs[d][clone.slot] /\ SourcePage = tables[SourceLink.table][clone.page]
    BY <2>1 DEF SourceLink, SourcePage
  <2>6. ASSUME NEW page, NEW t \in PageNo, page = tables[t][i], Copy(page, v)
        PROVE  Copy(page, v)'
    <3>1. page.frame \in frames
      BY <2>6, MapParts, FrameHeld DEF Copy
    <3> QED
      BY <1>4, <2>6, <3>1, CopyKept
  <2>7. ASSUME s < clone'.slot
        PROVE  Copy(PageOf(clone.dir, v), v)'
    <3>1. PICK c \in Live : c = clone.dir /\ c = clone'.dir
      BY <1>4 DEF Live
    <3>2. CASE s < clone.slot
      <4>1. PICK page : page = PageOf(c, v)
        OBVIOUS
      <4>2. Copy(page, v)
        BY <1>1, <1>4, <3>1, <3>2, <4>1 DEF CloneCopied
      <4>3. TableOf(c, v) \in PageNo /\ page = tables[TableOf(c, v)][i]
        BY <1>1, <4>1, SlotOfPage, MapParts DEF TypeOK, TableOf, Link, PageOf
      <4>4. Copy(page, v)'
        BY <2>6, <4>2, <4>3
      <4>5. PageOf(c, v)' = page
        BY <1>1, <4>1, <4>2, FrameStays DEF Copy
      <4>6. PageOf(clone.dir, v)' = page
        BY <3>1, <4>5 DEF PageOf, TableOf
      <4> QED
        BY <4>4, <4>6 DEF Copy
    <3>3. CASE s = clone.slot /\ (SkipSlot \/ LinkTable \/ LinkClone)
      <4>1. SourceLink.table = TableOf(d, v) /\ KernelLink.table = TableOf(pageDirectory, v)
        BY <1>1, <2>5, <3>3 DEF KernelLink, TableOf
      <4>2. LinkClone
        BY <2>3, <2>4, <3>3, <4>1 DEF SkipSlot, LinkTable, IsKernelTable
      <4>3. /\ clone.table # 0 /\ clone.page = TableSize /\ UNCHANGED tables
            /\ dirs' = [dirs EXCEPT ![c][s] = [table |-> clone.table, phys |-> clone.phys]]
        BY <3>1, <3>3, <4>2 DEF LinkClone
      <4>4. PICK t \in PageNo, page \in {tables[clone.table][i]} : t = clone.table
        BY MapParts DEF CloneLocals
      <4>5. Copy(page, v)
        BY <1>1, <1>2, <1>4, <3>3, <4>3, <4>4 DEF CloneCopied
      <4>6. Copy(page, v)'
        BY <2>6, <4>4, <4>5
      <4>7. dirs'[c][s].table = t
        BY <3>1, <4>3, <4>4, MapParts DEF TypeOK
      <4>8. PageOf(clone.dir, v)' = page
        BY <1>1, <3>1, <4>3, <4>4, <4>7 DEF PageOf, TableOf
      <4> QED
        BY <4>6, <4>8 DEF Copy
    <3>4. clone.slot \in Int
      BY MapParts, PagingAssumption DEF CloneLocals
    <3> QED
      BY <1>2, <1>4, <2>7, <3>2, <3>3, <3>4
  <2>8. ASSUME clone'.table # 0, s = clone'.slot, i < clone'.page
        PROVE  Copy(tables[clone.table][Entry(v)], v)'
    <3>1. ~CloneTable
      BY <1>2, <2>8, FilledStep DEF CloneTable, InLoop
    <3>2. PICK t \in PageNo : t = clone.table /\ t = clone'.table /\ t # 0
      BY <2>8, <3>1, FilledStep, MapParts DEF CloneLocals
    <3>3. /\ clone'.slot = clone.slot /\ clone.page \in Int
          /\ \/ clone' = clone /\ UNCHANGED <<tables, ram>>
             \/ SkipPage /\ clone'.page = clone.page + 1
             \/ /\ ClonePage \/ ClonePageWithoutFrame
                /\ clone'.page = clone.page + 1
      BY <2>8, <3>1, FilledStep, MapParts, PagingAssumption DEF CloneLocals
    <3>4. CASE i < clone.page
      <4>1. PICK page : page = tables[t][i]
        OBVIOUS
      <4>2. Copy(page, v)
        BY <1>1, <1>4, <2>8, <3>2, <3>3, <3>4, <4>1 DEF CloneCopied
      <4>3. Copy(page, v)'
        BY <2>6, <4>1, <4>2
      <4>4. tables'[t][i] = page
        <5>1. CASE UNCHANGED tables
          BY <4>1, <5>1
        <5>2. ASSUME NEW f \in Frames, InTable, CopyInto(f)
              PROVE  tables'[t][i] = page
          <6>1. TypeOK
            BY MapParts
          <6>2. \/ t = clone.table /\ i = clone.page
                \/ tables'[t][i] = tables[t][i]
            BY <1>1, <5>2, <6>1, EntryCloned
          <6> QED
            BY <1>2, <3>3, <3>4, <4>1, <6>2
        <5> QED
          BY <3>3, <5>1, <5>2, Ranges
             DEF SkipPage, structure, ClonePage, ClonePageWithoutFrame
      <4> QED
        BY <1>1, <3>2, <4>3, <4>4 DEF Copy
    <3>5. CASE i = clone.page /\ clone' # clone
      <4>1. SourcePage = PageOf(d, v)
        BY <1>1, <2>5, <2>8, <3>3, <3>5 DEF PageOf, TableOf
      <4>2. ClonePage
        BY <1>4, <2>2, <3>3, <3>5, <4>1
           DEF SkipPage, ClonePageWithoutFrame, FramesLeft
      <4>3. PICK f \in Frames : GetFreeFrame(f) /\ CopyInto(f) /\ InTable
        BY <4>2 DEF ClonePage
      <4>4. f # 0
        BY <1>4, <4>3, MapParts DEF Frameless, Unmapped, GetFreeFrame, FreeFrames
      <4>5. tables'[t][i].frame = f
        <5>1. TypeOK
          BY MapParts
        <5>2. tables'[t][i] = [frame |-> f, present |-> SourcePage.present]
          BY <1>1, <3>2, <3>5, <4>3, <5>1, EntryCloned
        <5> QED
          BY <5>2
      <4>6. ram'[f] = ram[PageOf(d, v).frame]
        BY <4>1, <4>3, MapParts DEF CopyInto, TypeOK
      <4>7. PageOf(d, v).frame \in frames
        <5>1. TableOf(d, v) \in PageNo
          BY <1>1, <2>1, MapParts DEF TypeOK, TableOf, Link, Phases, Directories
        <5> QED
          BY <1>1, <2>2, <5>1, MapParts, FrameHeld DEF PageOf
      <4>8. ram'[PageOf(d, v).frame] = ram[PageOf(d, v).frame]
        BY <1>4, <4>7, UsedFrameStays
      <4>9. PageOf(currentPageDirectory, v)' = PageOf(d, v)
        <5>1. PageOf(d, v)' = PageOf(d, v)
          BY <1>1, <2>1, <2>2, FrameStays DEF Live, Directories
        <5> QED
          BY <1>4, <2>1, <5>1 DEF PageOf, TableOf
      <4> QED
        BY <1>1, <3>2, <4>4, <4>5, <4>6, <4>8, <4>9 DEF Copy
    <3> QED
      BY <1>2, <2>8, <3>3, <3>4, <3>5
  <2> QED
    BY <1>1, <2>7, <2>8
<1> QED
  BY <1>3, <1>4, SlotStep

\* Before the bitmap is made nothing is linked, and nothing after it.
LEMMA StartStep ==
    ASSUME Freeable = {}, MapInv, OwnPages, [Next]_vars, pc = "start"
    PROVE  KernelBelow' /\ OwnPages' /\ StacksMapped' /\ CloneCopied'
<1>1. /\ UNCHANGED <<dirs, tables, spaces, clone>> /\ pc' \in {"start", "tables"}
  BY DEF Next, Boot, Clone, vars, boot, structure, processor, AllocateBitmap,
     MakeHeapTables, HeapTablesMade, MakeLowTable, MapLowPage, LowPagesMapped,
     MapHeapPage, HeapPagesMapped, EnablePaging, CloneFirstDirectory,
     FirstDirectoryCloned, Cloned, MakeStackTable, MapStackPage, StackMapped,
     SkipSlot, LinkTable, CloneTable, LinkClone, InLoop, InTable, SkipPage,
     ClonePage, ClonePageWithoutFrame, Fork, Forked, Switch, Store, PageFault,
     FreeFrame
<1>2. spaces = {} /\ clone.table = 0
  BY MapParts DEF Phases, Booting
<1>3. Live' \subseteq PageNo /\ pageDirectory' \in PageNo
  <2>1. TypeOK'
    BY TypeStep, MapParts
  <2> QED
    BY <1>1, <2>1 DEF TypeOK, Live, Directories
<1>4. \A d \in PageNo, s \in Slots : dirs'[d][s].table = 0
  BY <1>1, MapParts DEF EmptyAtStart
<1>5. \A d \in PageNo, v \in PageNo : ~tables'[dirs'[d][Slot(v)].table][Entry(v)].present
  BY <1>1, <1>4, SlotOfPage, MapParts DEF Fresh, ZeroTable, NullPage
<1>6. KernelBelow'
  BY <1>3, <1>4, <1>5 DEF KernelBelow, KernelPage, PageOf, TableOf
<1>7. OwnPages'
  BY <1>1, <1>2, <1>3, <1>5 DEF OwnPages, PageOf, TableOf
<1>8. StacksMapped' /\ CloneCopied'
  BY <1>1, <1>2 DEF StacksMapped, CloneCopied
<1> QED
  BY <1>6, <1>7, <1>8

LEMMA InitIso == Init => IsoInv
<1> SUFFICES ASSUME Init PROVE IsoInv
  OBVIOUS
<1>1. /\ pc = "start" /\ spaces = {} /\ clone.table = 0 /\ pageDirectory = 0
      /\ dirs = [p \in PageNo |-> ZeroDirectory]
      /\ tables = [p \in PageNo |-> ZeroTable]
      /\ Directories = {0}
  BY DEF Init, NoClone, Directories
<1>2. \A s \in Slots : dirs[0][s].table = 0
  BY <1>1, Ranges DEF ZeroDirectory, NullLink
<1>3. \A t \in PageNo, i \in Index : ~tables[t][i].present
  BY <1>1 DEF ZeroTable, NullPage
<1>4. \A v \in PageNo : ~PageOf(0, v).present
  BY <1>2, <1>3, SlotOfPage, Ranges DEF PageOf, TableOf
<1>5. KernelBelow
  BY <1>1, <1>2, <1>4 DEF KernelBelow, KernelPage
<1>6. OwnPages
  BY <1>1, <1>4 DEF OwnPages, Live
<1>7. StacksMapped /\ CloneCopied /\ RamBlank /\ NonNull
  BY <1>1 DEF StacksMapped, CloneCopied, RamBlank, NonNull, Init
<1>8. FrameZero
  BY <1>3 DEF FrameZero
<1> QED
  BY <1>5, <1>6, <1>7, <1>8 DEF IsoInv

LEMMA IsoStep ==
    ASSUME Freeable = {}, StackApart, MapInv, FramesLeft, IsoInv, [Next]_vars
    PROVE  IsoInv'
<1>1. /\ KernelBelow /\ OwnPages /\ StacksMapped /\ CloneCopied
      /\ RamBlank /\ NonNull /\ FrameZero
  BY DEF IsoInv
<1>2. RamBlank' /\ NonNull' /\ FrameZero'
  BY <1>1, RamBlankStep, NonNullStep, FrameZeroStep
<1>3. KernelBelow' /\ OwnPages' /\ StacksMapped' /\ CloneCopied'
  <2>1. CASE pc = "start"
    BY <1>1, <2>1, StartStep
  <2>2. CASE pc # "start"
    BY <1>1, <2>2, KernelBelowStep, OwnPagesStep, StacksMappedStep, CopiedStep
  <2> QED
    BY <2>1, <2>2
<1> QED
  BY <1>2, <1>3 DEF IsoInv

-----------------------------------------------------------------------------
(* Frames suffice.                                                         *)

BootFrames == Base + SlotNumber + 1 + HeapPages + Cardinality(Leftover)
StackSize == StackPages + 1

\* The pages of the stack that the clone has been given.
CopiedPages ==
    {v \in StackRange :
        \/ Slot(v) < clone.slot
        \/ clone.table # 0 /\ Slot(v) = clone.slot /\ Entry(v) < clone.page}

\* Every process has taken frames for its stack at most.
Counted ==
    /\ IsFiniteSet(spaces)
    /\ pc \in {"enable", "heapInit"} => Cardinality(frames) <= BootFrames
    /\ pc = "stack" => Cardinality(frames) <= BootFrames + (StackTop - cursor)
    /\ pc = "clone" =>
          /\ spaces = {} => Cardinality(frames) <= BootFrames
          /\ Cardinality(spaces) < MaxSpaces
          /\ Cardinality(frames) <=
                BootFrames + Cardinality(spaces) * StackSize + Cardinality(CopiedPages)
    /\ pc \in {"run", "halted"} =>
          Cardinality(frames) <= BootFrames + Cardinality(spaces) * StackSize

LEMMA Counts ==
    ASSUME TypeOK
    PROVE  /\ IsFiniteSet(frames) /\ Cardinality(frames) \in Nat
           /\ BootFrames \in Nat /\ StackSize \in Nat /\ MaxSpaces \in Nat
           /\ FrameNumber * WordBits \in Nat
           /\ IsFiniteSet(StackRange) /\ Cardinality(StackRange) = StackSize
           /\ IsFiniteSet(CopiedPages) /\ Cardinality(CopiedPages) \in Nat
           /\ Cardinality(CopiedPages) <= StackSize
<1>1. IsFiniteSet(frames) /\ Cardinality(frames) \in Nat
  BY BaseNat, FS_Subset, FS_CardinalityType DEF TypeOK
<1>2. /\ BootFrames \in Nat /\ StackSize \in Nat /\ MaxSpaces \in Nat
      /\ FrameNumber * WordBits \in Nat
  BY BaseNat, PagingAssumption DEF BootFrames, StackSize
<1>3. IsFiniteSet(StackRange) /\ Cardinality(StackRange) = StackSize
  <2>1. PICK a \in Int, b \in Int : a = StackTop - StackPages /\ b = StackTop
    BY PagingAssumption
  <2>2. /\ IsFiniteSet(a .. b)
        /\ Cardinality(a .. b) = IF a > b THEN 0 ELSE b - a + 1
    BY FS_Interval
  <2>3. ~(a > b) /\ b - a + 1 = StackSize
    BY <2>1, PagingAssumption DEF StackSize
  <2> QED
    BY <2>1, <2>2, <2>3 DEF StackRange
<1>4. CopiedPages \in SUBSET StackRange
  BY DEF CopiedPages
<1>5. /\ IsFiniteSet(CopiedPages) /\ Cardinality(CopiedPages) \in Nat
      /\ Cardinality(CopiedPages) <= StackSize
  BY <1>3, <1>4, FS_Subset, FS_CardinalityType
<1> QED
  BY <1>1, <1>2, <1>3, <1>5

LEMMA CountSuffices ==
    ASSUME ProcessesHaveFrames, MapInv, Counted
    PROVE  FramesLeft
<1> SUFFICES ASSUME pc \in {"stack", "clone"}, FreeFrames = {} PROVE FALSE
  BY DEF FramesLeft
<1>1. Cardinality(frames) = FrameNumber * WordBits
  <2>1. frames = Frames
    BY MapParts DEF FreeFrames, TypeOK
  <2> QED
    BY <2>1, BaseNat
<1>2. BootFrames + MaxSpaces * StackSize < FrameNumber * WordBits /\ MaxSpaces > 0
  BY PagingAssumption DEF ProcessesHaveFrames, BootFrames, StackSize
<1>3. Cardinality(spaces) \in Nat
  BY FS_CardinalityType DEF Counted
<1>4. TypeOK
  BY MapParts
<1>5. CASE pc = "stack"
  <2>1. StackTop - cursor <= StackSize
    BY <1>5, MapParts, PagingAssumption DEF Loops, StackSize
  <2>2. StackTop - cursor \in Int
    BY <1>4, PagingAssumption DEF TypeOK
  <2>3. StackSize <= MaxSpaces * StackSize
    BY <1>2, <1>4, Counts, SMT
  <2>4. Cardinality(frames) <= BootFrames + (StackTop - cursor)
    BY <1>5 DEF Counted
  <2>5. MaxSpaces * StackSize \in Nat
    BY <1>4, Counts
  <2> QED
    BY <1>1, <1>2, <1>4, <2>1, <2>2, <2>3, <2>4, <2>5, Counts
<1>6. CASE pc = "clone"
  <2>1. PICK n \in Nat, m \in Nat, z \in Nat, k \in Nat :
           n = Cardinality(spaces) /\ m = MaxSpaces /\ z = StackSize
              /\ k = Cardinality(CopiedPages)
    BY <1>3, <1>4, Counts
  <2>2. n < m /\ k <= z /\ Cardinality(frames) <= BootFrames + n * z + k
    BY <1>4, <1>6, <2>1, Counts DEF Counted
  <2>3. n * z + z <= m * z
    <3>1. n + 1 <= m
      BY <2>1, <2>2
    <3>2. (n + 1) * z <= m * z
      BY <3>1, SMT
    <3>3. (n + 1) * z = n * z + z
      BY SMT
    <3> QED
      BY <3>2, <3>3
  <2>4. n * z \in Nat /\ m * z \in Nat
    OBVIOUS
  <2> QED
    BY <1>1, <1>2, <1>4, <2>1, <2>2, <2>3, <2>4, Counts
<1> QED
  BY <1>5, <1>6

\* Every page of the address space is an entry of a slot, and every entry of a
\* slot a page.
LEMMA PageAt ==
    ASSUME NEW s \in Slots, NEW i \in Index
    PROVE  \E v \in PageNo : Slot(v) = s /\ Entry(v) = i
<1>1. PICK n \in Nat : n = TableSize /\ n > 0
  BY PagingAssumption
<1>2. PICK m \in Nat : m = SlotNumber
  BY PagingAssumption
<1>3. s \in 0 .. m - 1 /\ i \in 0 .. n - 1
  BY <1>1, <1>2 DEF Slots, Index
<1>4. PICK v \in Int : v = s * n + i
  BY <1>3
<1>5. v \div n = s /\ v % n = i
  <2>0. /\ v \div n \in Int /\ v % n \in 0 .. n - 1
        /\ v = n * (v \div n) + (v % n)
    BY <1>1, <1>4, SMT
  <2>1. PICK q \in Int, r \in 0 .. n - 1 : v = n * q + r /\ q = v \div n /\ r = v % n
    BY <2>0
  <2>2. n * (q - s) = i - r
    BY <1>1, <1>3, <1>4, <2>1, SMT
  <2>3. i - r < n /\ i - r > -n
    BY <1>1, <1>3, <2>1, SMT
  <2>4. ~(q - s >= 1)
    BY <1>1, <1>3, <2>1, <2>2, <2>3, SMT
  <2>5. ~(q - s <= -1)
    BY <1>1, <1>3, <2>1, <2>2, <2>3, SMT
  <2>6. q = s
    BY <1>3, <2>1, <2>4, <2>5, SMT
  <2> QED
    BY <1>3, <2>1, <2>2, <2>6, SMT
<1>6. v \in 0 .. m * n - 1
  <2>1. s * n >= 0
    BY <1>1, <1>3, SMT
  <2>2. s * n + n <= m * n
    <3>1. (s + 1) * n <= m * n
      BY <1>1, <1>2, <1>3, SMT
    <3>2. (s + 1) * n = s * n + n
      BY <1>1, <1>3, SMT
    <3> QED
      BY <3>1, <3>2
  <2>3. s * n \in Int /\ m * n \in Int
    BY <1>3
  <2> QED
    BY <1>1, <1>3, <1>4, <2>1, <2>2, <2>3
<1> QED
  BY <1>1, <1>2, <1>5, <1>6 DEF PageNo, Slot, Entry

\* A frame more makes the bitmap longer by one at most.
LEMMA FrameAdded ==
    ASSUME TypeOK, NEW f, frames' = frames \cup {f}
    PROVE  Cardinality(frames') <= Cardinality(frames) + 1
<1>1. PICK s : s = frames /\ IsFiniteSet(s)
  BY Counts
<1>2. Cardinality(s) \in Nat
  BY <1>1, FS_CardinalityType
<1>3. Cardinality(s \cup {f}) = IF f \in s THEN Cardinality(s) ELSE Cardinality(s) + 1
  BY <1>1, FS_AddElement
<1> QED
  BY <1>1, <1>2, <1>3

\* Who takes frames once paging is being enabled.
LEMMA FrameTaken ==
    ASSUME [Next]_vars, pc \notin {"start", "tables", "low", "heap"}
    PROVE  \/ UNCHANGED frames
           \/ MapStackPage /\ \E f \in Frames : frames' = frames \cup {f}
           \/ ClonePage /\ \E f \in Frames : frames' = frames \cup {f}
<1> USE DEF boot, structure, processor
<1>1. CASE MapStackPage
  <2>1. \/ UNCHANGED frames
        \/ \E f \in Frames : frames' = frames \cup {f}
    BY <1>1 DEF MapStackPage, AllocFrame, Busy
  <2> QED
    BY <1>1, <2>1
<1>2. CASE ClonePage
  BY <1>2 DEF ClonePage, Busy
<1>3. CASE UNCHANGED vars
  BY <1>3 DEF vars
<1>4. CASE Boot /\ ~MapStackPage
  BY <1>4 DEF Boot, AllocateBitmap, MakeHeapTables, HeapTablesMade, MakeLowTable,
     MapLowPage, LowPagesMapped, MapHeapPage, HeapPagesMapped, EnablePaging,
     CloneFirstDirectory, NewDirectory, FirstDirectoryCloned, Cloned,
     MakeStackTable, MakeTable, StackMapped
<1>5. CASE Clone /\ ~ClonePage
  BY <1>5 DEF Clone, SkipSlot, LinkTable, CloneTable, LinkClone, SkipPage,
     ClonePageWithoutFrame
<1>6. CASE \/ Fork \/ Forked \/ (\E d \in spaces : Switch(d))
           \/ (\E v \in DataPages, x \in Values : Store(v, x))
           \/ (\E v \in DataPages : PageFault(v))
           \/ (\E v \in Freeable : FreeFrame(v))
  BY <1>6 DEF Fork, NewDirectory, Forked, Switch, Store, PageFault, FreeFrame
<1> QED
  BY <1>1, <1>2, <1>3, <1>4, <1>5, <1>6 DEF Next

\* The clone goes on: no page it has is taken from it, and a frame is taken
\* for a page of the stack it has not had.
LEMMA CopiedGrow ==
    ASSUME MapInv, Clone
    PROVE  CopiedPages \subseteq CopiedPages'
<1>0. clone \in CloneLocals /\ StackRange \subseteq PageNo
  BY MapParts, StackPagesInRange
<1>1. \/ clone' = [clone EXCEPT !.slot = @ + 1, !.table = 0]
      \/ /\ clone.table = 0
         /\ \E b, f : clone' = [clone EXCEPT !.table = b, !.phys = f, !.page = 0]
      \/ clone' = [clone EXCEPT !.page = @ + 1]
  BY DEF Clone, SkipSlot, LinkTable, CloneTable, LinkClone, SkipPage, ClonePage,
     ClonePageWithoutFrame, CopyInto, NextSlot, NextPage, InLoop
<1>2. clone.slot \in Int /\ clone.page \in Int
  BY <1>0 DEF CloneLocals
<1>3. \A v \in StackRange : Slot(v) \in Int /\ Entry(v) \in Int
  BY <1>0, SlotOfPage DEF Slots, Index
<1> SUFFICES ASSUME NEW v \in CopiedPages PROVE v \in CopiedPages'
  OBVIOUS
<1>4. PICK s \in Int, i \in Int : s = Slot(v) /\ i = Entry(v)
  BY <1>3 DEF CopiedPages
<1>5. \/ s < clone.slot
      \/ clone.table # 0 /\ s = clone.slot /\ i < clone.page
  BY <1>4 DEF CopiedPages
<1>6. \/ s < clone'.slot
      \/ clone'.table # 0 /\ s = clone'.slot /\ i < clone'.page
  <2>1. CASE clone' = [clone EXCEPT !.slot = @ + 1, !.table = 0]
    <3>1. clone'.slot = clone.slot + 1
      BY <1>0, <2>1 DEF CloneLocals
    <3> QED
      BY <1>2, <1>4, <1>5, <3>1
  <2>2. ASSUME clone.table = 0, NEW b, NEW f,
               clone' = [clone EXCEPT !.table = b, !.phys = f, !.page = 0]
        PROVE  s < clone'.slot
    <3>1. clone'.slot = clone.slot
      BY <1>0, <2>2 DEF CloneLocals
    <3> QED
      BY <1>5, <2>2, <3>1
  <2>3. CASE clone' = [clone EXCEPT !.page = @ + 1]
    <3>1. /\ clone'.slot = clone.slot /\ clone'.table = clone.table
          /\ clone'.page = clone.page + 1
      BY <1>0, <2>3 DEF CloneLocals
    <3> QED
      BY <1>2, <1>4, <1>5, <3>1
  <2> QED
    BY <1>1, <2>1, <2>2, <2>3
<1> QED
  BY <1>4, <1>6 DEF CopiedPages, StackRange

LEMMA PageCopied ==
    ASSUME MapInv, OwnPages, ClonePage
    PROVE  /\ spaces # {}
           /\ \E v \in StackRange : v \notin CopiedPages /\ v \in CopiedPages'
<1>1. /\ pc = "clone" /\ clone.table # 0 /\ clone.page < TableSize
      /\ SourcePage.frame # 0 /\ clone' = [clone EXCEPT !.page = @ + 1]
  BY DEF ClonePage, InTable, CopyInto, NextPage
<1>2. /\ clone \in CloneLocals /\ clone.slot \in Slots /\ clone.page \in Index
  <2>1. clone \in CloneLocals /\ clone.slot < SlotNumber
    BY <1>1, MapParts DEF CloneInDirectory
  <2> QED
    BY <1>1, <2>1, PagingAssumption, SMT DEF CloneLocals, Slots, Index
<1>3. SourceLink.table # 0
  <2>1. SUFFICES ASSUME SourceLink.table = 0 PROVE FALSE
    OBVIOUS
  <2>2. SourcePage = NullPage
    BY <1>2, <2>1, MapParts DEF SourcePage, Fresh, ZeroTable
  <2> QED
    BY <1>1, <2>2 DEF NullPage
<1>4. dirs[pageDirectory][clone.slot].table = 0
  BY <1>1, MapParts DEF SInv, Unlinked
<1>5. spaces # {}
  BY <1>1, <1>3, <1>4, MapParts DEF SInv, Phases, SourceLink
<1>6. PICK v \in PageNo : Slot(v) = clone.slot /\ Entry(v) = clone.page
  BY <1>2, PageAt
<1>7. PICK d \in Live : d = currentPageDirectory
  BY DEF Live, Directories
<1>8. PageOf(d, v) = SourcePage /\ TableOf(d, v) = SourceLink.table
  BY <1>6, <1>7 DEF PageOf, TableOf, SourcePage, SourceLink
<1>9. PageOf(d, v).present
  <2>1. SourceLink.table \in PageNo
    BY <1>2, MapParts DEF TypeOK, Link, SourceLink
  <2> QED
    BY <1>1, <1>2, <1>8, <2>1, MapParts DEF MappedPresent, SourcePage
<1>10. v \in StackRange
  <2>1. TableOf(pageDirectory, v) = 0
    BY <1>4, <1>6 DEF TableOf
  <2> QED
    BY <1>3, <1>8, <1>9, <2>1 DEF OwnPages
<1>11. v \notin CopiedPages
  BY <1>2, <1>6, SMT DEF CopiedPages, CloneLocals, Slots, Index
<1>12. v \in CopiedPages'
  <2>1. clone'.slot = clone.slot /\ clone'.table # 0 /\ clone'.page = clone.page + 1
    BY <1>1, <1>2 DEF CloneLocals
  <2>2. Slot(v) = clone'.slot /\ Entry(v) < clone'.page
    BY <1>2, <1>6, <2>1 DEF Index
  <2> QED
    BY <1>10, <2>1, <2>2 DEF CopiedPages, StackRange
<1> QED
  BY <1>5, <1>10, <1>11, <1>12

LEMMA CopiedNat ==
    (TypeOK => IsFiniteSet(CopiedPages) /\ Cardinality(CopiedPages) \in Nat)'
<1>1. TypeOK => IsFiniteSet(CopiedPages) /\ Cardinality(CopiedPages) \in Nat
  BY Counts
<1> QED
  BY <1>1, PTL

\* What the processes need, booting needs too.
LEMMA BootHas == ProcessesHaveFrames => BootHasFrames
<1>1. /\ MaxSpaces \in Nat /\ StackPages + 1 \in Nat
      /\ MaxSpaces * (StackPages + 1) \in Nat
  BY PagingAssumption
<1>2. /\ Base \in Nat /\ SlotNumber \in Nat /\ HeapPages \in Nat
      /\ Cardinality(Leftover) \in Nat /\ FrameNumber * WordBits \in Nat
  BY BaseNat, PagingAssumption
<1> QED
  BY <1>1, <1>2 DEF ProcessesHaveFrames, BootHasFrames

LEMMA BootCounted ==
    ASSUME ProcessesHaveFrames, MapInv, BootInv, Counted, TypeOK',
           HeapPagesMapped \/ EnablePaging \/ CloneFirstDirectory
              \/ FirstDirectoryCloned
    PROVE  Counted'
<1> USE DEF boot, structure, processor
<1>0. /\ Cardinality(frames) \in Nat /\ IsFiniteSet(spaces)
      /\ BootFrames \in Nat /\ StackSize \in Nat
  BY MapParts, Counts DEF Counted
<1>1. CASE HeapPagesMapped
  <2>1. /\ pc = "heap" /\ pc' = "enable" /\ UNCHANGED <<frames, spaces>>
        /\ cursor = HeapStart + HeapPages
    BY <1>1 DEF HeapPagesMapped
  <2>2. PICK a \in Nat : a = AlignUp(placement) /\ a <= Base + SlotNumber
    BY <2>1, AlignUpNat, MapParts DEF TypeOK, BootInv, Placed
  <2>3. cursor - HeapStart = HeapPages /\ HeapPages \in Nat /\ SlotNumber \in Nat
    BY <2>1, PagingAssumption
  <2>4. Cardinality(frames) <= a + 1 + Cardinality(Leftover) + (cursor - HeapStart)
    BY <2>1, <2>2 DEF BootInv, HeapFrames
  <2>5. Cardinality(frames) <= BootFrames
    BY <1>0, <2>2, <2>3, <2>4, BaseNat DEF BootFrames
  <2> QED
    BY <1>0, <2>1, <2>5 DEF Counted
<1>2. CASE EnablePaging
  <2>1. pc = "enable" /\ pc' = "heapInit" /\ UNCHANGED <<frames, spaces>>
    BY <1>2 DEF EnablePaging
  <2> QED
    BY <2>1 DEF Counted
<1>3. CASE CloneFirstDirectory
  <2>1. pc = "heapInit" /\ pc' = "clone" /\ UNCHANGED <<frames, spaces>>
    BY <1>3 DEF CloneFirstDirectory, NewDirectory
  <2>2. spaces = {}
    BY <2>1, MapParts DEF SInv, Phases, Booting
  <2>3. Cardinality(spaces) = 0
    BY <2>2, FS_EmptySet
  <2>4. PICK k \in Nat : k = Cardinality(CopiedPages')
    BY CopiedNat
  <2>5. MaxSpaces > 0
    BY DEF ProcessesHaveFrames
  <2>6. Cardinality(frames) <= BootFrames
    BY <2>1 DEF Counted
  <2>7. Cardinality(frames) <= BootFrames + 0 * StackSize + k
    BY <1>0, <2>6
  <2> QED
    BY <1>0, <2>1, <2>3, <2>4, <2>5, <2>6, <2>7 DEF Counted
<1>4. CASE FirstDirectoryCloned
  <2>1. /\ pc = "clone" /\ pc' = "stack" /\ UNCHANGED <<frames, spaces>>
        /\ spaces = {} /\ cursor' = StackTop
    BY <1>4 DEF FirstDirectoryCloned, Cloned
  <2>2. Cardinality(frames) <= BootFrames + (StackTop - StackTop)
    BY <1>0, <2>1, PagingAssumption DEF Counted
  <2> QED
    BY <1>0, <2>1, <2>2 DEF Counted
<1> QED
  BY <1>1, <1>2, <1>3, <1>4

LEMMA StackCounted ==
    ASSUME MapInv, Counted, MakeStackTable \/ MapStackPage \/ StackMapped
    PROVE  Counted'
<1> USE DEF boot, structure, processor
<1>0. /\ Cardinality(frames) \in Nat /\ IsFiniteSet(spaces)
      /\ BootFrames \in Nat /\ StackSize \in Nat /\ StackTop \in Int
      /\ cursor \in Int
  BY MapParts, Counts, PagingAssumption DEF Counted, TypeOK
<1>1. pc = "stack" /\ Cardinality(frames) <= BootFrames + (StackTop - cursor)
  BY DEF Counted, MakeStackTable, MapStackPage, StackMapped
<1>2. CASE MakeStackTable
  <2>1. pc' = pc /\ UNCHANGED <<frames, spaces, cursor>>
    BY <1>2 DEF MakeStackTable, MakeTable
  <2> QED
    BY <1>1, <2>1 DEF Counted
<1>3. CASE MapStackPage
  <2>1. pc' = pc /\ UNCHANGED spaces /\ cursor' = cursor - 1
    BY <1>3 DEF MapStackPage
  <2>2. Cardinality(frames') <= Cardinality(frames) + 1
    <3>1. UNCHANGED frames \/ \E f \in Frames : frames' = frames \cup {f}
      BY <1>1, <1>3, FrameTaken DEF Next, Boot
    <3>2. CASE UNCHANGED frames
      BY <1>0, <3>2
    <3>3. ASSUME NEW f \in Frames, frames' = frames \cup {f}
          PROVE  Cardinality(frames') <= Cardinality(frames) + 1
      BY <3>3, MapParts, FrameAdded
    <3> QED
      BY <3>1, <3>2, <3>3
  <2>3. PICK n : n = Cardinality(frames')
    OBVIOUS
  <2>4. n \in Nat
    <3>1. frames' \subseteq Frames
      BY <1>1, <1>3, FrameTaken, MapParts DEF Next, Boot, TypeOK
    <3> QED
      BY <2>3, <3>1, BaseNat, FS_Subset, FS_CardinalityType
  <2>5. n <= BootFrames + (StackTop - (cursor - 1))
    BY <1>0, <1>1, <2>2, <2>3, <2>4
  <2> QED
    BY <1>0, <1>1, <2>1, <2>3, <2>5 DEF Counted
<1>4. CASE StackMapped
  <2>1. /\ pc' = "run" /\ UNCHANGED frames /\ spaces' = {currentPageDirectory}
        /\ cursor < StackTop - StackPages
    BY <1>4 DEF StackMapped
  <2>2. StackTop - cursor = StackSize
    BY <1>0, <1>1, <2>1, MapParts, PagingAssumption DEF Loops, StackSize
  <2>3. IsFiniteSet(spaces') /\ Cardinality(spaces') = 1
    BY <2>1, FS_Singleton
  <2>4. Cardinality(frames) <= BootFrames + 1 * StackSize
    BY <1>0, <1>1, <2>2
  <2> QED
    BY <2>1, <2>3, <2>4 DEF Counted
<1> QED
  BY <1>2, <1>3, <1>4

LEMMA CloneCounted ==
    ASSUME MapInv, OwnPages, Counted, TypeOK', Clone
    PROVE  Counted'
<1> USE DEF boot, structure, processor
<1>1. /\ pc = "clone" /\ pc' = "clone" /\ spaces' = spaces
      /\ ~ClonePage => frames' = frames
  BY DEF Clone, SkipSlot, LinkTable, CloneTable, LinkClone, SkipPage, ClonePage,
     ClonePageWithoutFrame, CopyInto, InLoop, InTable
<1>2. PICK n \in Nat, c \in Nat, k \in Nat, b \in Nat, z \in Nat :
         /\ n = Cardinality(frames) /\ c = Cardinality(spaces)
         /\ k = Cardinality(CopiedPages) /\ b = BootFrames /\ z = StackSize
  BY MapParts, Counts, FS_CardinalityType DEF Counted
<1>3. IsFiniteSet(spaces) /\ c < MaxSpaces /\ n <= b + c * z + k
      /\ (spaces = {} => n <= b)
  BY <1>1, <1>2 DEF Counted
<1>4. CopiedPages \subseteq CopiedPages'
  BY CopiedGrow
<1>5. PICK s : s = CopiedPages' /\ IsFiniteSet(s)
  BY CopiedNat
<1>6. PICK m \in Nat : m = Cardinality(s) /\ k <= m
  BY <1>2, <1>4, <1>5, FS_Subset, FS_CardinalityType
<1>7. CASE ~ClonePage
  <2>1. n <= b + c * z + m /\ frames' = frames
    <3>1. c * z \in Int
      BY <1>2
    <3> QED
      BY <1>1, <1>2, <1>3, <1>6, <1>7, <3>1
  <2> QED
    BY <1>1, <1>2, <1>3, <1>5, <1>6, <2>1 DEF Counted
<1>8. CASE ClonePage
  <2>1. spaces # {}
    BY <1>8, PageCopied
  <2>2. PICK v : v \in s /\ v \notin CopiedPages
    BY <1>5, <1>8, PageCopied
  <2>3. k + 1 <= m
    <3>1. PICK t : t = CopiedPages /\ IsFiniteSet(t)
      BY Counts, MapParts
    <3>2. Cardinality(t \cup {v}) = k + 1
      <4>1. Cardinality(t \cup {v}) = IF v \in t THEN Cardinality(t) ELSE Cardinality(t) + 1
        BY <3>1, FS_AddElement
      <4> QED
        BY <1>2, <2>2, <3>1, <4>1
    <3>3. t \cup {v} \in SUBSET s
      BY <1>4, <1>5, <2>2, <3>1
    <3> QED
      BY <1>5, <1>6, <3>2, <3>3, FS_Subset
  <2>4. PICK w : w = Cardinality(frames')
    OBVIOUS
  <2>5. w \in Nat /\ w <= n + 1
    <3>1. PICK f \in Frames : frames' = frames \cup {f}
      BY <1>8 DEF ClonePage, Busy
    <3>2. frames' \subseteq Frames
      BY <3>1, MapParts DEF TypeOK
    <3> QED
      BY <1>2, <2>4, <3>1, <3>2, MapParts, FrameAdded, BaseNat, FS_Subset,
         FS_CardinalityType
  <2>6. w <= b + c * z + m
    <3>1. c * z \in Int
      BY <1>2
    <3> QED
      BY <1>2, <1>3, <1>6, <2>3, <2>5, <3>1
  <2> QED
    BY <1>1, <1>2, <1>3, <1>5, <1>6, <2>1, <2>4, <2>6 DEF Counted
<1> QED
  BY <1>7, <1>8

LEMMA ForkCounted ==
    ASSUME MapInv, Counted, TypeOK', Fork \/ Forked
    PROVE  Counted'
<1> USE DEF boot, structure, processor
<1>1. PICK n \in Nat, c \in Nat, b \in Nat, z \in Nat :
         /\ n = Cardinality(frames) /\ c = Cardinality(spaces)
         /\ b = BootFrames /\ z = StackSize
  BY MapParts, Counts, FS_CardinalityType DEF Counted
<1>2. c * z \in Int /\ IsFiniteSet(spaces)
  BY <1>1 DEF Counted
<1>3. CASE Fork
  <2>1. /\ pc = "run" /\ pc' = "clone" /\ UNCHANGED <<frames, spaces>>
        /\ c < MaxSpaces
    BY <1>1, <1>3 DEF Fork, NewDirectory
  <2>2. spaces # {}
    BY <2>1, MapParts DEF SInv, Phases
  <2>3. PICK k \in Nat : k = Cardinality(CopiedPages')
    BY CopiedNat
  <2>4. n <= b + c * z
    BY <1>1, <2>1 DEF Counted
  <2>5. n <= b + c * z + k
    BY <1>1, <1>2, <2>3, <2>4
  <2> QED
    BY <1>1, <1>2, <2>1, <2>2, <2>3, <2>5 DEF Counted
<1>4. CASE Forked
  <2>1. /\ pc = "clone" /\ pc' = "run" /\ UNCHANGED frames
        /\ spaces' = spaces \cup {clone.dir}
    BY <1>4 DEF Forked, Cloned
  <2>2. clone.dir \notin spaces
    BY <2>1, MapParts DEF SInv, Phases, Directories
  <2>3. PICK s, d : s = spaces /\ d = clone.dir
    OBVIOUS
  <2>4. /\ IsFiniteSet(s \cup {d})
        /\ Cardinality(s \cup {d}) = IF d \in s THEN Cardinality(s) ELSE Cardinality(s) + 1
    BY <1>2, <2>3, FS_AddElement
  <2>5. IsFiniteSet(spaces') /\ Cardinality(spaces') = c + 1
    BY <1>1, <2>1, <2>2, <2>3, <2>4
  <2>6. PICK k \in Nat : k = Cardinality(CopiedPages) /\ k <= z
    BY <1>1, MapParts, Counts
  <2>7. n <= b + c * z + k
    BY <1>1, <2>1, <2>6 DEF Counted
  <2>8. (c + 1) * z = c * z + z
    BY <1>1, SMT
  <2>9. n <= b + (c + 1) * z
    BY <1>1, <1>2, <2>6, <2>7, <2>8
  <2> QED
    BY <1>1, <2>1, <2>5, <2>9 DEF Counted
<1> QED
  BY <1>3, <1>4

LEMMA CountedStep ==
    ASSUME ProcessesHaveFrames, MapInv, BootInv, OwnPages, Counted, [Next]_vars
    PROVE  Counted'
<1> USE DEF boot, structure, processor
<1>0. TypeOK'
  BY TypeStep, MapParts
<1>1. CASE \/ AllocateBitmap \/ MakeHeapTables \/ HeapTablesMade \/ MakeLowTable
           \/ MapLowPage \/ LowPagesMapped \/ MapHeapPage
  <2>1. pc' \in {"tables", "low", "heap"} /\ UNCHANGED spaces
    BY <1>1 DEF AllocateBitmap, MakeHeapTables, HeapTablesMade, MakeLowTable,
       MapLowPage, LowPagesMapped, MapHeapPage
  <2> QED
    BY <2>1 DEF Counted
<1>2. CASE \/ HeapPagesMapped \/ EnablePaging \/ CloneFirstDirectory
           \/ FirstDirectoryCloned
  BY <1>0, <1>2, BootCounted
<1>3. CASE MakeStackTable \/ MapStackPage \/ StackMapped
  BY <1>3, StackCounted
<1>4. CASE Clone
  BY <1>0, <1>4, CloneCounted
<1>5. CASE Fork \/ Forked
  BY <1>0, <1>5, ForkCounted
<1>6. CASE \/ (\E d \in spaces : Switch(d))
           \/ (\E v \in DataPages, x \in Values : Store(v, x))
           \/ (\E v \in DataPages : PageFault(v))
           \/ (\E v \in Freeable : FreeFrame(v))
  <2>1. /\ pc = "run" /\ pc' \in {"run", "halted"} /\ UNCHANGED <<frames, spaces>>
    BY <1>6 DEF Switch, Store, PageFault, FreeFrame
  <2> QED
    BY <2>1 DEF Counted
<1>7. CASE UNCHANGED vars
  BY <1>7 DEF vars, Counted, CopiedPages
<1> QED
  BY <1>1, <1>2, <1>3, <1>4, <1>5, <1>6, <1>7 DEF Next, Boot

LEMMA InitCounted == Init => Counted
BY FS_EmptySet DEF Init, Counted

\* The bits the scan goes over suffice: while processes number MaxSpaces at
\* most, allocFrame finds a frame for every page of a stack it is called for.
THEOREM FramesSuffice ==
    ASSUME Freeable = {}, StackApart, MainMemoryHolds, ProcessesHaveFrames
    PROVE  Spec => []IsoInv /\ []FramesLeft
<1>1. BootHasFrames
  BY BootHas
<1>2. MapInv /\ BootInv /\ IsoInv /\ Counted /\ [Next]_vars => IsoInv' /\ Counted'
  <2>1. MapInv /\ Counted => FramesLeft
    BY CountSuffices
  <2>2. IsoInv => OwnPages
    BY DEF IsoInv
  <2> QED
    BY <2>1, <2>2, IsoStep, CountedStep
<1>3. MapInv /\ Counted => FramesLeft
  BY CountSuffices
<1> QED
  BY <1>1, <1>2, <1>3, InitIso, InitCounted, MapInvariant, BootInvariant, PTL
     DEF Spec

-----------------------------------------------------------------------------
(* The refinement.                                                         *)

\* What the processes see, as PagingProperties gives it to AddressSpaces.
SharedMemory ==
    [v \in SharedPages |-> IF Started /\ PageOf(pageDirectory, v).present
                           THEN ram[Backing(v)] ELSE Blank]
PrivateMemory ==
    [d \in spaces |-> [v \in PrivatePages |-> ram[PageOf(d, v).frame]]]
Current == IF Started THEN currentPageDirectory ELSE 0

SpaceVars == <<SharedMemory, PrivateMemory, Current>>

LEMMA DataInRange ==
    /\ SharedPages \subseteq PageNo /\ PrivatePages \subseteq PageNo
    /\ SharedPages \subseteq DataPages /\ PrivatePages = DataPages \cap StackRange
BY PagingAssumption DEF SharedPages, PrivatePages

\* The kernel maps no more pages once a process runs.
LEMMA KernelPageSettled ==
    ASSUME Freeable = {}, MapInv, [Next]_vars, Started, NEW v \in PageNo
    PROVE  KernelPage(v)'.present <=> KernelPage(v).present
<1>1. PICK k \in Live : k = pageDirectory
  BY DEF Live, Directories
<1>2. pc # "start"
  BY MapParts DEF Started, Phases, Booting
<1>3. pageDirectory' = k
  BY <1>1, <1>2, LiveStep
<1>4. KernelPage(v)' = PageOf(k, v)' /\ KernelPage(v) = PageOf(k, v)
  BY <1>1, <1>3 DEF KernelPage, PageOf, TableOf
<1>5. PageOf(k, v).present => PageOf(k, v)'.present
  <2>1. ASSUME PageOf(k, v).present
        PROVE  PageOf(k, v)' = PageOf(k, v)
    BY <2>1, LivePageStays
  <2> QED
    BY <2>1
<1>6. ASSUME PageOf(k, v)'.present, ~PageOf(k, v).present
      PROVE  FALSE
  <2>1. ~CloneLinked(k, Slot(v))
    BY <1>1, MapParts
       DEF CloneLinked, LinkTable, LinkClone, InLoop, Phases, Directories
  <2>2. PICK e : InMapping(e, TableOf(k, v), Entry(v))
    BY <1>2, <1>6, <2>1, PageAppears
  <2>3. pc \in {"low", "heap", "stack"}
    BY <2>2 DEF InMapping, MapLowPage, MapHeapPage, MapStackPage
  <2> QED
    BY <2>3, MapParts DEF Phases, Booting, Started
<1> QED
  BY <1>4, <1>5, <1>6

\* The frame of a stack's page.
LEMMA StackFrame ==
    ASSUME MapInv, IsoInv, NEW d \in spaces, NEW v \in StackRange
    PROVE  /\ d \in PageNo /\ d \in Live /\ v \in PageNo
           /\ TableOf(d, v) \in PageNo /\ Entry(v) \in Index /\ TableOf(d, v) # 0
           /\ PageOf(d, v).frame # 0 /\ PageOf(d, v).frame \in frames
           /\ PageOf(d, v).frame \in Frames
<1>1. d \in PageNo /\ d \in Live /\ v \in PageNo
  BY StackPagesInRange, MapParts DEF Live, Directories
<1>2. TableOf(d, v) \in PageNo /\ Entry(v) \in Index
  BY <1>1, SlotOfPage, MapParts DEF TypeOK, TableOf, Link
<1>3. PageOf(d, v).frame # 0
  BY DEF IsoInv, StacksMapped
<1>4. TableOf(d, v) # 0
  BY <1>1, <1>3, NoTable, MapParts DEF NullPage
<1>5. PageOf(d, v).frame \in frames
  BY <1>2, <1>3, MapParts, FrameHeld DEF PageOf
<1>6. frames \subseteq Frames
  BY MapParts DEF TypeOK
<1> QED
  BY <1>1, <1>2, <1>3, <1>4, <1>5, <1>6

\* The frame of a page of the kernel.
LEMMA KernelFrame ==
    ASSUME MapInv, NEW v \in PageNo, KernelPage(v).present
    PROVE  /\ TableOf(pageDirectory, v) \in PageNo /\ Entry(v) \in Index
           /\ TableOf(pageDirectory, v) # 0
           /\ KernelPage(v).frame \in frames /\ KernelPage(v).frame \in Frames
<1>1. TableOf(pageDirectory, v) \in PageNo /\ Entry(v) \in Index
  BY SlotOfPage, MapParts DEF TypeOK, TableOf, Link
<1>2. TableOf(pageDirectory, v) # 0
  BY NoTable, MapParts DEF NullPage, KernelPage
<1>3. KernelPage(v).frame # 0 => KernelPage(v).frame \in frames
  BY <1>1, MapParts, FrameHeld DEF PageOf, KernelPage
<1>4. 0 \in frames
  <2>1. ASSUME Unmapped PROVE FALSE
    <3>1. tables[TableOf(pageDirectory, v)] = ZeroTable
      BY <1>1, <2>1, MapParts DEF Frameless
    <3> QED
      BY <1>1, <3>1 DEF KernelPage, PageOf, ZeroTable, NullPage
  <2> QED
    BY <2>1, MapParts DEF Frameless
<1>5. frames \subseteq Frames
  BY MapParts DEF TypeOK
<1> QED
  BY <1>1, <1>2, <1>3, <1>4, <1>5

\* Processes see no change while memory in use does not change.
LEMMA MemoryUnseen ==
    ASSUME Freeable = {}, MapInv, IsoInv, [Next]_vars, spaces' = spaces,
           \A f \in frames : ram'[f] = ram[f]
    PROVE  SharedMemory' = SharedMemory /\ PrivateMemory' = PrivateMemory
<1>1. ASSUME NEW v \in SharedPages, Started
      PROVE  /\ KernelPage(v)'.present <=> KernelPage(v).present
             /\ KernelPage(v).present => ram'[KernelPage(v)'.frame] = ram[KernelPage(v).frame]
  <2>1. v \in PageNo /\ pc # "start"
    BY <1>1, DataInRange, MapParts DEF Started, Phases, Booting
  <2>2. KernelPage(v).present => KernelPage(v)' = KernelPage(v)
    BY <2>1, KernelPageKept
  <2>3. KernelPage(v).present => KernelPage(v).frame \in frames
    BY <2>1, KernelFrame
  <2> QED
    BY <1>1, <2>1, <2>2, <2>3, KernelPageSettled
<1>2. Started' <=> Started
  BY DEF Started
<1>3. SharedMemory' = [v \in SharedPages |->
                         IF Started' /\ KernelPage(v)'.present
                         THEN ram'[KernelPage(v)'.frame] ELSE Blank]
  BY DEF SharedMemory, Backing, KernelPage
<1>4. SharedMemory = [v \in SharedPages |->
                        IF Started /\ KernelPage(v).present
                        THEN ram[KernelPage(v).frame] ELSE Blank]
  BY DEF SharedMemory, Backing, KernelPage
<1>5. SharedMemory' = SharedMemory
  BY <1>1, <1>2, <1>3, <1>4
<1>6. ASSUME NEW d \in spaces, NEW v \in PrivatePages
      PROVE  ram'[PageOf(d, v)'.frame] = ram[PageOf(d, v).frame]
  <2>1. v \in StackRange
    BY DataInRange
  <2>2. /\ d \in Live /\ v \in PageNo /\ PageOf(d, v).frame # 0
        /\ PageOf(d, v).frame \in frames
    BY <2>1, StackFrame
  <2>3. PageOf(d, v)' = PageOf(d, v)
    BY <2>2, FrameStays
  <2> QED
    BY <2>2, <2>3
<1>7. PrivateMemory' = [d \in spaces |-> [v \in PrivatePages |-> ram'[PageOf(d, v)'.frame]]]
  BY DEF PrivateMemory
<1>8. PrivateMemory' = PrivateMemory
  BY <1>6, <1>7 DEF PrivateMemory
<1> QED
  BY <1>5, <1>8

\* What processes see has frames of the machine, after a step too.
LEMMA FramesInRange ==
    (MapInv /\ IsoInv =>
        /\ \A d \in spaces, v \in StackRange : PageOf(d, v).frame \in Frames
        /\ \A v \in PageNo : KernelPage(v).present => KernelPage(v).frame \in Frames)'
<1>1. MapInv /\ IsoInv =>
         /\ \A d \in spaces, v \in StackRange : PageOf(d, v).frame \in Frames
         /\ \A v \in PageNo : KernelPage(v).present => KernelPage(v).frame \in Frames
  BY StackFrame, KernelFrame
<1> QED
  BY <1>1, PTL

\* The first process starts.
LEMMA StartImplements ==
    ASSUME Freeable = {}, MapInv, IsoInv, IsoInv', MapInv', [Next]_vars, StackMapped
    PROVE  \E d \in PageNo :
              /\ PrivateMemory' = [e \in {d} |-> [v \in PrivatePages |-> Blank]]
              /\ DOMAIN PrivateMemory = {} /\ Current' = d
              /\ SharedMemory' = SharedMemory
<1>1. PICK d \in PageNo : d = currentPageDirectory
  BY MapParts
<1>2. spaces = {} /\ ram = [f \in Frames |-> Blank]
  BY MapParts DEF StackMapped, Phases, IsoInv, RamBlank
<1>3. spaces' = {d} /\ ram' = ram /\ currentPageDirectory' = d
  BY <1>1 DEF StackMapped, processor
<1>4. Current' = d
  BY <1>3 DEF Current, Started
<1>5. ASSUME NEW v \in PrivatePages
      PROVE  ram'[PageOf(d, v)'.frame] = Blank
  <2>1. v \in StackRange /\ d \in spaces'
    BY <1>3, DataInRange
  <2>2. PageOf(d, v)'.frame \in Frames
    BY <2>1, FramesInRange
  <2> QED
    BY <1>2, <1>3, <2>2
<1>6. PrivateMemory' = [e \in spaces' |-> [v \in PrivatePages |-> ram'[PageOf(e, v)'.frame]]]
  BY DEF PrivateMemory
<1>7. PrivateMemory' = [e \in {d} |-> [v \in PrivatePages |-> Blank]]
  BY <1>3, <1>5, <1>6
<1>8. SharedMemory = [v \in SharedPages |-> Blank]
  BY <1>2 DEF SharedMemory, Started
<1>9. ASSUME NEW v \in SharedPages, KernelPage(v)'.present
      PROVE  ram'[KernelPage(v)'.frame] = Blank
  <2>1. KernelPage(v)'.frame \in Frames
    BY <1>9, DataInRange, FramesInRange
  <2> QED
    BY <1>2, <1>3, <2>1
<1>10. SharedMemory' = [v \in SharedPages |->
                          IF Started' /\ KernelPage(v)'.present
                          THEN ram'[KernelPage(v)'.frame] ELSE Blank]
  BY DEF SharedMemory, Backing, KernelPage
<1>11. SharedMemory' = SharedMemory
  BY <1>8, <1>9, <1>10
<1>12. DOMAIN PrivateMemory = {}
  BY <1>2 DEF PrivateMemory
<1> QED
  BY <1>4, <1>7, <1>11, <1>12

\* fork copies the current space.
LEMMA ForkImplements ==
    ASSUME Freeable = {}, MapInv, IsoInv, [Next]_vars, Forked
    PROVE  \E d \in PageNo :
              /\ Current # 0 /\ d \notin DOMAIN PrivateMemory
              /\ PrivateMemory' = [e \in DOMAIN PrivateMemory \cup {d} |->
                                     PrivateMemory[IF e = d THEN Current ELSE e]]
              /\ SharedMemory' = SharedMemory /\ Current' = Current
<1>1. PICK d \in PageNo : d = clone.dir
  BY MapParts DEF CloneLocals
<1>2. /\ pc = "clone" /\ clone.slot = SlotNumber /\ spaces # {}
      /\ spaces' = spaces \cup {d} /\ ram' = ram
      /\ currentPageDirectory' = currentPageDirectory
      /\ pageDirectory' = pageDirectory /\ tables' = tables /\ dirs' = dirs
  BY <1>1 DEF Forked, Cloned, processor, structure
<1>3. PICK c \in spaces : c = currentPageDirectory
  BY <1>2, MapParts DEF Phases
<1>4. d \notin spaces /\ c # d
  BY <1>1, <1>2, <1>3, MapParts DEF Phases, Directories
<1>5. Current = c /\ Current' = c /\ c # 0
  BY <1>2, <1>3 DEF Current, Started, IsoInv, NonNull, Directories
<1>6. SharedMemory' = SharedMemory
  BY <1>2 DEF SharedMemory, Started, Backing, PageOf, TableOf
<1>7. ASSUME NEW v \in PrivatePages
      PROVE  ram[PageOf(d, v).frame] = ram[PageOf(c, v).frame]
  <2>1. v \in StackRange
    BY DataInRange
  <2>2. PICK s \in Slots : s = Slot(v)
    BY <2>1, StackPagesInRange, SlotOfPage
  <2>3. s < SlotNumber
    BY PagingAssumption, SMT DEF Slots
  <2> QED
    BY <1>1, <1>2, <1>3, <2>1, <2>2, <2>3 DEF IsoInv, CloneCopied, Copy
<1>8. PrivateMemory' = [e \in spaces \cup {d} |-> [v \in PrivatePages |-> ram[PageOf(e, v).frame]]]
  BY <1>2 DEF PrivateMemory, PageOf, TableOf
<1>9. /\ DOMAIN PrivateMemory = spaces
      /\ \A e \in spaces : PrivateMemory[e] = [v \in PrivatePages |-> ram[PageOf(e, v).frame]]
  BY DEF PrivateMemory
<1>10. [v \in PrivatePages |-> ram[PageOf(d, v).frame]] =
          [v \in PrivatePages |-> ram[PageOf(c, v).frame]]
  BY <1>7
<1>11. \A e \in spaces \cup {d} :
          [v \in PrivatePages |-> ram[PageOf(e, v).frame]] =
             PrivateMemory[IF e = d THEN c ELSE e]
  BY <1>3, <1>4, <1>9, <1>10
<1>12. PrivateMemory' = [e \in spaces \cup {d} |-> PrivateMemory[IF e = d THEN c ELSE e]]
  <2> DEFINE memory(e) == [v \in PrivatePages |-> ram[PageOf(e, v).frame]]
             of(e) == PrivateMemory[IF e = d THEN c ELSE e]
  <2>1. \A e \in spaces \cup {d} : memory(e) = of(e)
    BY <1>11
  <2>2. PrivateMemory' = [e \in spaces \cup {d} |-> memory(e)]
    BY <1>8
  <2> HIDE DEF memory, of
  <2>3. PrivateMemory' = [e \in spaces \cup {d} |-> of(e)]
    BY <2>1, <2>2
  <2> QED
    BY <2>3 DEF of
<1> QED
  BY <1>4, <1>5, <1>6, <1>9, <1>12

\* The scheduler goes to another space.
LEMMA SwitchImplements ==
    ASSUME Freeable = {}, MapInv, IsoInv, [Next]_vars, NEW d \in spaces, Switch(d)
    PROVE  /\ d \in PageNo /\ d \in DOMAIN PrivateMemory /\ Current' = d
           /\ SharedMemory' = SharedMemory /\ PrivateMemory' = PrivateMemory
<1>1. spaces' = spaces /\ ram' = ram /\ currentPageDirectory' = d
  BY DEF Switch, SwitchPaging
<1>2. d \in PageNo
  BY MapParts DEF TypeOK
<1>3. Current' = d
  BY <1>1 DEF Current, Started
<1>4. d \in DOMAIN PrivateMemory
  BY DEF PrivateMemory
<1> QED
  BY <1>1, <1>2, <1>3, <1>4, MemoryUnseen

\* Two pages with one frame, of directories in use, have one table and are one
\* page: frame 0, too, is behind one page only.
LEMMA FrameDetermines ==
    ASSUME MapInv, IsoInv, NEW t \in PageNo, NEW i \in Index, NEW u \in PageNo,
           NEW j \in Index, tables[t][i].present, tables[u][j].present,
           tables[t][i].frame = tables[u][j].frame
    PROVE  t = u /\ i = j
<1>1. CASE tables[t][i].frame # 0
  BY <1>1, MapParts, FrameHeld
<1>2. CASE tables[t][i].frame = 0
  BY <1>2 DEF IsoInv, FrameZero
<1> QED
  BY <1>1, <1>2

\* A process stores to its own stack or to the kernel's memory.
LEMMA StoreImplements ==
    ASSUME Freeable = {}, StackApart, MapInv, IsoInv, NEW v \in DataPages,
           NEW x \in Values, Store(v, x)
    PROVE  /\ Current # 0 /\ Current' = Current
           /\ \/ /\ v \in SharedPages /\ PrivateMemory' = PrivateMemory
                 /\ SharedMemory' = [SharedMemory EXCEPT ![v] = x]
              \/ /\ v \in PrivatePages /\ SharedMemory' = SharedMemory
                 /\ PrivateMemory' = [PrivateMemory EXCEPT ![Current][v] = x]
<1>1. PICK c \in spaces, k \in PageNo : c = currentPageDirectory /\ k = pageDirectory
  BY MapParts DEF Store, Phases
<1>2. /\ PageOf(c, v).present /\ v \in PageNo /\ c \in Live /\ c \in PageNo /\ c # k
      /\ Started /\ pc # "start"
  BY <1>1, PagingAssumption, MapParts DEF Store, Live, Directories, Phases, Started
<1>3. PICK t \in PageNo, i \in Index, f \in Frames :
         /\ t = TableOf(c, v) /\ i = Entry(v) /\ f = tables[t][i].frame
         /\ tables[t][i].present /\ t # 0
  <2>1. TableOf(c, v) \in PageNo /\ Entry(v) \in Index
    BY <1>2, SlotOfPage, MapParts DEF TypeOK, TableOf, Link
  <2>2. TableOf(c, v) # 0
    BY <1>2, NoTable, MapParts DEF NullPage
  <2>3. PageOf(c, v) \in Page
    BY <1>2, PageOfType, MapParts
  <2> QED
    BY <1>2, <2>1, <2>2, <2>3 DEF PageOf, Page
<1>4. /\ ram' = [ram EXCEPT ![f] = x] /\ currentPageDirectory' = c
      /\ UNCHANGED <<tables, dirs, pageDirectory, spaces>>
  BY <1>1, <1>3 DEF Store, PageOf, structure, processor
<1>5. \A g \in Frames : ram'[g] = IF g = f THEN x ELSE ram[g]
  BY <1>4, MapParts DEF TypeOK
<1>6. Current = c /\ Current' = c /\ c # 0
  BY <1>1, <1>2, <1>4 DEF Current, Started, IsoInv, NonNull, Directories
<1>7. ASSUME NEW d \in spaces, NEW w \in PrivatePages
      PROVE  /\ PageOf(d, w).frame \in Frames /\ w \in StackRange
             /\ TableOf(k, w) = 0 /\ d # k
             /\ PageOf(d, w).frame = f =>
                   TableOf(d, w) = t /\ Slot(w) = Slot(v) /\ w = v
  <2>1. w \in StackRange
    BY DataInRange
  <2>2. /\ d \in Live /\ d \in PageNo /\ w \in PageNo /\ TableOf(d, w) \in PageNo
        /\ Entry(w) \in Index /\ PageOf(d, w).frame # 0 /\ PageOf(d, w).frame \in Frames
        /\ TableOf(d, w) # 0
    BY <2>1, StackFrame
  <2>3. PageOf(d, w).present
    BY <2>2, MapParts DEF MappedPresent, PageOf
  <2>4. ASSUME PageOf(d, w).frame = f
        PROVE  TableOf(d, w) = t /\ Slot(w) = Slot(v) /\ w = v
    <3>1. TableOf(d, w) = t /\ Entry(w) = i
      BY <1>3, <2>2, <2>3, <2>4, FrameDetermines DEF PageOf
    <3> QED
      BY <1>2, <1>3, <2>2, <3>1, SameEntry, MapParts
  <2>5. TableOf(k, w) = 0 /\ d # k
    BY <1>1, <2>1, StackSlots, MapParts DEF IsoInv, Phases
  <2> QED
    BY <2>1, <2>2, <2>4, <2>5
<1>8. ASSUME NEW w \in SharedPages, KernelPage(w).present
      PROVE  /\ KernelPage(w).frame \in Frames
             /\ KernelPage(w).frame = f => TableOf(k, w) = t /\ w = v
  <2>1. w \in PageNo
    BY DataInRange
  <2>2. /\ TableOf(k, w) \in PageNo /\ Entry(w) \in Index /\ TableOf(k, w) # 0
        /\ KernelPage(w).frame \in Frames
    BY <1>1, <1>8, <2>1, KernelFrame
  <2>3. ASSUME KernelPage(w).frame = f
        PROVE  TableOf(k, w) = t /\ w = v
    <3>1. TableOf(k, w) = t /\ Entry(w) = i
      BY <1>1, <1>3, <1>8, <2>2, <2>3, FrameDetermines DEF KernelPage, PageOf
    <3> QED
      BY <1>2, <1>3, <2>1, <2>2, <3>1, SameEntry, MapParts
  <2> QED
    BY <2>2, <2>3
<1>9. /\ SharedMemory = [w \in SharedPages |->
                           IF KernelPage(w).present THEN ram[KernelPage(w).frame] ELSE Blank]
      /\ SharedMemory' = [w \in SharedPages |->
                           IF KernelPage(w).present THEN ram'[KernelPage(w).frame] ELSE Blank]
      /\ PrivateMemory = [d \in spaces |-> [w \in PrivatePages |-> ram[PageOf(d, w).frame]]]
      /\ PrivateMemory' = [d \in spaces |-> [w \in PrivatePages |-> ram'[PageOf(d, w).frame]]]
  BY <1>2, <1>4
     DEF SharedMemory, PrivateMemory, Backing, KernelPage, PageOf, TableOf, Started
<1>10. CASE v \in StackRange
  <2>1. v \in PrivatePages
    BY <1>10, DataInRange
  <2>2. TableOf(k, v) = 0
    BY <1>1, <1>7, <2>1
  <2>3. SharedMemory' = SharedMemory
    <3>1. \A w \in SharedPages : KernelPage(w).present =>
             ram'[KernelPage(w).frame] = ram[KernelPage(w).frame]
      BY <1>3, <1>5, <1>8, <2>2
    <3> QED
      BY <1>9, <3>1
  <2>4. \A d \in spaces, w \in PrivatePages :
           ram'[PageOf(d, w).frame] = IF d = c /\ w = v THEN x ELSE ram[PageOf(d, w).frame]
    <3>1. ASSUME NEW d \in spaces, NEW w \in PrivatePages, PageOf(d, w).frame = f
          PROVE  d = c /\ w = v
      <4>1. TableOf(d, w) = t /\ Slot(w) = Slot(v) /\ w = v
        BY <1>7, <3>1
      <4>2. dirs[k][Slot(v)].table = 0 /\ Slot(v) \in Slots
        BY <1>2, <2>2, SlotOfPage DEF TableOf
      <4>3. dirs[c][Slot(v)].table = t /\ dirs[d][Slot(v)].table = t
        BY <1>3, <4>1 DEF TableOf
      <4>4. d # c => dirs[c][Slot(v)].table # dirs[d][Slot(v)].table
        BY <1>1, <1>3, <4>2, <4>3, MapParts DEF SInv, TablesShared
      <4> QED
        BY <4>1, <4>3, <4>4
    <3>2. PageOf(c, v).frame = f
      BY <1>3 DEF PageOf
    <3> QED
      BY <1>1, <1>5, <1>7, <2>1, <3>1, <3>2
  <2>5. PrivateMemory' = [PrivateMemory EXCEPT ![c][v] = x]
    <3> DEFINE memory(d, w) == ram[PageOf(d, w).frame]
    <3>1. PrivateMemory = [d \in spaces |-> [w \in PrivatePages |-> memory(d, w)]]
      BY <1>9
    <3>2. PrivateMemory' = [d \in spaces |-> [w \in PrivatePages |->
                              IF d = c /\ w = v THEN x ELSE memory(d, w)]]
      BY <1>9, <2>4
    <3> HIDE DEF memory
    <3>3. [PrivateMemory EXCEPT ![c][v] = x] =
             [d \in spaces |-> [w \in PrivatePages |->
                IF d = c /\ w = v THEN x ELSE memory(d, w)]]
      BY <1>1, <2>1, <3>1
    <3> QED
      BY <3>2, <3>3
  <2> QED
    BY <1>6, <2>1, <2>3, <2>5
<1>11. CASE v \notin StackRange
  <2>1. TableOf(k, v) = t /\ KernelPage(v) = PageOf(c, v)
    BY <1>1, <1>2, <1>3, <1>11 DEF IsoInv, OwnPages, KernelPage, PageOf
  <2>2. v \in SharedPages
    BY <1>2, <2>1 DEF IsoInv, KernelBelow, SharedPages
  <2>3. \A d \in spaces, w \in PrivatePages :
           ram'[PageOf(d, w).frame] = ram[PageOf(d, w).frame]
    BY <1>5, <1>7, <1>11
  <2>4. PrivateMemory' = PrivateMemory
    BY <1>9, <2>3
  <2>5. \A w \in SharedPages : KernelPage(w).present =>
           ram'[KernelPage(w).frame] = IF w = v THEN x ELSE ram[KernelPage(w).frame]
    BY <1>3, <1>5, <1>8, <2>1 DEF PageOf
  <2>6. SharedMemory' = [SharedMemory EXCEPT ![v] = x]
    BY <1>2, <1>9, <2>1, <2>2, <2>5
  <2> QED
    BY <1>6, <2>2, <2>4, <2>6
<1> QED
  BY <1>10, <1>11

\* Who runs changes with Switch only.
LEMMA CurrentKept ==
    ASSUME MapInv, [Next]_vars, Started, ~(\E d \in spaces : Switch(d))
    PROVE  currentPageDirectory' = currentPageDirectory
<1> USE DEF boot, structure, processor
<1>1. CASE UNCHANGED vars
  BY <1>1 DEF vars
<1>2. CASE AllocateBitmap \/ EnablePaging \/ FirstDirectoryCloned
  BY <1>2, MapParts
     DEF AllocateBitmap, EnablePaging, FirstDirectoryCloned, Started, Phases, Booting
<1>3. CASE \/ MakeHeapTables \/ HeapTablesMade \/ MakeLowTable \/ MapLowPage
           \/ LowPagesMapped \/ MapHeapPage \/ HeapPagesMapped
           \/ CloneFirstDirectory \/ MakeStackTable \/ MapStackPage \/ StackMapped
  BY <1>3 DEF MakeHeapTables, HeapTablesMade, MakeLowTable, MapLowPage,
     LowPagesMapped, MapHeapPage, HeapPagesMapped, CloneFirstDirectory,
     MakeStackTable, MapStackPage, StackMapped
<1>4. CASE Clone
  BY <1>4 DEF Clone, SkipSlot, LinkTable, CloneTable, LinkClone, SkipPage,
     ClonePage, ClonePageWithoutFrame, CopyInto
<1>5. CASE \/ Fork \/ Forked
           \/ (\E v \in DataPages, x \in Values : Store(v, x))
           \/ (\E v \in DataPages : PageFault(v))
           \/ (\E v \in Freeable : FreeFrame(v))
  BY <1>5 DEF Fork, Forked, Store, PageFault, FreeFrame
<1> QED
  BY <1>1, <1>2, <1>3, <1>4, <1>5 DEF Next, Boot

\* No other step shows.
LEMMA OtherStepsUnseen ==
    ASSUME Freeable = {}, MapInv, FramesLeft, IsoInv, [Next]_vars,
           ~StackMapped, ~Forked, ~(\E d \in spaces : Switch(d)),
           ~(\E v \in DataPages, x \in Values : Store(v, x))
    PROVE  SpaceVars' = SpaceVars
<1>1. spaces' = spaces
  BY SpacesKept
<1>2. ASSUME NEW f \in frames
      PROVE  ram'[f] = ram[f]
  <2>1. ASSUME NEW g \in FreeFrames, ram' = [ram EXCEPT ![g] = ram[SourcePage.frame]]
        PROVE  ram'[f] = ram[f]
    BY <2>1, MapParts DEF FreeFrames, TypeOK
  <2> QED
    BY <2>1, RamStep
<1>3. SharedMemory' = SharedMemory /\ PrivateMemory' = PrivateMemory
  BY <1>1, <1>2, MemoryUnseen
<1>4. Current' = Current
  BY <1>1, CurrentKept DEF Current, Started
<1> QED
  BY <1>3, <1>4 DEF SpaceVars

LEMMA SpacesStep ==
    ASSUME Freeable = {}, StackApart, MapInv, MapInv', FramesLeft, IsoInv, IsoInv',
           [Next]_vars
    PROVE  [Spaces!Next]_(Spaces!vars)
<1>1. CASE StackMapped
  <2>1. \E d \in PageNo : Spaces!Start(d)
    BY <1>1, StartImplements
       DEF Spaces!Start, SharedMemory, PrivateMemory, Current
  <2> QED
    BY <2>1 DEF Spaces!Next
<1>2. CASE Forked
  <2>1. \E d \in PageNo : Spaces!Fork(d)
    BY <1>2, ForkImplements
       DEF Spaces!Fork, SharedMemory, PrivateMemory, Current
  <2> QED
    BY <2>1 DEF Spaces!Next
<1>3. ASSUME NEW d \in spaces, Switch(d)
      PROVE  Spaces!Next
  <2>1. d \in PageNo /\ Spaces!Switch(d)
    BY <1>3, SwitchImplements
       DEF Spaces!Switch, SharedMemory, PrivateMemory, Current
  <2> QED
    BY <2>1 DEF Spaces!Next
<1>4. ASSUME NEW v \in DataPages, NEW x \in Values, Store(v, x)
      PROVE  Spaces!Next
  <2>1. \/ v \in SharedPages /\ Spaces!StoreShared(v, x)
        \/ v \in PrivatePages /\ Spaces!StorePrivate(v, x)
    BY <1>4, StoreImplements
       DEF Spaces!StoreShared, Spaces!StorePrivate, SharedMemory, PrivateMemory, Current
  <2> QED
    BY <2>1 DEF Spaces!Next
<1>5. CASE /\ ~StackMapped /\ ~Forked /\ ~(\E d \in spaces : Switch(d))
           /\ ~(\E v \in DataPages, x \in Values : Store(v, x))
  BY <1>5, OtherStepsUnseen
     DEF SpaceVars, Spaces!vars, SharedMemory, PrivateMemory, Current
<1> QED
  BY <1>1, <1>2, <1>3, <1>4, <1>5

\* Processes have memory of their own: a fork copies the stack, a store changes
\* the storing process's page only, or for everyone if the page is the kernel's,
\* and no other step of the kernel changes what any process sees.
THEOREM ImplementsSpaces ==
    ASSUME Freeable = {}, StackApart, MainMemoryHolds, ProcessesHaveFrames
    PROVE  Spec => ProcessesIsolated
<1>1. Init => Spaces!Init
  BY DEF Init, Spaces!Init, Started
<1>2. MapInv /\ MapInv' /\ FramesLeft /\ IsoInv /\ IsoInv' /\ [Next]_vars
         => [Spaces!Next]_(Spaces!vars)
  BY SpacesStep
<1> QED
  BY <1>1, <1>2, MapInvariant, FramesSuffice, PTL
     DEF Spec, ProcessesIsolated, Spaces!Spec
=============================================================================
