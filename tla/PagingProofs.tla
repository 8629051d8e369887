---------------------------- MODULE PagingProofs ----------------------------
(***************************************************************************)
(* Proofs about Paging, for every geometry that satisfies                  *)
(* PagingAssumption.  The frame allocator is sound: no frame but frame 0   *)
(* is ever behind two pages, in whatever directories.  The invariant is    *)
(* made inductive by three facts: a mapped frame is marked in the bitmap,  *)
(* nothing is mapped when the bitmap is cleared, and clonePageTable only   *)
(* runs for a slot of the directory.                                       *)
(***************************************************************************)
EXTENDS PagingProperties, FiniteSetTheorems, TLAPS

CloneInDirectory == clone.table # 0 => clone.slot < SlotNumber

NothingMappedAtStart ==
    pc = "start" =>
        \A t \in PageNo, i \in Index : tables[t][i].frame = 0

IInv ==
    /\ TypeOK
    /\ CloneInDirectory
    /\ NothingMappedAtStart
    /\ MappedFramesBusy
    /\ FrameIsolation

-----------------------------------------------------------------------------
(* Geometry.                                                               *)

\* The pages of a directory are those of its slots' tables.
LEMMA SlotOfPage ==
    ASSUME NEW v \in PageNo
    PROVE  Slot(v) \in Slots /\ Entry(v) \in Index
<1> USE PagingAssumption DEF PageNo, Slots, Index, Slot, Entry
<1>1. TableSize \in Nat /\ TableSize > 0 /\ SlotNumber \in Nat
  OBVIOUS
<1>2. v \in Int /\ 0 <= v /\ v < SlotNumber * TableSize
  BY <1>1, SMT
<1>3. v % TableSize \in 0 .. TableSize - 1
  BY <1>1, <1>2, SMT
<1>4. v = TableSize * (v \div TableSize) + (v % TableSize) /\ v \div TableSize \in Int
  BY <1>1, <1>2, SMT
<1>5. v \div TableSize >= 0
  BY <1>1, <1>2, SMT
<1>6. v \div TableSize < SlotNumber
  <2> DEFINE q == v \div TableSize
  <2>1. SUFFICES ASSUME q >= SlotNumber PROVE FALSE
    BY <1>1, <1>4, SMT
  <2>2. TableSize * q >= TableSize * SlotNumber
    BY <2>1, <1>1, <1>4, SMT
  <2>3. TableSize * q <= v
    BY <1>1, <1>3, <1>4, SMT
  <2> QED
    BY <2>2, <2>3, <1>1, <1>2, <1>4, SMT
<1> QED
  BY <1>1, <1>3, <1>4, <1>5, <1>6, SMT

\* Page 0, the null pointer, and frame 0 exist; so do all pages below the
\* stack.
LEMMA Ranges ==
    /\ 0 \in PageNo
    /\ 0 \in Frames
    /\ Frames \subseteq Int
    /\ \A p \in Nat : p <= StackTop => p \in PageNo
<1>1. SlotNumber * TableSize > 0 /\ SlotNumber * TableSize \in Nat
  BY PagingAssumption, SMT
<1>2. FrameNumber * WordBits > 0 /\ FrameNumber * WordBits \in Nat
  BY PagingAssumption, SMT
<1> QED
  BY <1>1, <1>2, PagingAssumption, SMT DEF PageNo, Frames

\* A number of units rounds up to a number of pages, at least one if any.
LEMMA AlignUpNat ==
    ASSUME NEW a \in Nat
    PROVE  AlignUp(a) \in Nat /\ (a > 0 => AlignUp(a) > 0)
<1>1. PageSize \in Nat /\ PageSize > 0
  BY PagingAssumption
<1>2. a + PageSize - 1 \in Nat
  BY <1>1, SMT
<1>3. (a + PageSize - 1) \div PageSize \in Nat
  BY <1>1, <1>2, SMT
<1>4. ASSUME a > 0 PROVE (a + PageSize - 1) \div PageSize > 0
  BY <1>1, <1>4, SMT
<1> QED
  BY <1>3, <1>4 DEF AlignUp

-----------------------------------------------------------------------------
(* Types of what the operations compute.                                   *)

\* getPage finds an entry, whatever directory it is asked of.
LEMMA PageOfType ==
    ASSUME TypeOK, NEW d \in PageNo, NEW v \in PageNo
    PROVE  PageOf(d, v) \in Page
<1>1. Slot(v) \in Slots /\ Entry(v) \in Index
  BY SlotOfPage
<1>2. TableOf(d, v) \in PageNo
  BY <1>1 DEF TypeOK, TableOf, Link
<1> QED
  BY <1>1, <1>2 DEF TypeOK, PageOf, Page

\* kmalloc's physical address is that of a page or of a frame.
LEMMA PhysicalType ==
    ASSUME TypeOK, NEW p \in PageNo
    PROVE  Physical(p) \in PhysicalPage
<1>1. PageOf(currentPageDirectory, p) \in Page
  BY PageOfType DEF TypeOK
<1> QED
  BY <1>1 DEF Physical, PhysicalPage, Page

\* A block kmalloc has room for lies below the stack, and the allocators'
\* pointers stay numbers.
LEMMA ReserveType ==
    ASSUME TypeOK, NEW size \in Nat \ {0}, Reserve(size)
    PROVE  NewBlock \in PageNo /\ placement' \in Nat /\ heapNext' \in Nat
<1>1. AlignUp(size) \in Nat /\ AlignUp(placement) \in Nat
  BY AlignUpNat DEF TypeOK
<1>2. NewBlock \in Nat
  BY <1>1 DEF NewBlock, TypeOK
<1>3. NewBlock <= StackTop
  BY <1>1, <1>2, PagingAssumption, SMT DEF Reserve, Room
<1>4. NewBlock \in PageNo
  BY <1>2, <1>3, Ranges
<1>5. NewBlock * PageSize + size \in Nat
  BY <1>2, PagingAssumption, SMT
<1> QED
  BY <1>1, <1>4, <1>5 DEF Reserve, TypeOK

LEMMA ZeroTypes ==
    /\ NullPage \in Page
    /\ ZeroTable \in [Index -> Page]
    /\ NullLink \in Link
    /\ ZeroDirectory \in [Slots -> Link]
    /\ NoClone \in CloneLocals
BY Ranges, PagingAssumption, SMT
   DEF NullPage, Page, ZeroTable, NullLink, Link, ZeroDirectory, NoClone,
       CloneLocals, PhysicalPage

\* The loops of the clone stay within the directory and the table.
LEMMA NextSlotType ==
    ASSUME TypeOK, clone.slot < SlotNumber, NextSlot
    PROVE  clone' \in CloneLocals
<1>1. SlotNumber \in Nat /\ TableSize \in Nat
  BY PagingAssumption
<1>2. clone \in CloneLocals
  BY DEF TypeOK
<1>3. clone.slot + 1 \in 0 .. SlotNumber
  BY <1>1, <1>2 DEF CloneLocals
<1> QED
  BY <1>2, <1>3, Ranges DEF NextSlot, CloneLocals

LEMMA NextPageType ==
    ASSUME TypeOK, clone.page < TableSize, NextPage
    PROVE  clone' \in CloneLocals
<1>1. SlotNumber \in Nat /\ TableSize \in Nat
  BY PagingAssumption
<1>2. clone \in CloneLocals
  BY DEF TypeOK
<1>3. clone.page + 1 \in 0 .. TableSize
  BY <1>1, <1>2 DEF CloneLocals
<1> QED
  BY <1>2, <1>3 DEF NextPage, CloneLocals

LEMMA SourceTypes ==
    ASSUME TypeOK
    PROVE  /\ clone.slot < SlotNumber => SourceLink \in Link
           /\ clone.slot < SlotNumber /\ clone.page < TableSize
                 => SourcePage \in Page
<1>1. SlotNumber \in Nat /\ TableSize \in Nat
  BY PagingAssumption
<1>2. clone.slot \in 0 .. SlotNumber /\ clone.page \in 0 .. TableSize
  BY DEF TypeOK, CloneLocals
<1>3. clone.slot < SlotNumber => clone.slot \in Slots
  BY <1>1, <1>2 DEF Slots
<1>4. clone.page < TableSize => clone.page \in Index
  BY <1>1, <1>2 DEF Index
<1>5. clone.slot < SlotNumber => SourceLink \in Link
  BY <1>3 DEF SourceLink, TypeOK
<1> QED
  BY <1>4, <1>5 DEF SourcePage, TypeOK, Link

LEMMA MakeTableType ==
    ASSUME TypeOK, NEW d \in PageNo, NEW v, MakeTable(d, v)
    PROVE  /\ placement' \in Nat /\ heapNext' \in Nat
           /\ dirs' \in [PageNo -> [Slots -> Link]]
           /\ tables' \in [PageNo -> [Index -> Page]]
           /\ UNCHANGED <<frames, physicalAddress>>
<1>1. PageSize \in Nat \ {0}
  BY PagingAssumption
<1>2. NewBlock \in PageNo /\ placement' \in Nat /\ heapNext' \in Nat
  BY <1>1, ReserveType DEF MakeTable
<1>3. Physical(NewBlock) \in PhysicalPage
  BY <1>2, PhysicalType
<1>4. [table |-> NewBlock, phys |-> Physical(NewBlock)] \in Link
  BY <1>2, <1>3 DEF Link
<1>5. dirs' \in [PageNo -> [Slots -> Link]]
  BY <1>4 DEF MakeTable, TypeOK
<1>6. tables' \in [PageNo -> [Index -> Page]]
  BY ZeroTypes DEF MakeTable, TypeOK
<1> QED
  BY <1>2, <1>5, <1>6 DEF MakeTable

LEMMA AllocFrameType ==
    ASSUME TypeOK, NEW d, NEW v, AllocFrame(d, v)
    PROVE  /\ frames' \subseteq Frames
           /\ tables' \in [PageNo -> [Index -> Page]]
           /\ UNCHANGED <<dirs, physicalAddress, boot>>
<1>1. CASE PageOf(d, v).frame = 0 /\ FreeFrames # {}
  <2>1. PICK f \in Frames :
           /\ frames' = Busy(f)
           /\ tables' = [tables EXCEPT ![TableOf(d, v)][Entry(v)] =
                           [frame |-> f, present |-> TRUE]]
    BY <1>1 DEF AllocFrame
  <2>2. [frame |-> f, present |-> TRUE] \in Page
    BY DEF Page
  <2>3. tables' \in [PageNo -> [Index -> Page]]
    BY <2>1, <2>2 DEF TypeOK
  <2>4. frames' \subseteq Frames
    BY <2>1 DEF TypeOK, Busy
  <2> QED
    BY <2>3, <2>4 DEF AllocFrame
<1>2. CASE ~(PageOf(d, v).frame = 0 /\ FreeFrames # {})
  BY <1>2 DEF AllocFrame, TypeOK
<1> QED
  BY <1>1, <1>2

LEMMA NewDirectoryType ==
    ASSUME TypeOK, NewDirectory
    PROVE  /\ placement' \in Nat /\ heapNext' \in Nat
           /\ dirs' \in [PageNo -> [Slots -> Link]]
           /\ physicalAddress' \in [PageNo -> PhysicalPage]
           /\ clone' \in CloneLocals
           /\ clone'.table = 0
           /\ pc' \in PC
           /\ UNCHANGED <<cursor, frames, tables, spaces, ram>>
<1>1. DirectorySize \in Nat \ {0}
  BY PagingAssumption
<1>2. NewBlock \in PageNo /\ placement' \in Nat /\ heapNext' \in Nat
  BY <1>1, ReserveType DEF NewDirectory
<1>3. Physical(NewBlock) \in PhysicalPage
  BY <1>2, PhysicalType
<1>4. clone' \in CloneLocals /\ clone'.table = 0
  BY <1>2, ZeroTypes DEF NewDirectory, CloneLocals, NoClone
<1>5. dirs' \in [PageNo -> [Slots -> Link]]
  BY ZeroTypes DEF NewDirectory, TypeOK
<1>6. physicalAddress' \in [PageNo -> PhysicalPage]
  BY <1>3 DEF NewDirectory, TypeOK
<1> QED
  BY <1>2, <1>4, <1>5, <1>6 DEF NewDirectory, PC

-----------------------------------------------------------------------------
(* The invariant.                                                          *)

\* It holds at power on, when no table exists.
LEMMA InitInvariant == Init => IInv
<1> SUFFICES ASSUME Init PROVE IInv
  OBVIOUS
<1>1. tables \in [PageNo -> [Index -> Page]]
  BY ZeroTypes DEF Init
<1>2. dirs \in [PageNo -> [Slots -> Link]]
  BY ZeroTypes DEF Init
<1>3. physicalAddress \in [PageNo -> PhysicalPage]
  BY Ranges DEF Init, PhysicalPage
<1>4. frames \subseteq Frames
  BY PagingAssumption DEF Init
<1>5. ram \in [Frames -> Values]
  BY PagingAssumption DEF Init
<1>6. TypeOK
  BY <1>1, <1>2, <1>3, <1>4, <1>5, ZeroTypes, Ranges, PagingAssumption
     DEF Init, TypeOK, PC, PhysicalPage
<1>7. MappedEntries = {}
  BY DEF Init, MappedEntries, ZeroTable, NullPage
<1>8. CloneInDirectory
  BY DEF Init, CloneInDirectory, NoClone
<1>9. NothingMappedAtStart
  BY DEF Init, NothingMappedAtStart, ZeroTable, NullPage
<1> QED
  BY <1>6, <1>7, <1>8, <1>9 DEF IInv, MappedFramesBusy, FrameIsolation

\* Every step keeps every variable in its range.
LEMMA TypeStep == TypeOK /\ CloneInDirectory /\ [Next]_vars => TypeOK'
<1> SUFFICES ASSUME TypeOK, CloneInDirectory, [Next]_vars PROVE TypeOK'
  OBVIOUS
<1> USE DEF boot, structure, processor
<1>1. CASE AllocateBitmap
  <2> DEFINE dir == AlignUp(placement + BitmapSize)
  <2>1. dir \in Nat /\ AlignUp(DirectorySize) \in Nat
    BY AlignUpNat, PagingAssumption, SMT DEF TypeOK
  <2>2. dir \in PageNo
    BY <1>1, <2>1, Ranges, PagingAssumption, SMT DEF AllocateBitmap
  <2>3. dir * PageSize + DirectorySize \in Nat
    BY <2>1, PagingAssumption, SMT
  <2>4. HeapStart \in Int
    BY PagingAssumption
  <2> QED
    BY <1>1, <2>2, <2>3, <2>4 DEF AllocateBitmap, TypeOK, PC, PhysicalPage
<1>2. CASE MakeHeapTables
  <2>1. CASE TableOf(pageDirectory, cursor) = 0
    BY <1>2, <2>1, MakeTableType DEF MakeHeapTables, TypeOK
  <2>2. CASE TableOf(pageDirectory, cursor) # 0
    BY <1>2, <2>2 DEF MakeHeapTables, TypeOK
  <2> QED
    BY <2>1, <2>2
<1>3. CASE MakeLowTable
  BY <1>3, MakeTableType DEF MakeLowTable, TypeOK
<1>4. CASE MapLowPage
  BY <1>4, AllocFrameType DEF MapLowPage, TypeOK
<1>5. CASE MapHeapPage
  BY <1>5, AllocFrameType DEF MapHeapPage, TypeOK
<1>6. CASE HeapTablesMade \/ LowPagesMapped \/ HeapPagesMapped
  BY <1>6, PagingAssumption
     DEF HeapTablesMade, LowPagesMapped, HeapPagesMapped, TypeOK, PC
<1>7. CASE EnablePaging
  BY <1>7 DEF EnablePaging, SwitchPaging, TypeOK, PC
<1>8. CASE CloneFirstDirectory
  BY <1>8, NewDirectoryType DEF CloneFirstDirectory, TypeOK
<1>9. CASE FirstDirectoryCloned
  BY <1>9, ZeroTypes, PagingAssumption
     DEF FirstDirectoryCloned, SwitchPaging, TypeOK, PC, CloneLocals
<1>10. CASE MakeStackTable
  BY <1>10, MakeTableType DEF MakeStackTable, TypeOK
<1>11. CASE MapStackPage
  BY <1>11, AllocFrameType DEF MapStackPage, TypeOK
<1>12. CASE StackMapped
  BY <1>12 DEF StackMapped, TypeOK, PC
<1>13. CASE SkipSlot
  <2>1. clone' \in CloneLocals
    BY <1>13, NextSlotType DEF SkipSlot, InLoop
  <2> QED
    BY <1>13, <2>1 DEF SkipSlot, TypeOK
<1>14. CASE LinkTable
  <2>1. clone' \in CloneLocals
    BY <1>14, NextSlotType DEF LinkTable, InLoop
  <2>2. SourceLink \in Link
    BY <1>14, SourceTypes DEF LinkTable, InLoop
  <2>3. dirs' \in [PageNo -> [Slots -> Link]]
    BY <1>14, <2>2 DEF LinkTable, TypeOK
  <2> QED
    BY <1>14, <2>1, <2>3 DEF LinkTable, TypeOK
<1>15. CASE CloneTable
  <2>1. NewBlock \in PageNo /\ placement' \in Nat /\ heapNext' \in Nat
    BY <1>15, ReserveType, PagingAssumption DEF CloneTable
  <2>2. Physical(NewBlock) \in PhysicalPage
    BY <2>1, PhysicalType
  <2>3. 0 \in 0 .. TableSize
    BY PagingAssumption
  <2>4. clone' \in CloneLocals
    BY <1>15, <2>1, <2>2, <2>3 DEF CloneTable, TypeOK, CloneLocals
  <2>5. tables' \in [PageNo -> [Index -> Page]]
    BY <1>15, ZeroTypes DEF CloneTable, TypeOK
  <2> QED
    BY <1>15, <2>1, <2>4, <2>5 DEF CloneTable, TypeOK
<1>16. CASE LinkClone
  <2>1. clone.slot < SlotNumber
    BY <1>16 DEF LinkClone, CloneInDirectory
  <2>2. clone' \in CloneLocals
    BY <1>16, <2>1, NextSlotType DEF LinkClone
  <2>3. [table |-> clone.table, phys |-> clone.phys] \in Link
    BY DEF TypeOK, CloneLocals, Link
  <2>4. dirs' \in [PageNo -> [Slots -> Link]]
    BY <1>16, <2>3 DEF LinkClone, TypeOK
  <2> QED
    BY <1>16, <2>2, <2>4 DEF LinkClone, TypeOK
<1>17. CASE SkipPage
  <2>1. clone' \in CloneLocals
    BY <1>17, NextPageType DEF SkipPage, InTable
  <2> QED
    BY <1>17, <2>1 DEF SkipPage, TypeOK
<1>18. ASSUME InTable, NEW f \in Frames, CopyInto(f), frames' \subseteq Frames
       PROVE  TypeOK'
  <2>1. clone' \in CloneLocals
    BY <1>18, NextPageType DEF CopyInto, InTable
  <2>3. SourcePage \in Page
    BY <1>18, SourceTypes DEF InTable, CloneInDirectory
  <2>4. [frame |-> f, present |-> SourcePage.present] \in Page
    BY <2>3 DEF Page
  <2>5. tables' \in [PageNo -> [Index -> Page]]
    BY <1>18, <2>4 DEF CopyInto, TypeOK
  <2>6. ram[SourcePage.frame] \in Values
    BY <2>3 DEF Page, TypeOK
  <2>7. ram' \in [Frames -> Values]
    BY <1>18, <2>6 DEF CopyInto, TypeOK
  <2> QED
    BY <1>18, <2>1, <2>5, <2>7 DEF CopyInto, TypeOK
<1>19. CASE ClonePage
  BY <1>18, <1>19 DEF ClonePage, Busy, TypeOK
<1>20. CASE ClonePageWithoutFrame
  BY <1>18, <1>20, Ranges DEF ClonePageWithoutFrame, TypeOK
<1>21. CASE Fork
  BY <1>21, NewDirectoryType DEF Fork, TypeOK
<1>22. CASE Forked
  BY <1>22, ZeroTypes DEF Forked, TypeOK, PC, CloneLocals
<1>23. ASSUME NEW d \in spaces, Switch(d) PROVE TypeOK'
  BY <1>23 DEF Switch, SwitchPaging, TypeOK
<1>24. ASSUME NEW v \in DataPages, NEW x \in Values, Store(v, x) PROVE TypeOK'
  BY <1>24 DEF Store, TypeOK
<1>25. ASSUME NEW v \in DataPages, PageFault(v) PROVE TypeOK'
  BY <1>25 DEF PageFault, TypeOK, PC
<1>26. ASSUME NEW v \in Freeable, FreeFrame(v) PROVE TypeOK'
  <2> DEFINE t == TableOf(currentPageDirectory, v)
             i == Entry(v)
  <2>1. \A p \in Page : [p EXCEPT !.frame = 0] \in Page
    BY Ranges DEF Page
  <2>2. tables \in [PageNo -> [Index -> Page]]
    BY DEF TypeOK
  <2>3. t \in PageNo /\ i \in Index
    BY SlotOfPage, PagingAssumption DEF TypeOK, TableOf, Link
  <2>4. tables' = [tables EXCEPT ![t][i] = [tables[t][i] EXCEPT !.frame = 0]]
    BY <1>26 DEF FreeFrame
  <2>5. tables' \in [PageNo -> [Index -> Page]]
    BY <2>1, <2>2, <2>3, <2>4
  <2> QED
    BY <1>26, <2>5 DEF FreeFrame, TypeOK
<1>27. CASE UNCHANGED vars
  BY <1>27 DEF vars, TypeOK
<1> QED
  BY <1>1, <1>2, <1>3, <1>4, <1>5, <1>6, <1>7, <1>8, <1>9, <1>10, <1>11,
     <1>12, <1>13, <1>14, <1>15, <1>16, <1>17, <1>19, <1>20, <1>21, <1>22,
     <1>23, <1>24, <1>25, <1>26, <1>27
     DEF Next, Boot, Clone

\* Slots of the directory stay the ones clonePageTable runs for.
LEMMA CloneStep == TypeOK /\ CloneInDirectory /\ [Next]_vars => CloneInDirectory'
<1> SUFFICES ASSUME TypeOK, CloneInDirectory, [Next]_vars PROVE CloneInDirectory'
  OBVIOUS
<1> USE DEF CloneInDirectory
<1>1. CASE UNCHANGED clone
  BY <1>1
<1>2. CASE clone' = NoClone
  BY <1>2 DEF NoClone
<1>3. CASE NewDirectory
  BY <1>3, NewDirectoryType
<1>4. CASE NextSlot
  BY <1>4 DEF NextSlot, TypeOK, CloneLocals
<1>5. CASE NextPage
  BY <1>5 DEF NextPage, TypeOK, CloneLocals
<1>6. CASE CloneTable
  BY <1>6 DEF CloneTable, InLoop, TypeOK, CloneLocals
<1>7. ASSUME NEW v, NEW x, Store(v, x) PROVE UNCHANGED clone
  BY <1>7 DEF Store
<1>8. ASSUME NEW v, Switch(v) \/ PageFault(v) \/ FreeFrame(v) PROVE UNCHANGED clone
  BY <1>8 DEF Switch, PageFault, FreeFrame
<1>9. CASE Boot
  BY <1>9, <1>1, <1>2, <1>3
     DEF Boot, AllocateBitmap, MakeHeapTables, HeapTablesMade, MakeLowTable,
         MapLowPage, LowPagesMapped, MapHeapPage, HeapPagesMapped,
         EnablePaging, CloneFirstDirectory, FirstDirectoryCloned,
         MakeStackTable, MapStackPage, StackMapped
<1>10. CASE Clone
  BY <1>10, <1>4, <1>5, <1>6
     DEF Clone, SkipSlot, LinkTable, LinkClone, SkipPage, ClonePage,
         ClonePageWithoutFrame, CopyInto
<1>11. CASE Fork \/ Forked
  BY <1>11, <1>2, <1>3 DEF Fork, Forked
<1>12. CASE UNCHANGED vars
  BY <1>12, <1>1 DEF vars
<1> QED
  BY <1>1, <1>7, <1>8, <1>9, <1>10, <1>11, <1>12 DEF Next

-----------------------------------------------------------------------------
(* Tables change in three ways: entries are reset or left alone, one entry *)
(* gets a free frame, or one entry gets frame 0.                           *)

Isolated == MappedFramesBusy /\ FrameIsolation

\* The same, spelled out over tables instead of the set of their entries.
IsolatedTables ==
    /\ \A t \in PageNo, i \in Index :
          tables[t][i].frame # 0 => tables[t][i].frame \in frames
    /\ \A t, u \in PageNo, i, j \in Index :
          /\ tables[t][i].frame # 0
          /\ tables[t][i].frame = tables[u][j].frame
          => t = u /\ i = j

LEMMA IsolatedExpanded == Isolated <=> IsolatedTables
<1>1. ASSUME Isolated, NEW t \in PageNo, NEW i \in Index, tables[t][i].frame # 0
      PROVE  tables[t][i].frame \in frames
  <2>1. <<t, i>> \in MappedEntries
    BY <1>1 DEF MappedEntries
  <2> QED
    BY <2>1, <1>1 DEF Isolated, MappedFramesBusy, FrameOf
<1>2. ASSUME Isolated, NEW t \in PageNo, NEW u \in PageNo, NEW i \in Index,
             NEW j \in Index, tables[t][i].frame # 0,
             tables[t][i].frame = tables[u][j].frame
      PROVE  t = u /\ i = j
  <2>1. <<t, i>> \in MappedEntries /\ <<u, j>> \in MappedEntries
    BY <1>2 DEF MappedEntries
  <2>2. <<t, i>> = <<u, j>>
    BY <2>1, <1>2 DEF Isolated, FrameIsolation, FrameOf
  <2> QED
    BY <2>2
<1>3. ASSUME \A t \in PageNo, i \in Index :
                tables[t][i].frame # 0 => tables[t][i].frame \in frames
      PROVE  MappedFramesBusy
  BY <1>3 DEF MappedFramesBusy, MappedEntries, FrameOf
<1>4. ASSUME \A t, u \in PageNo, i, j \in Index :
                /\ tables[t][i].frame # 0
                /\ tables[t][i].frame = tables[u][j].frame
                => t = u /\ i = j
      PROVE  FrameIsolation
  BY <1>4 DEF FrameIsolation, MappedEntries, FrameOf
<1> QED
  BY <1>1, <1>2, <1>3, <1>4 DEF Isolated, IsolatedTables

LEMMA IsolatedExpandedNext == Isolated' <=> IsolatedTables'
BY IsolatedExpanded, PTL

\* A table that is reset maps nothing.
LEMMA ResetIsolated ==
    ASSUME TypeOK, Isolated, NEW t, frames \subseteq frames',
           tables' = [tables EXCEPT ![t] = ZeroTable]
    PROVE  Isolated'
<1>1. \A u \in PageNo, i \in Index :
         tables'[u][i].frame # 0 => tables'[u][i] = tables[u][i]
  BY DEF TypeOK, ZeroTable, NullPage
<1> QED
  BY <1>1, IsolatedExpanded, IsolatedExpandedNext DEF IsolatedTables

\* An entry that gets a frame whose bit was clear shares it with no other.
LEMMA FreshIsolated ==
    ASSUME TypeOK, Isolated, NEW t, NEW i, NEW f \in FreeFrames, NEW present,
           frames' = frames \cup {f},
           tables' = [tables EXCEPT ![t][i] = [frame |-> f, present |-> present]]
    PROVE  Isolated'
<1>1. ASSUME NEW u \in PageNo, NEW j \in Index
      PROVE  tables'[u][j] = IF u = t /\ j = i
                             THEN [frame |-> f, present |-> present]
                             ELSE tables[u][j]
  BY DEF TypeOK
<1>2. ASSUME NEW u \in PageNo, NEW j \in Index
      PROVE  tables[u][j].frame # 0 => tables[u][j].frame # f
  BY IsolatedExpanded DEF FreeFrames, IsolatedTables
<1>3. f \notin frames
  BY DEF FreeFrames
<1>4. ASSUME NEW u \in PageNo, NEW j \in Index, tables'[u][j].frame # 0
      PROVE  tables'[u][j].frame \in frames'
  BY <1>1, <1>4, IsolatedExpanded DEF IsolatedTables
<1>5. ASSUME NEW u \in PageNo, NEW j \in Index, NEW v \in PageNo, NEW k \in Index,
             tables'[u][j].frame # 0,
             tables'[u][j].frame = tables'[v][k].frame
      PROVE  u = v /\ j = k
  <2>1. CASE (u = t /\ j = i) /\ (v = t /\ k = i)
    BY <2>1
  <2>2. CASE (u = t /\ j = i) /\ ~(v = t /\ k = i)
    BY <2>2, <1>1, <1>2, <1>5
  <2>3. CASE ~(u = t /\ j = i) /\ (v = t /\ k = i)
    BY <2>3, <1>1, <1>2, <1>5
  <2>4. CASE ~(u = t /\ j = i) /\ ~(v = t /\ k = i)
    BY <2>4, <1>1, <1>5, IsolatedExpanded DEF IsolatedTables
  <2> QED
    BY <2>1, <2>2, <2>3, <2>4
<1> QED
  BY <1>4, <1>5, IsolatedExpandedNext DEF IsolatedTables

\* An entry whose frame is set to 0 is no longer mapped.
LEMMA ZeroIsolated ==
    ASSUME TypeOK, Isolated, NEW t, NEW i, NEW page, page.frame = 0,
           frames' = frames,
           tables' = [tables EXCEPT ![t][i] = page]
    PROVE  Isolated'
<1>1. ASSUME NEW u \in PageNo, NEW j \in Index, tables'[u][j].frame # 0
      PROVE  tables'[u][j] = tables[u][j]
  BY <1>1 DEF TypeOK
<1> QED
  BY <1>1, IsolatedExpanded, IsolatedExpandedNext DEF IsolatedTables

LEMMA AllocFrameIsolated ==
    ASSUME TypeOK, Isolated, NEW d, NEW v, AllocFrame(d, v)
    PROVE  Isolated'
<1>1. CASE PageOf(d, v).frame = 0 /\ FreeFrames # {}
  <2>1. PICK f \in Frames :
           /\ GetFreeFrame(f)
           /\ frames' = Busy(f)
           /\ tables' = [tables EXCEPT ![TableOf(d, v)][Entry(v)] =
                           [frame |-> f, present |-> TRUE]]
    BY <1>1 DEF AllocFrame
  <2>2. f \in FreeFrames /\ frames' = frames \cup {f}
    BY <2>1 DEF GetFreeFrame, Busy
  <2> QED
    BY <2>1, <2>2, FreshIsolated
<1>2. CASE ~(PageOf(d, v).frame = 0 /\ FreeFrames # {})
  BY <1>2, IsolatedExpanded, IsolatedExpandedNext DEF AllocFrame, IsolatedTables
<1> QED
  BY <1>1, <1>2

\* No step puts a frame behind two pages.
LEMMA IsolatedStep == IInv /\ [Next]_vars => Isolated' /\ NothingMappedAtStart'
<1> SUFFICES ASSUME IInv, [Next]_vars PROVE Isolated' /\ NothingMappedAtStart'
  OBVIOUS
<1> USE DEF boot, structure, processor
<1>1. TypeOK /\ Isolated /\ NothingMappedAtStart /\ CloneInDirectory
  BY DEF IInv, Isolated
<1>2. UNCHANGED <<frames, tables>> => Isolated'
  BY <1>1, IsolatedExpanded, IsolatedExpandedNext DEF IsolatedTables
<1>3. pc' # "start" \/ UNCHANGED vars
  BY DEF Next, Boot, Clone, AllocateBitmap, MakeHeapTables, HeapTablesMade,
         MakeLowTable, MapLowPage, LowPagesMapped, MapHeapPage,
         HeapPagesMapped, EnablePaging, CloneFirstDirectory,
         FirstDirectoryCloned, MakeStackTable, MapStackPage, StackMapped,
         SkipSlot, LinkTable, CloneTable, LinkClone, SkipPage, ClonePage,
         ClonePageWithoutFrame, CopyInto, InLoop, InTable, NewDirectory, Fork,
         Forked, Switch, Store, PageFault, FreeFrame
<1>4. NothingMappedAtStart'
  BY <1>1, <1>3 DEF NothingMappedAtStart, vars
<1> SUFFICES Isolated'
  BY <1>4
<1>5. CASE AllocateBitmap
  <2>1. \A t \in PageNo, i \in Index : tables'[t][i].frame = 0
    BY <1>1, <1>5 DEF AllocateBitmap, NothingMappedAtStart
  <2> QED
    BY <2>1, IsolatedExpandedNext DEF IsolatedTables
<1>6. ASSUME NEW d, NEW v, MakeTable(d, v) PROVE Isolated'
  BY <1>1, <1>6, ResetIsolated DEF MakeTable
<1>7. CASE MakeHeapTables \/ MakeLowTable \/ MakeStackTable
  BY <1>2, <1>6, <1>7 DEF MakeHeapTables, MakeLowTable, MakeStackTable
<1>8. CASE MapLowPage \/ MapHeapPage \/ MapStackPage
  BY <1>1, <1>8, AllocFrameIsolated DEF MapLowPage, MapHeapPage, MapStackPage
<1>9. CASE CloneTable
  BY <1>1, <1>9, ResetIsolated DEF CloneTable
<1>10. CASE ClonePage
  <2>1. PICK f \in Frames : GetFreeFrame(f) /\ frames' = Busy(f) /\ CopyInto(f)
    BY <1>10 DEF ClonePage
  <2>2. f \in FreeFrames /\ frames' = frames \cup {f}
    BY <2>1 DEF GetFreeFrame, Busy
  <2> QED
    BY <1>1, <2>1, <2>2, FreshIsolated DEF CopyInto
<1>11. CASE ClonePageWithoutFrame
  <2> DEFINE page == [frame |-> 0, present |-> SourcePage.present]
  <2>1. page.frame = 0
    OBVIOUS
  <2>2. frames' = frames
        /\ tables' = [tables EXCEPT ![clone.table][clone.page] = page]
    BY <1>11 DEF ClonePageWithoutFrame, CopyInto
  <2> HIDE DEF page
  <2> QED
    BY <1>1, <2>1, <2>2, ZeroIsolated
<1>12. ASSUME NEW v \in Freeable, FreeFrame(v) PROVE Isolated'
  <2> DEFINE t == TableOf(currentPageDirectory, v)
             i == Entry(v)
             page == [tables[t][i] EXCEPT !.frame = 0]
  <2>1. t \in PageNo /\ i \in Index
    BY <1>1, SlotOfPage, PagingAssumption DEF TypeOK, TableOf, Link
  <2>2. tables[t][i] \in Page
    BY <1>1, <2>1 DEF TypeOK
  <2>3. page.frame = 0
    BY <2>2 DEF Page
  <2>4. frames' = frames /\ tables' = [tables EXCEPT ![t][i] = page]
    BY <1>12 DEF FreeFrame
  <2> HIDE DEF t, i, page
  <2> QED
    BY <1>1, <2>3, <2>4, ZeroIsolated
<1>13. CASE UNCHANGED <<frames, tables>>
  BY <1>2, <1>13
<1>14. CASE HeapTablesMade \/ LowPagesMapped \/ HeapPagesMapped
            \/ EnablePaging \/ CloneFirstDirectory \/ FirstDirectoryCloned
            \/ StackMapped
  BY <1>13, <1>14
     DEF HeapTablesMade, LowPagesMapped, HeapPagesMapped, EnablePaging,
         CloneFirstDirectory, NewDirectory, FirstDirectoryCloned, StackMapped
<1>15. CASE SkipSlot \/ LinkTable \/ LinkClone \/ SkipPage \/ Fork \/ Forked
  BY <1>13, <1>15
     DEF SkipSlot, LinkTable, LinkClone, SkipPage, Fork, NewDirectory, Forked
<1>16. ASSUME NEW v, NEW x, Store(v, x) \/ Switch(v) \/ PageFault(v)
       PROVE Isolated'
  BY <1>13, <1>16 DEF Store, Switch, PageFault
<1>17. CASE UNCHANGED vars
  BY <1>13, <1>17 DEF vars
<1> QED
  BY <1>5, <1>7, <1>8, <1>9, <1>10, <1>11, <1>12, <1>14, <1>15, <1>16,
     <1>17
     DEF Next, Boot, Clone

-----------------------------------------------------------------------------
\* The strengthened invariant holds throughout.
THEOREM Invariance == Spec => []IInv
<1>1. Init => IInv
  BY InitInvariant
<1>2. IInv /\ [Next]_vars => IInv'
  BY TypeStep, CloneStep, IsolatedStep DEF IInv, Isolated
<1> QED
  BY <1>1, <1>2, PTL DEF Spec

\* Tables, directories, the bitmap and the locals of the clone loops stay in
\* their ranges, for every geometry: no loop runs over a table's or a
\* directory's end, and no link leads outside the address space.
THEOREM TypeCorrect == Spec => []TypeOK
<1>1. IInv => TypeOK
  BY DEF IInv
<1> QED
  BY <1>1, Invariance, PTL

\* A frame some page table names is marked busy in the bitmap.
THEOREM BitmapCorrect == Spec => []MappedFramesBusy
<1>1. IInv => MappedFramesBusy
  BY DEF IInv
<1> QED
  BY <1>1, Invariance, PTL

\* Two pages never share a frame, except frame 0, even when frames run out
\* in the middle of a clone and whatever was found behind the bitmap.
THEOREM FramesIsolated == Spec => []FrameIsolation
<1>1. IInv => FrameIsolation
  BY DEF IInv
<1> QED
  BY <1>1, Invariance, PTL
-----------------------------------------------------------------------------
(***************************************************************************)
(* Which page tables processes share, for every geometry that satisfies    *)
(* PagingAssumption: the kernel's and no other.                            *)
(*                                                                         *)
(* clonePageDirectory takes a table for the kernel's if the kernel's       *)
(* directory has it too.  That it is right in this rests on where it is    *)
(* called from: the source is the kernel's directory or that of a process, *)
(* in which all that the kernel's has is the kernel's, and the kernel's    *)
(* directory gets no more tables once it has been cloned.  That what it    *)
(* allocates is nobody else's rests on kmalloc, which never returns a      *)
(* block twice.                                                            *)
(***************************************************************************)

(* The invariant.                                                          *)

\* Pages kmalloc has given away: below the boot allocator's pointer, and the
\* part of the heap that is taken.
Used(p) == p < AlignUp(placement) \/ (HeapStart <= p /\ p < heapNext)

\* Whatever is in use was given away.
Allocated ==
    /\ HeapStart <= heapNext
    /\ pc # "start" =>
          /\ AlignUp(placement) <= HeapStart
          /\ \A d \in Directories : Used(d)
    /\ \A d \in PageNo, s \in Slots : dirs[d][s].table # 0 => Used(dirs[d][s].table)
    /\ clone.table # 0 => Used(clone.table)
    /\ pc = "clone" => Used(clone.dir)

\* The table that is being filled is in no directory yet, and it is for a slot
\* in which the kernel has none.
Unlinked ==
    clone.table # 0 =>
        /\ \A d \in PageNo, s \in Slots : dirs[d][s].table # clone.table
        /\ dirs[pageDirectory][clone.slot].table = 0

Booting == pc \in {"start", "tables", "low", "heap", "enable", "heapInit"}

\* Where the kernel thread runs from.
Phases ==
    /\ Booting => spaces = {} /\ currentPageDirectory = pageDirectory
    /\ pc = "stack" => spaces = {} /\ currentPageDirectory # pageDirectory
    /\ pc \in {"run", "halted"} => currentPageDirectory \in spaces
    /\ pc = "clone" =>
          /\ spaces = {} => currentPageDirectory = pageDirectory
          /\ spaces # {} => currentPageDirectory \in spaces
          /\ clone.dir \notin Directories
    /\ pc # "clone" => clone.table = 0
    /\ pageDirectory \notin spaces

\* Slot s of a directory: the kernel's link, or a table that none of the
\* processes has there.
Apart(d, s) ==
    IF dirs[pageDirectory][s].table # 0
    THEN dirs[d][s] = dirs[pageDirectory][s]
    ELSE \A e \in spaces \ {d} :
            dirs[d][s].table # 0 => dirs[d][s].table # dirs[e][s].table

\* Of the clone, as far as it has got.
CloneApart ==
    pc = "clone" =>
        \A s \in Slots : IF s < clone.slot THEN Apart(clone.dir, s)
                                           ELSE dirs[clone.dir][s].table = 0

FirstApart == pc = "stack" => \A s \in Slots : Apart(currentPageDirectory, s)

SInv ==
    /\ Allocated /\ Unlinked /\ Phases
    /\ TablesShared /\ CloneApart /\ FirstApart

-----------------------------------------------------------------------------
(* kmalloc.                                                                *)

\* A block that starts at a page ends as many pages later as its size takes.
LEMMA AlignUpShift ==
    ASSUME NEW n \in Nat, NEW a \in Nat
    PROVE  AlignUp(n * PageSize + a) = n + AlignUp(a)
<1> DEFINE P == PageSize
           b == a + P - 1
           q == b \div P
           r == b % P
<1>1. P \in Nat /\ P > 0
  BY PagingAssumption
<1>2. b \in Nat
  BY <1>1
<1>3. q \in Nat /\ r \in 0 .. P - 1 /\ b = P * q + r
  BY <1>1, <1>2, SMT
<1> HIDE DEF q, r, b, P
<1>4. n * P + b = P * (n + q) + r
  BY <1>1, <1>2, <1>3, SMT
<1>5. (n * P + b) \div P = n + q
  <2> DEFINE x == n * P + b
             y == x \div P
             z == x % P
  <2>1. x \in Nat
    BY <1>1, <1>2, SMT
  <2>2. y \in Int /\ z \in 0 .. P - 1 /\ x = P * y + z
    BY <1>1, <2>1, SMT
  <2>3. P * (y - (n + q)) = r - z
    BY <1>1, <1>3, <1>4, <2>2, SMT
  <2> HIDE DEF x, y, z
  <2>4. ~(y - (n + q) >= 1)
    BY <1>1, <1>3, <2>2, <2>3, SMT
  <2>5. ~(y - (n + q) <= -1)
    BY <1>1, <1>3, <2>2, <2>3, SMT
  <2> QED
    BY <1>3, <2>2, <2>4, <2>5, SMT DEF y, x
<1>6. n * P + a + P - 1 = n * P + b
  BY <1>1, SMT DEF b
<1> QED
  BY <1>5, <1>6 DEF AlignUp, P, q, b

\* A block is new, and stays given away.
LEMMA BlockNew ==
    ASSUME TypeOK, Allocated, pc # "start", NEW size \in Nat \ {0}, Reserve(size),
           NEW b, b = NewBlock
    PROVE  /\ b \in PageNo /\ ~Used(b) /\ Used(b)'
           /\ \A p \in PageNo : Used(p) => Used(p)'
           /\ HeapStart <= heapNext' /\ AlignUp(placement') <= HeapStart
<1> DEFINE low == AlignUp(placement)
           pages == AlignUp(size)
           lowNext == AlignUp(placement')
<1>1. /\ low \in Nat /\ pages \in Nat /\ pages > 0
      /\ heapNext \in Nat /\ HeapStart \in Nat /\ size \in Nat
  BY AlignUpNat, PagingAssumption DEF TypeOK
<1>2. b \in PageNo /\ PageNo \subseteq Nat
  BY ReserveType DEF PageNo
<1>3. low <= HeapStart /\ HeapStart <= heapNext
  BY DEF Allocated
<1>4. /\ \A p : Used(p) <=> (p < low \/ (HeapStart <= p /\ p < heapNext))
      /\ \A p : Used(p)' <=> (p < lowNext \/ (HeapStart <= p /\ p < heapNext'))
  BY DEF Used
<1>5. CASE HeapEnabled
  <2>1. b = heapNext /\ heapNext' = heapNext + pages /\ placement' = placement
    BY <1>5 DEF NewBlock, Reserve
  <2>2. lowNext = low
    BY <2>1
  <2> HIDE DEF low, pages, lowNext
  <2>3. ~Used(b) /\ Used(b)' /\ \A p \in PageNo : Used(p) => Used(p)'
    BY <1>1, <1>2, <1>3, <1>4, <2>1, <2>2
  <2> QED
    BY <1>1, <1>2, <1>3, <2>1, <2>2, <2>3 DEF lowNext
<1>6. CASE ~HeapEnabled
  <2>1. /\ b = low /\ heapNext' = heapNext /\ placement' = b * PageSize + size
        /\ b + pages <= HeapStart
    BY <1>6 DEF NewBlock, Reserve, Room
  <2>2. lowNext = b + pages
    BY <1>1, <1>2, <2>1, AlignUpShift
  <2> HIDE DEF low, pages, lowNext
  <2>3. ~Used(b) /\ Used(b)' /\ \A p \in PageNo : Used(p) => Used(p)'
    BY <1>1, <1>2, <1>3, <1>4, <2>1, <2>2
  <2> QED
    BY <1>1, <1>2, <1>3, <2>1, <2>2, <2>3 DEF lowNext
<1> QED
  BY <1>5, <1>6

\* What is given away stays so while no block is taken.
LEMMA UsedStays ==
    ASSUME UNCHANGED boot
    PROVE  \A p : Used(p)' <=> Used(p)
BY DEF boot, Used

-----------------------------------------------------------------------------
(* Steps that change no directory.                                         *)

\* The tables of a directory and the parts of the invariant that only
\* depend on them.
LEMMA Unmoved ==
    ASSUME UNCHANGED <<dirs, pageDirectory, spaces>>
    PROVE  /\ \A d, s : Apart(d, s)' <=> Apart(d, s)
           /\ TablesShared' <=> TablesShared
BY DEF Apart, TablesShared

\* The boot loops between the start and the first clone.
LEMMA BootStep ==
    ASSUME SInv, Booting, Booting', pc # "start",
           UNCHANGED <<boot, dirs, pageDirectory, spaces, clone>>,
           currentPageDirectory' = pageDirectory
    PROVE  SInv'
<1>1. spaces = {} /\ currentPageDirectory = pageDirectory /\ clone.table = 0
  BY DEF SInv, Phases, Booting
<1>2. pc' \notin {"clone", "stack", "run", "halted"}
  BY DEF Booting
<1>3. Allocated'
  BY <1>1, <1>2, UsedStays DEF SInv, Allocated, Directories, boot
<1>4. Unlinked' /\ Phases'
  BY <1>1, <1>2 DEF SInv, Unlinked, Phases
<1>5. TablesShared' /\ CloneApart' /\ FirstApart'
  BY <1>1, <1>2 DEF TablesShared, CloneApart, FirstApart
<1> QED
  BY <1>3, <1>4, <1>5 DEF SInv

\* A process runs, faults or is switched to.
LEMMA RunStep ==
    ASSUME SInv, pc = "run", pc' \in {"run", "halted"},
           UNCHANGED <<boot, dirs, pageDirectory, spaces, clone>>,
           currentPageDirectory' \in spaces
    PROVE  SInv'
<1>1. clone.table = 0
  BY DEF SInv, Phases
<1>2. Allocated'
  BY <1>1, UsedStays DEF SInv, Allocated, Directories, boot
<1>3. Unlinked' /\ Phases'
  BY <1>1 DEF SInv, Unlinked, Phases, Booting
<1>4. TablesShared' /\ CloneApart' /\ FirstApart'
  BY Unmoved DEF SInv, CloneApart, FirstApart
<1> QED
  BY <1>2, <1>3, <1>4 DEF SInv

\* A page of the first stack is mapped.
LEMMA StackStep ==
    ASSUME SInv, pc = "stack", pc' = "stack",
           UNCHANGED <<boot, dirs, pageDirectory, currentPageDirectory, spaces, clone>>
    PROVE  SInv'
<1>1. clone.table = 0
  BY DEF SInv, Phases
<1>2. Allocated'
  BY <1>1, UsedStays DEF SInv, Allocated, Directories, boot
<1>3. Unlinked' /\ Phases'
  BY <1>1 DEF SInv, Unlinked, Phases, Booting, Directories
<1>4. TablesShared' /\ CloneApart' /\ FirstApart'
  BY Unmoved DEF SInv, CloneApart, FirstApart
<1> QED
  BY <1>2, <1>3, <1>4 DEF SInv

\* A page of a table is cloned.
LEMMA PageStep ==
    ASSUME SInv, pc = "clone", pc' = "clone",
           UNCHANGED <<boot, dirs, pageDirectory, currentPageDirectory, spaces>>,
           clone'.dir = clone.dir, clone'.slot = clone.slot,
           clone'.table = clone.table
    PROVE  SInv'
<1>1. Allocated'
  BY UsedStays DEF SInv, Allocated, Directories, boot
<1>2. Unlinked' /\ Phases'
  BY DEF SInv, Unlinked, Phases, Booting, Directories
<1>3. TablesShared' /\ CloneApart' /\ FirstApart'
  BY Unmoved DEF SInv, CloneApart, FirstApart
<1> QED
  BY <1>1, <1>2, <1>3 DEF SInv

-----------------------------------------------------------------------------
(* Booting.                                                                *)

LEMMA InitShared == Init => SInv
<1> SUFFICES ASSUME Init PROVE SInv
  OBVIOUS
<1>1. /\ pc = "start" /\ spaces = {} /\ clone.table = 0
      /\ currentPageDirectory = pageDirectory /\ heapNext >= HeapStart
      /\ \A d \in PageNo, s \in Slots : dirs[d][s].table = 0
  BY PagingAssumption DEF Init, NoClone, ZeroDirectory, NullLink
<1> QED
  BY <1>1, PagingAssumption
     DEF SInv, Allocated, Unlinked, Phases, TablesShared, CloneApart, FirstApart,
         Directories, Booting

\* When the kernel's directory is made there is no table yet, nor when the
\* first one is: the directories are empty at power on.
EmptyAtStart ==
    pc = "start" => \A d \in PageNo, s \in Slots : dirs[d][s].table = 0

LEMMA BitmapShared ==
    ASSUME TypeOK, SInv, EmptyAtStart, AllocateBitmap
    PROVE  SInv'
<1> DEFINE dir == AlignUp(placement + BitmapSize)
           low == AlignUp(placement')
<1>1. /\ pc = "start" /\ pc' = "tables" /\ placement' = dir * PageSize + DirectorySize
      /\ dir + AlignUp(DirectorySize) <= HeapStart
      /\ pageDirectory' = dir /\ currentPageDirectory' = dir
      /\ UNCHANGED <<heapNext, dirs, spaces, clone>>
  BY DEF AllocateBitmap
<1>2. /\ dir \in Nat /\ AlignUp(DirectorySize) \in Nat /\ AlignUp(DirectorySize) > 0
      /\ DirectorySize \in Nat /\ HeapStart \in Nat
  BY AlignUpNat, PagingAssumption, SMT DEF TypeOK
<1> HIDE DEF dir
<1>3. low = dir + AlignUp(DirectorySize)
  BY <1>1, <1>2, AlignUpShift
<1> HIDE DEF low
<1>4. spaces = {} /\ clone.table = 0 /\ HeapStart <= heapNext
  BY <1>1 DEF SInv, Phases, Booting, Allocated
<1>5. \A d \in Directories' : d < low
  BY <1>1, <1>2, <1>3, <1>4 DEF Directories
<1>6. Allocated'
  BY <1>1, <1>2, <1>3, <1>4, <1>5 DEF Allocated, Used, EmptyAtStart, low
<1>7. Unlinked' /\ Phases'
  BY <1>1, <1>4 DEF Unlinked, Phases, Booting
<1>8. TablesShared' /\ CloneApart' /\ FirstApart'
  BY <1>1, <1>4 DEF TablesShared, CloneApart, FirstApart
<1> QED
  BY <1>6, <1>7, <1>8 DEF SInv

\* A table is made in a directory; what was allocated stays so.
LEMMA TableMade ==
    ASSUME TypeOK, SInv, pc # "start", pc' = pc,
           NEW d \in PageNo, NEW v, MakeTable(d, v),
           UNCHANGED <<processor, spaces, clone>>
    PROVE  /\ Allocated' /\ HeapStart <= heapNext'
           /\ \A e \in PageNo, s \in Slots : e # d => dirs'[e][s] = dirs[e][s]
           /\ \A s \in Slots :
                 \/ dirs'[d][s] = dirs[d][s]
                 \/ /\ s = Slot(v)
                    /\ \A e \in PageNo, t \in Slots :
                          dirs[e][t].table # 0 => dirs'[d][s].table # dirs[e][t].table
<1> DEFINE link == [table |-> NewBlock, phys |-> Physical(NewBlock)]
<1>1. /\ Reserve(PageSize) /\ dirs' = [dirs EXCEPT ![d][Slot(v)] = link]
      /\ UNCHANGED <<pageDirectory, currentPageDirectory>>
  BY DEF MakeTable, processor
<1>2. PICK b : b = NewBlock
  OBVIOUS
<1>3. link.table = b
  BY <1>2
<1>4. PageSize \in Nat \ {0} /\ Allocated
  BY PagingAssumption DEF SInv
<1>5. /\ b \in PageNo /\ ~Used(b) /\ Used(b)'
      /\ \A p \in PageNo : Used(p) => Used(p)'
      /\ HeapStart <= heapNext' /\ AlignUp(placement') <= HeapStart
  BY <1>1, <1>2, <1>4, BlockNew
<1> HIDE DEF link
<1>6. \A e \in PageNo, s \in Slots :
         dirs'[e][s] = IF e = d /\ s = Slot(v) THEN link ELSE dirs[e][s]
  BY <1>1 DEF TypeOK
<1>7. \A e \in PageNo, s \in Slots : dirs[e][s].table \in PageNo
  BY DEF TypeOK, Link
<1>8. Directories' = Directories /\ Directories \subseteq PageNo
  BY <1>1 DEF Directories, TypeOK
<1>9. ASSUME NEW e \in PageNo, NEW s \in Slots,
             NEW t, t = dirs'[e][s].table, t # 0
      PROVE  Used(t)'
  <2>1. t = b \/ (t = dirs[e][s].table /\ t # 0)
    BY <1>3, <1>6, <1>9
  <2>2. CASE t = b
    BY <1>5, <2>2
  <2>3. CASE t = dirs[e][s].table /\ t # 0
    <3>1. Used(t)
      BY <1>4, <2>3 DEF Allocated
    <3> QED
      BY <1>5, <1>7, <2>3, <3>1
  <2> QED
    BY <2>1, <2>2, <2>3
<1>10. clone.table \in PageNo /\ clone.dir \in PageNo
  BY DEF TypeOK, CloneLocals
<1>11. Allocated'
  <2>1. \A e \in Directories' : Used(e)'
    BY <1>4, <1>5, <1>8 DEF Allocated
  <2>2. ASSUME NEW p \in {clone.table, clone.dir}, Used(p)
        PROVE  Used(p)'
    BY <1>5, <1>10, <2>2
  <2>3. /\ clone'.table # 0 => Used(clone.table)'
        /\ pc' = "clone" => Used(clone.dir)'
    BY <1>4, <2>2 DEF Allocated, Used
  <2>4. \A e \in PageNo, s \in Slots :
           dirs'[e][s].table # 0 => Used(dirs[e][s].table)'
    BY <1>9 DEF Used
  <2> QED
    BY <1>4, <1>5, <2>1, <2>3, <2>4 DEF Allocated
<1>12. \A e \in PageNo, t \in Slots : dirs[e][t].table # 0 => b # dirs[e][t].table
  BY <1>4, <1>5 DEF Allocated
<1> QED
  BY <1>3, <1>5, <1>6, <1>11, <1>12

LEMMA BootTableShared ==
    ASSUME TypeOK, SInv, Booting, pc # "start", pc' = pc,
           NEW v, MakeTable(pageDirectory, v), UNCHANGED <<processor, spaces, clone>>
    PROVE  SInv'
<1>1. /\ spaces = {} /\ currentPageDirectory = pageDirectory /\ clone.table = 0
      /\ pc \notin {"clone", "stack", "run", "halted"}
  BY DEF SInv, Phases, Booting
<1>2. Allocated'
  BY TableMade DEF TypeOK
<1>3. Unlinked' /\ Phases'
  BY <1>1 DEF Unlinked, Phases, Booting, processor
<1>4. TablesShared' /\ CloneApart' /\ FirstApart'
  BY <1>1 DEF TablesShared, CloneApart, FirstApart
<1> QED
  BY <1>2, <1>3, <1>4 DEF SInv

-----------------------------------------------------------------------------
(* The first stack.                                                        *)

LEMMA StackTableShared ==
    ASSUME TypeOK, SInv, MakeStackTable
    PROVE  SInv'
<1> DEFINE d == currentPageDirectory
<1>1. /\ pc = "stack" /\ pc' = pc /\ TableOf(d, cursor) = 0 /\ MakeTable(d, cursor)
      /\ UNCHANGED <<processor, spaces, clone>>
  BY DEF MakeStackTable
<1>2. spaces = {} /\ d # pageDirectory /\ clone.table = 0
  BY <1>1 DEF SInv, Phases
<1>3. d \in PageNo /\ pageDirectory \in PageNo
  BY DEF TypeOK
<1>4. /\ Allocated'
      /\ \A s \in Slots : dirs'[pageDirectory][s] = dirs[pageDirectory][s]
      /\ \A s \in Slots : dirs'[d][s] = dirs[d][s] \/ s = Slot(cursor)
  BY <1>1, <1>2, <1>3, TableMade
<1>5. /\ d' = d /\ pageDirectory' = pageDirectory /\ spaces' = spaces
      /\ clone' = clone /\ pc' = "stack"
  BY <1>1 DEF processor
<1>6. ASSUME NEW s \in Slots
      PROVE  Apart(d, s)'
  <2>1. dirs[pageDirectory][s].table # 0 => dirs[d][s] = dirs[pageDirectory][s]
    BY <1>1 DEF SInv, FirstApart, Apart
  <2>2. s = Slot(cursor) => dirs[pageDirectory][s].table = 0
    BY <1>1, <2>1 DEF TableOf
  <2>3. dirs'[pageDirectory][s].table # 0 => dirs'[d][s] = dirs'[pageDirectory][s]
    BY <1>4, <2>1, <2>2
  <2> QED
    BY <1>2, <1>5, <2>3 DEF Apart
<1>7. Unlinked' /\ Phases'
  BY <1>2, <1>5 DEF Unlinked, Phases, Booting
<1>8. TablesShared' /\ CloneApart' /\ FirstApart'
  BY <1>2, <1>5, <1>6 DEF TablesShared, CloneApart, FirstApart
<1> QED
  BY <1>4, <1>7, <1>8 DEF SInv

\* The first process has the stack to itself.
LEMMA StackMappedShared ==
    ASSUME SInv, StackMapped
    PROVE  SInv'
<1>1. /\ pc = "stack" /\ pc' = "run" /\ spaces' = {currentPageDirectory}
      /\ UNCHANGED <<boot, dirs, pageDirectory, currentPageDirectory, clone>>
  BY DEF StackMapped, structure, processor
<1>2. spaces = {} /\ currentPageDirectory # pageDirectory /\ clone.table = 0
  BY <1>1 DEF SInv, Phases
<1>3. Allocated'
  BY <1>1, <1>2, UsedStays DEF SInv, Allocated, Directories, boot
<1>4. Unlinked' /\ Phases'
  BY <1>1, <1>2 DEF Unlinked, Phases, Booting
<1>5. TablesShared'
  BY <1>1 DEF SInv, FirstApart, Apart, TablesShared
<1> QED
  BY <1>1, <1>3, <1>4, <1>5 DEF SInv, CloneApart, FirstApart

-----------------------------------------------------------------------------
(* The clone.                                                              *)

\* It starts with an empty directory that nobody uses.
LEMMA DirectoryShared ==
    ASSUME TypeOK, SInv, pc \in {"heapInit", "run"}, NewDirectory, UNCHANGED processor
    PROVE  SInv'
<1>1. /\ Reserve(DirectorySize) /\ clone' = [NoClone EXCEPT !.dir = NewBlock]
      /\ dirs' = [dirs EXCEPT ![NewBlock] = ZeroDirectory]
      /\ pc' = "clone" /\ UNCHANGED <<spaces, pageDirectory, currentPageDirectory>>
  BY DEF NewDirectory, processor
<1>2. PICK b : b = NewBlock
  OBVIOUS
<1>3. DirectorySize \in Nat \ {0} /\ Allocated
  BY PagingAssumption DEF SInv
<1>4. /\ b \in PageNo /\ ~Used(b) /\ Used(b)'
      /\ \A p \in PageNo : Used(p) => Used(p)'
      /\ HeapStart <= heapNext' /\ AlignUp(placement') <= HeapStart
  BY <1>1, <1>2, <1>3, BlockNew
<1>5. clone'.dir = b /\ clone'.table = 0 /\ clone'.slot = 0
  BY <1>1, <1>2 DEF NoClone
<1>6. /\ \A s \in Slots : dirs'[b][s].table = 0
      /\ \A e \in PageNo : e # b => dirs'[e] = dirs[e]
  BY <1>1, <1>2, <1>4 DEF TypeOK, ZeroDirectory, NullLink
<1>7. Directories' = Directories /\ Directories \subseteq PageNo
  BY <1>1 DEF Directories, TypeOK
<1>8. b \notin Directories
  BY <1>3, <1>4 DEF Allocated
<1>9. Allocated'
  <2>1. \A e \in Directories' : Used(e)'
    BY <1>3, <1>4, <1>7 DEF Allocated
  <2>2. ASSUME NEW e \in PageNo, NEW s \in Slots,
               NEW t, t = dirs'[e][s].table, t # 0
        PROVE  Used(t)'
    <3>1. t = dirs[e][s].table /\ t \in PageNo
      BY <1>6, <2>2 DEF TypeOK, Link
    <3>2. Used(t)
      BY <1>3, <2>2, <3>1 DEF Allocated
    <3> QED
      BY <1>4, <3>1, <3>2
  <2>3. \A e \in PageNo, s \in Slots :
           dirs'[e][s].table # 0 => Used(dirs[e][s].table)'
    BY <2>2 DEF Used
  <2>4. Used(clone.dir)'
    BY <1>4, <1>5 DEF Used
  <2> QED
    BY <1>4, <1>5, <2>1, <2>3, <2>4 DEF Allocated
<1>10. Unlinked' /\ Phases'
  <2>1. /\ spaces = {} => currentPageDirectory = pageDirectory
        /\ spaces # {} => currentPageDirectory \in spaces
        /\ pageDirectory \notin spaces
    BY DEF SInv, Phases, Booting
  <2> QED
    BY <1>1, <1>5, <1>7, <1>8, <2>1 DEF Unlinked, Phases, Booting
<1>11. \A e \in Directories : dirs'[e] = dirs[e]
  BY <1>6, <1>7, <1>8
<1>12. TablesShared'
  BY <1>1, <1>11 DEF SInv, TablesShared, Directories
<1>13. CloneApart'
  BY <1>5, <1>6 DEF CloneApart, Slots
<1> QED
  BY <1>1, <1>9, <1>10, <1>12, <1>13 DEF SInv, FirstApart

\* What the source has in the slot: the kernel's table if it has one.
LEMMA SourceApart ==
    ASSUME TypeOK, SInv, pc = "clone", clone.slot < SlotNumber
    PROVE  /\ clone.slot \in Slots /\ clone.dir \in PageNo
           /\ KernelLink.table # 0 => SourceLink = KernelLink
<1>1. clone.slot \in Slots /\ clone.dir \in PageNo
  BY PagingAssumption DEF TypeOK, CloneLocals, Slots
<1>2. CASE currentPageDirectory = pageDirectory
  BY <1>1, <1>2 DEF SourceLink, KernelLink
<1>3. CASE currentPageDirectory \in spaces
  BY <1>1, <1>3 DEF SInv, TablesShared, SourceLink, KernelLink
<1> QED
  BY <1>1, <1>2, <1>3 DEF SInv, Phases

\* The slot is done: it holds the kernel's link, or a table of its own.
LEMMA SlotDone ==
    ASSUME TypeOK, SInv, pc = "clone", pc' = "clone", clone.slot < SlotNumber,
           NEW link, dirs' = [dirs EXCEPT ![clone.dir][clone.slot] = link],
           link.table # 0 => Used(link.table),
           KernelLink.table # 0 => link = KernelLink,
           KernelLink.table = 0 /\ link.table # 0 =>
              \A e \in PageNo, t \in Slots : dirs[e][t].table # link.table,
           NextSlot, UNCHANGED <<boot, processor, spaces>>
    PROVE  SInv'
<1> DEFINE kernel == pageDirectory
<1>0. PICK c, s : c = clone.dir /\ s = clone.slot
  OBVIOUS
<1>1. /\ s \in Slots /\ c \in PageNo /\ kernel \in PageNo
      /\ Directories \subseteq PageNo /\ s \in Int
  BY <1>0, SourceApart DEF TypeOK, Slots, Directories
<1>2. clone'.dir = c /\ clone'.slot = s + 1 /\ clone'.table = 0
  BY <1>0 DEF NextSlot, TypeOK, CloneLocals
<1>3. /\ kernel' = kernel /\ currentPageDirectory' = currentPageDirectory
      /\ spaces' = spaces /\ Directories' = Directories
  BY DEF processor, Directories
<1>4. c \notin Directories
  BY <1>0 DEF SInv, Phases
<1>5. \A e \in PageNo, t \in Slots :
         dirs'[e][t] = IF e = c /\ t = s THEN link ELSE dirs[e][t]
  BY <1>0, <1>1 DEF TypeOK
<1>6. \A e \in Directories, t \in Slots : dirs'[e][t] = dirs[e][t]
  BY <1>1, <1>4, <1>5
<1>7. Allocated'
  <2>1. \A p : Used(p)' <=> Used(p)
    BY UsedStays
  <2>2. ASSUME NEW e \in PageNo, NEW t \in Slots,
               NEW p, p = dirs'[e][t].table, p # 0
        PROVE  Used(p)'
    <3>1. p = link.table \/ p = dirs[e][t].table
      BY <1>5, <2>2
    <3>2. Used(p)
      BY <2>2, <3>1 DEF SInv, Allocated
    <3> QED
      BY <2>1, <3>2
  <2>3. \A e \in PageNo, t \in Slots :
           dirs'[e][t].table # 0 => Used(dirs[e][t].table)'
    BY <2>2 DEF Used
  <2>4. \A d \in Directories' : Used(d)'
    BY <1>3, <2>1 DEF SInv, Allocated
  <2>5. Used(clone.dir)'
    BY <1>0, <1>2, <2>1 DEF SInv, Allocated, Used
  <2>6. HeapStart <= heapNext' /\ AlignUp(placement') <= HeapStart
    BY DEF SInv, Allocated, boot
  <2> QED
    BY <1>2, <2>3, <2>4, <2>5, <2>6 DEF Allocated
<1>8. Unlinked' /\ Phases'
  BY <1>2, <1>3, <1>4 DEF SInv, Unlinked, Phases, Booting
<1>9. TablesShared'
  BY <1>3, <1>6 DEF SInv, TablesShared, Directories
<1>10. ASSUME NEW t \in Slots
       PROVE  IF t < s + 1 THEN Apart(c, t)' ELSE dirs'[c][t].table = 0
  <2>1. kernel \in Directories /\ spaces \subseteq Directories
    BY DEF Directories
  <2> DEFINE old(e) == dirs[e][t]
             new(e) == dirs'[e][t]
  <2>2. new(kernel) = old(kernel) /\ \A e \in spaces : new(e) = old(e)
    BY <1>6, <2>1
  <2>3. CASE t = s
    <3>1. new(c) = link
      BY <1>1, <1>5, <2>3
    <3>2. old(kernel) = KernelLink
      BY <1>0, <2>3 DEF KernelLink
    <3>3. \A e \in spaces : KernelLink.table = 0 /\ link.table # 0
                               => old(e).table # link.table
      BY <1>1 DEF Directories
    <3>4. /\ new(kernel).table # 0 => new(c) = new(kernel)
          /\ new(kernel).table = 0 =>
                \A e \in spaces : new(c).table # 0 => new(c).table # new(e).table
      BY <2>2, <3>1, <3>2, <3>3
    <3>5. Apart(c, t)'
      BY <1>3, <3>4 DEF Apart
    <3> QED
      BY <1>1, <2>3, <3>5
  <2>4. CASE t # s
    <3>1. new(c) = old(c)
      BY <1>1, <1>5, <2>4
    <3>2. IF t < s THEN Apart(c, t) ELSE old(c).table = 0
      BY <1>0 DEF SInv, CloneApart
    <3>3. t < s + 1 <=> t < s
      BY <1>1, <2>4 DEF Slots
    <3>4. Apart(c, t) => Apart(c, t)'
      BY <1>3, <2>2, <3>1 DEF Apart
    <3> QED
      BY <3>1, <3>2, <3>3, <3>4
  <2> QED
    BY <2>3, <2>4
<1>11. CloneApart'
  BY <1>2, <1>10 DEF CloneApart, Apart
<1> QED
  BY <1>7, <1>8, <1>9, <1>11 DEF SInv, FirstApart

LEMMA SkipSlotShared ==
    ASSUME TypeOK, SInv, SkipSlot
    PROVE  SInv'
<1> DEFINE link == dirs[clone.dir][clone.slot]
<1>1. /\ pc = "clone" /\ pc' = "clone" /\ clone.slot < SlotNumber
      /\ SourceLink.table = 0 /\ NextSlot
      /\ UNCHANGED <<boot, dirs, processor, spaces>>
  BY DEF SkipSlot, InLoop, structure
<1>2. clone.slot \in Slots /\ clone.dir \in PageNo /\ KernelLink.table = 0
  BY <1>1, SourceApart
<1>3. dirs' = [dirs EXCEPT ![clone.dir][clone.slot] = link]
  BY <1>1, <1>2 DEF TypeOK
<1>4. link.table = 0
  BY <1>1, <1>2 DEF SInv, CloneApart, Slots
<1> HIDE DEF link
<1> QED
  BY <1>1, <1>2, <1>3, <1>4, SlotDone

LEMMA LinkTableShared ==
    ASSUME TypeOK, SInv, LinkTable
    PROVE  SInv'
<1>1. /\ pc = "clone" /\ pc' = "clone" /\ clone.slot < SlotNumber
      /\ SourceLink.table # 0 /\ SourceLink.table = KernelLink.table
      /\ dirs' = [dirs EXCEPT ![clone.dir][clone.slot] = SourceLink]
      /\ NextSlot /\ UNCHANGED <<boot, processor, spaces>>
  BY DEF LinkTable, InLoop, IsKernelTable
<1>2. SourceLink = KernelLink
  BY <1>1, SourceApart
<1>3. Used(SourceLink.table)
  <2>1. clone.slot \in Slots /\ currentPageDirectory \in PageNo
    BY <1>1, SourceApart DEF TypeOK
  <2>2. dirs[currentPageDirectory][clone.slot].table # 0
    BY <1>1 DEF SourceLink
  <2> QED
    BY <2>1, <2>2 DEF SInv, Allocated, SourceLink
<1>4. PICK link : link = SourceLink
  OBVIOUS
<1> QED
  BY <1>1, <1>2, <1>3, <1>4, SlotDone

LEMMA LinkCloneShared ==
    ASSUME TypeOK, CloneInDirectory, SInv, LinkClone
    PROVE  SInv'
<1> DEFINE link == [table |-> clone.table, phys |-> clone.phys]
<1>1. /\ pc = "clone" /\ pc' = "clone" /\ clone.table # 0
      /\ dirs' = [dirs EXCEPT ![clone.dir][clone.slot] = link]
      /\ NextSlot /\ UNCHANGED <<boot, processor, spaces>>
  BY DEF LinkClone
<1>2. clone.slot < SlotNumber
  BY <1>1 DEF CloneInDirectory
<1>3. link.table = clone.table /\ Used(clone.table)
  BY <1>1 DEF SInv, Allocated
<1>4. /\ KernelLink.table = 0
      /\ \A e \in PageNo, t \in Slots : dirs[e][t].table # clone.table
  BY <1>1 DEF SInv, Unlinked, KernelLink
<1> HIDE DEF link
<1> QED
  BY <1>1, <1>2, <1>3, <1>4, SlotDone

\* A block for a table no directory has.
LEMMA CloneTableShared ==
    ASSUME TypeOK, SInv, CloneTable
    PROVE  SInv'
<1>1. /\ pc = "clone" /\ pc' = "clone" /\ clone.slot < SlotNumber
      /\ SourceLink.table # KernelLink.table /\ Reserve(PageSize)
      /\ clone' = [clone EXCEPT !.table = NewBlock, !.phys = Physical(NewBlock),
                                !.page = 0]
      /\ UNCHANGED <<dirs, pageDirectory, currentPageDirectory, spaces>>
  BY DEF CloneTable, InLoop, IsKernelTable, processor
<1>2. PICK b : b = NewBlock
  OBVIOUS
<1>3. PageSize \in Nat \ {0} /\ Allocated
  BY PagingAssumption DEF SInv
<1>4. /\ b \in PageNo /\ ~Used(b) /\ Used(b)'
      /\ \A p \in PageNo : Used(p) => Used(p)'
      /\ HeapStart <= heapNext' /\ AlignUp(placement') <= HeapStart
  BY <1>1, <1>2, <1>3, BlockNew
<1>5. clone'.dir = clone.dir /\ clone'.slot = clone.slot /\ clone'.table = b
  BY <1>1, <1>2 DEF TypeOK, CloneLocals
<1>6. KernelLink.table = 0
  BY <1>1, SourceApart
<1>7. Directories' = Directories /\ Directories \subseteq PageNo
  BY <1>1 DEF Directories, TypeOK
<1>8. Allocated'
  <2>1. \A e \in Directories' : Used(e)'
    BY <1>1, <1>3, <1>4, <1>7 DEF Allocated
  <2>2. \A e \in PageNo, s \in Slots :
           dirs[e][s].table # 0 => Used(dirs[e][s].table)'
    <3> SUFFICES ASSUME NEW e \in PageNo, NEW s \in Slots,
                        NEW p, p = dirs[e][s].table, p # 0
                 PROVE  Used(p)'
      BY <1>1 DEF Used
    <3> QED
      BY <1>3, <1>4 DEF Allocated, TypeOK, Link
  <2>3. Used(clone.table)'
    BY <1>4, <1>5 DEF Used
  <2>4. Used(clone.dir)'
    <3>1. clone.dir \in PageNo
      BY DEF TypeOK, CloneLocals
    <3>2. PICK c : c = clone.dir
      OBVIOUS
    <3>3. Used(c)'
      BY <1>1, <1>3, <1>4, <3>1, <3>2 DEF Allocated
    <3> QED
      BY <1>5, <3>2, <3>3 DEF Used
  <2> QED
    BY <1>1, <1>4, <2>1, <2>2, <2>3, <2>4 DEF Allocated
<1>9. Unlinked' /\ Phases'
  <2>1. \A e \in PageNo, s \in Slots : dirs[e][s].table # b \/ b = 0
    BY <1>3, <1>4 DEF Allocated
  <2> QED
    BY <1>1, <1>5, <1>6, <1>7, <2>1 DEF SInv, Unlinked, Phases, Booting, KernelLink
<1>10. TablesShared' /\ CloneApart' /\ FirstApart'
  BY <1>1, <1>5, Unmoved DEF SInv, CloneApart, FirstApart
<1> QED
  BY <1>8, <1>9, <1>10 DEF SInv

\* The first clone becomes the directory the kernel runs in.
LEMMA FirstShared ==
    ASSUME TypeOK, SInv, FirstDirectoryCloned
    PROVE  SInv'
<1>1. /\ pc = "clone" /\ clone.slot = SlotNumber /\ spaces = {} /\ pc' = "stack"
      /\ currentPageDirectory' = clone.dir /\ clone' = NoClone
      /\ UNCHANGED <<boot, dirs, pageDirectory, spaces>>
  BY DEF FirstDirectoryCloned, Cloned, SwitchPaging, structure
<1>2. clone'.table = 0
  BY <1>1 DEF NoClone
<1>3. clone.dir # pageDirectory /\ Used(clone.dir) /\ Used(pageDirectory)
  BY <1>1 DEF SInv, Phases, Allocated, Directories
<1>4. Directories' = {pageDirectory, clone.dir}
  BY <1>1 DEF Directories
<1>5. Allocated'
  BY <1>1, <1>2, <1>3, <1>4, UsedStays DEF SInv, Allocated, boot
<1>6. Unlinked' /\ Phases'
  BY <1>1, <1>2, <1>3 DEF SInv, Unlinked, Phases, Booting
<1>7. FirstApart'
  <2>1. \A s \in Slots : s < clone.slot
    BY <1>1, PagingAssumption DEF Slots
  <2>2. \A s \in Slots : Apart(clone.dir, s)
    BY <1>1, <2>1 DEF SInv, CloneApart
  <2> QED
    BY <1>1, <2>2 DEF FirstApart, Apart
<1>8. TablesShared' /\ CloneApart'
  BY <1>1 DEF TablesShared, CloneApart
<1> QED
  BY <1>5, <1>6, <1>7, <1>8 DEF SInv

\* The child has the kernel's tables, and others that nobody else has.
LEMMA ForkedShared ==
    ASSUME TypeOK, SInv, Forked
    PROVE  SInv'
<1>1. /\ pc = "clone" /\ clone.slot = SlotNumber /\ spaces # {} /\ pc' = "run"
      /\ spaces' = spaces \cup {clone.dir} /\ clone' = NoClone
      /\ UNCHANGED <<boot, dirs, pageDirectory, currentPageDirectory>>
  BY DEF Forked, Cloned, structure, processor
<1>2. clone'.table = 0
  BY <1>1 DEF NoClone
<1>3. /\ clone.dir \notin Directories /\ Used(clone.dir)
      /\ currentPageDirectory \in spaces
  BY <1>1 DEF SInv, Phases, Allocated
<1>4. Directories' = Directories \cup {clone.dir}
  BY <1>1 DEF Directories
<1>5. Allocated'
  BY <1>1, <1>2, <1>3, <1>4, UsedStays DEF SInv, Allocated, boot
<1>6. Unlinked' /\ Phases'
  BY <1>1, <1>2, <1>3 DEF SInv, Unlinked, Phases, Booting, Directories
<1>7. \A s \in Slots : Apart(clone.dir, s)
  <2>1. \A s \in Slots : s < clone.slot
    BY <1>1, PagingAssumption DEF Slots
  <2> QED
    BY <1>1, <2>1 DEF SInv, CloneApart
<1>8. clone.dir \notin spaces
  BY <1>3 DEF Directories
<1>9. TablesShared'
  <2>1. ASSUME NEW d \in spaces \cup {clone.dir}, NEW s \in Slots,
               dirs[pageDirectory][s].table # 0
        PROVE  dirs[d][s] = dirs[pageDirectory][s]
    BY <1>7, <2>1 DEF SInv, TablesShared, Apart
  <2>2. ASSUME NEW s \in Slots, dirs[pageDirectory][s].table = 0,
               NEW d \in spaces \cup {clone.dir},
               NEW e \in (spaces \cup {clone.dir}) \ {d},
               dirs[d][s].table # 0
        PROVE  dirs[d][s].table # dirs[e][s].table
    <3>1. CASE d \in spaces /\ e \in spaces
      BY <2>2, <3>1 DEF SInv, TablesShared
    <3>2. CASE d = clone.dir
      BY <1>7, <2>2, <3>2 DEF Apart
    <3>3. CASE d # clone.dir /\ e = clone.dir
      <4>1. Apart(e, s)
        BY <1>7, <3>3
      <4> QED
        BY <2>2, <3>3, <4>1 DEF Apart
    <3> QED
      BY <3>1, <3>2, <3>3
  <2> QED
    BY <1>1, <2>1, <2>2 DEF TablesShared
<1> QED
  BY <1>1, <1>5, <1>6, <1>9 DEF SInv, CloneApart, FirstApart

-----------------------------------------------------------------------------
(* The theorem.                                                            *)

LEMMA EmptyStays ==
    ASSUME EmptyAtStart, [Next]_vars
    PROVE  EmptyAtStart'
<1> USE DEF boot, structure, processor
<1>1. CASE pc' = "start"
  <2>1. UNCHANGED dirs /\ pc = "start"
    BY <1>1
       DEF Next, Boot, Clone, vars, AllocateBitmap, MakeHeapTables, HeapTablesMade,
           MakeLowTable, MapLowPage, LowPagesMapped, MapHeapPage, HeapPagesMapped,
           EnablePaging, CloneFirstDirectory, NewDirectory, FirstDirectoryCloned,
           MakeStackTable, MapStackPage, StackMapped, SkipSlot, LinkTable,
           CloneTable, LinkClone, SkipPage, ClonePage, CopyInto,
           ClonePageWithoutFrame, InLoop, InTable, Fork, Forked, Switch, Store,
           PageFault, FreeFrame, Cloned
  <2> QED
    BY <2>1 DEF EmptyAtStart
<1> QED
  BY <1>1 DEF EmptyAtStart

LEMMA SharedStep ==
    ASSUME TypeOK, CloneInDirectory, SInv, EmptyAtStart, [Next]_vars
    PROVE  SInv'
<1> USE DEF boot, structure, processor
<1>1. CASE AllocateBitmap
  BY <1>1, BitmapShared
<1>2. CASE MakeHeapTables
  <2>1. CASE TableOf(pageDirectory, cursor) = 0
    BY <1>2, <2>1, BootTableShared DEF MakeHeapTables, Booting
  <2>2. CASE TableOf(pageDirectory, cursor) # 0
    BY <1>2, <2>2, BootStep DEF MakeHeapTables, Booting, SInv, Phases
  <2> QED
    BY <2>1, <2>2
<1>3. CASE MakeLowTable
  BY <1>3, BootTableShared DEF MakeLowTable, Booting
<1>4. CASE MapLowPage \/ MapHeapPage
  BY <1>4, BootStep DEF MapLowPage, MapHeapPage, AllocFrame, Booting, SInv, Phases
<1>5. CASE HeapTablesMade \/ LowPagesMapped \/ HeapPagesMapped
  BY <1>5, BootStep
     DEF HeapTablesMade, LowPagesMapped, HeapPagesMapped, Booting, SInv, Phases
<1>6. CASE EnablePaging
  BY <1>6, BootStep DEF EnablePaging, SwitchPaging, Booting, SInv, Phases
<1>7. CASE CloneFirstDirectory \/ Fork
  BY <1>7, DirectoryShared DEF CloneFirstDirectory, Fork
<1>8. CASE FirstDirectoryCloned
  BY <1>8, FirstShared
<1>9. CASE MakeStackTable
  BY <1>9, StackTableShared
<1>10. CASE MapStackPage
  BY <1>10, StackStep DEF MapStackPage, AllocFrame
<1>11. CASE StackMapped
  BY <1>11, StackMappedShared
<1>12. CASE SkipSlot
  BY <1>12, SkipSlotShared
<1>13. CASE LinkTable
  BY <1>13, LinkTableShared
<1>14. CASE CloneTable
  BY <1>14, CloneTableShared
<1>15. CASE LinkClone
  BY <1>15, LinkCloneShared
<1>16. CASE SkipPage \/ ClonePage \/ ClonePageWithoutFrame
  <2>1. /\ pc = "clone" /\ NextPage
        /\ UNCHANGED <<pc, boot, dirs, pageDirectory, currentPageDirectory, spaces>>
    BY <1>16 DEF SkipPage, ClonePage, ClonePageWithoutFrame, CopyInto, InTable
  <2>2. /\ clone'.dir = clone.dir /\ clone'.slot = clone.slot
        /\ clone'.table = clone.table
    BY <2>1 DEF NextPage, TypeOK, CloneLocals
  <2> QED
    BY <2>1, <2>2, PageStep
<1>17. CASE Forked
  BY <1>17, ForkedShared
<1>18. CASE \E d \in spaces : Switch(d)
  BY <1>18, RunStep DEF Switch, SwitchPaging
<1>19. CASE \/ \E v \in DataPages, x \in Values : Store(v, x)
            \/ \E v \in DataPages : PageFault(v)
            \/ \E v \in Freeable : FreeFrame(v)
  BY <1>19, RunStep DEF Store, PageFault, FreeFrame, SInv, Phases
<1>20. CASE UNCHANGED vars
  <2>1. UNCHANGED <<pc, boot, dirs, pageDirectory, currentPageDirectory, spaces, clone>>
    BY <1>20 DEF vars
  <2>2. Allocated'
    BY <2>1 DEF SInv, Allocated, Used, Directories
  <2>3. Unlinked' /\ Phases'
    BY <2>1 DEF SInv, Unlinked, Phases, Booting, Directories
  <2>4. TablesShared' /\ CloneApart' /\ FirstApart'
    BY <2>1 DEF SInv, TablesShared, CloneApart, FirstApart, Apart
  <2> QED
    BY <2>2, <2>3, <2>4 DEF SInv
<1> QED
  BY <1>1, <1>2, <1>3, <1>4, <1>5, <1>6, <1>7, <1>8, <1>9, <1>10, <1>11, <1>12,
     <1>13, <1>14, <1>15, <1>16, <1>17, <1>18, <1>19, <1>20
     DEF Next, Boot, Clone

\* A process sees the kernel's page tables themselves, those that
\* clonePageDirectory found there, and has no other table in common with
\* another process.
THEOREM TablesStayShared == Spec => []TablesShared
<1>1. IInv /\ SInv /\ EmptyAtStart /\ [Next]_vars => SInv' /\ EmptyAtStart'
  BY SharedStep, EmptyStays DEF IInv
<1>2. Init => SInv /\ EmptyAtStart
  <2>1. Init => EmptyAtStart
    BY DEF Init, EmptyAtStart, ZeroDirectory, NullLink
  <2> QED
    BY <2>1, InitShared
<1>3. SInv => TablesShared
  BY DEF SInv
<1> QED
  BY <1>1, <1>2, <1>3, Invariance, PTL DEF Spec

-----------------------------------------------------------------------------
(***************************************************************************)
(* Where pages are mapped, for every geometry that satisfies               *)
(* PagingAssumption, while nobody calls freeFrame (Freeable = {}): no      *)
(* frame is lost, and a page that is mapped stays where it is.             *)
(*                                                                         *)
(* Both rest on entries being written once.  A block that kmalloc gives    *)
(* away for a table holds an empty one already; an entry that gets a frame *)
(* had none; and the only page that is mapped to frame 0, for which        *)
(* allocFrame would take the entry for free, is page 0, which no loop      *)
(* comes to again.                                                         *)
(***************************************************************************)

(* The invariant.                                                          *)

Heap == HeapStart .. HeapStart + HeapPages - 1

\* Memory that becomes a table holds an empty one, and what clonePageTable
\* has not come to yet is empty.
Fresh ==
    /\ 0 < AlignUp(placement)
    /\ tables[0] = ZeroTable
    /\ \A p \in PageNo : ~Used(p) => tables[p] = ZeroTable
    /\ pc \in {"start", "tables"} => \A p \in PageNo : tables[p] = ZeroTable
    /\ clone.table # 0 =>
          \A i \in Index : i >= clone.page => tables[clone.table][i] = NullPage

\* The boot loops: what they range over, and what the first has made for the
\* third.
Loops ==
    /\ pc = "tables" =>
          /\ cursor \in HeapStart .. HeapStart + HeapPages
          /\ \A v \in Heap : v < cursor => TableOf(pageDirectory, v) # 0
    /\ pc \notin {"start", "tables"} =>
          \A v \in Heap : TableOf(pageDirectory, v) # 0
    /\ pc = "low" => cursor \in Nat
    /\ pc = "heap" => cursor \in HeapStart .. HeapStart + HeapPages
    /\ pc = "stack" => cursor \in StackTop - StackPages - 1 .. StackTop

\* A table is for one slot, in whatever directories.
SlotsApart ==
    \A d, e \in PageNo, s, t \in Slots :
        dirs[d][s].table # 0 /\ dirs[d][s].table = dirs[e][t].table => s = t

\* What has a frame is present.
MappedPresent ==
    \A t \in PageNo, i \in Index : tables[t][i].frame # 0 => tables[t][i].present

TInv == Fresh /\ Loops /\ SlotsApart /\ MappedPresent

-----------------------------------------------------------------------------
(* What the operations do.                                                 *)

\* The loop up to placement_address goes to the page it lies in or starts.
LEMMA LowCursor ==
    ASSUME placement \in Nat, cursor \in Nat
    PROVE  IF LowPagesLeft THEN cursor <= AlignUp(placement)
                           ELSE cursor > AlignUp(placement)
<1> DEFINE a == placement + PageSize - 1
           q == a \div PageSize
           r == a % PageSize
<1>1. PageSize \in Nat /\ PageSize > 0
  BY PagingAssumption
<1>2. a \in Nat
  BY <1>1
<1>3. q \in Nat /\ r \in 0 .. PageSize - 1 /\ a = PageSize * q + r
  BY <1>1, <1>2, SMT
<1>4. AlignUp(placement) = q
  BY DEF AlignUp
<1>5. LowPagesLeft <=> cursor * PageSize <= a
  BY <1>1, SMT DEF LowPagesLeft
<1> HIDE DEF q, r, a
<1>6. ASSUME cursor * PageSize <= a
      PROVE  cursor <= q
  <2>1. ~(cursor >= q + 1)
    BY <1>1, <1>3, <1>6, SMT
  <2> QED
    BY <1>3, <2>1
<1>7. ASSUME ~(cursor * PageSize <= a)
      PROVE  cursor > q
  <2>1. ~(cursor <= q)
    BY <1>1, <1>2, <1>3, <1>7, SMT
  <2> QED
    BY <1>3, <2>1
<1> QED
  BY <1>4, <1>5, <1>6, <1>7

\* Pages of the boot loops are pages of the address space.
LEMMA LoopPages ==
    ASSUME TypeOK, SInv, Loops
    PROVE  /\ Heap \subseteq PageNo /\ 0 \in PageNo
           /\ pc \in {"tables", "heap"} /\ cursor < HeapStart + HeapPages
                 => cursor \in Heap
           /\ pc = "low" /\ LowPagesLeft => cursor \in PageNo
           /\ pc = "stack" /\ cursor >= StackTop - StackPages => cursor \in PageNo
<1>1. /\ HeapStart \in Nat /\ HeapPages \in Nat /\ StackTop \in Nat /\ StackPages \in Nat
      /\ HeapStart + HeapPages <= StackTop - StackPages
  BY PagingAssumption
<1>2. \A p \in Nat : p <= StackTop => p \in PageNo
  BY Ranges
<1>3. Heap \subseteq PageNo
  BY <1>1, <1>2 DEF Heap
<1>4. pc = "low" /\ LowPagesLeft => cursor <= HeapStart
  BY <1>1, LowCursor, AlignUpNat DEF Loops, TypeOK, SInv, Allocated
<1> QED
  BY <1>1, <1>2, <1>3, <1>4, Ranges DEF Loops, Heap

\* A block that is given away is not the null pointer and holds an empty table.
LEMMA BlockEmpty ==
    ASSUME TypeOK, SInv, Fresh, pc # "start", NEW size \in Nat \ {0}, Reserve(size),
           NEW b, b = NewBlock
    PROVE  /\ b \in PageNo /\ b # 0 /\ ~Used(b) /\ Used(b)'
           /\ \A p \in PageNo : Used(p) => Used(p)'
           /\ [tables EXCEPT ![b] = ZeroTable] = tables
           /\ AlignUp(placement') \in Nat /\ 0 < AlignUp(placement')
<1>1. /\ b \in PageNo /\ ~Used(b) /\ Used(b)'
      /\ \A p \in PageNo : Used(p) => Used(p)'
  BY BlockNew DEF SInv
<1>2. Used(0) /\ 0 \in PageNo
  BY Ranges DEF Fresh, Used
<1>3. tables[b] = ZeroTable
  BY <1>1 DEF Fresh
<1>4. [tables EXCEPT ![b] = ZeroTable] = tables
  BY <1>3 DEF TypeOK
<1>5. AlignUp(placement') \in Nat /\ 0 < AlignUp(placement')
  <2>1. CASE placement' = placement
    BY <2>1, AlignUpNat DEF Fresh, TypeOK
  <2>2. CASE placement' = b * PageSize + size
    <3>1. placement' \in Nat /\ placement' > 0
      BY <1>1, <2>2, PagingAssumption, SMT DEF PageNo
    <3> QED
      BY <3>1, AlignUpNat
  <2> QED
    BY <2>1, <2>2 DEF Reserve
<1> QED
  BY <1>1, <1>2, <1>4, <1>5

\* getPage links a table that nobody has; nothing else changes.
LEMMA TableLinked ==
    ASSUME TypeOK, SInv, Fresh, pc # "start", NEW d \in PageNo, NEW v \in PageNo,
           MakeTable(d, v)
    PROVE  \E b \in PageNo :
              /\ b # 0 /\ ~Used(b) /\ Used(b)' /\ b = NewBlock /\ Reserve(PageSize)
              /\ dirs' = [dirs EXCEPT ![d][Slot(v)] =
                            [table |-> b, phys |-> Physical(b)]]
              /\ UNCHANGED <<tables, frames, physicalAddress>>
              /\ \A p \in PageNo : Used(p) => Used(p)'
              /\ 0 < AlignUp(placement')
<1>1. PICK b : b = NewBlock
  OBVIOUS
<1>2. PageSize \in Nat \ {0} /\ Reserve(PageSize)
  BY PagingAssumption DEF MakeTable
<1>3. /\ b \in PageNo /\ b # 0 /\ ~Used(b) /\ Used(b)'
      /\ \A p \in PageNo : Used(p) => Used(p)'
      /\ [tables EXCEPT ![b] = ZeroTable] = tables /\ 0 < AlignUp(placement')
  BY <1>1, <1>2, BlockEmpty
<1>4. tables' = tables
  BY <1>1, <1>3 DEF MakeTable
<1> QED
  BY <1>1, <1>2, <1>3, <1>4 DEF MakeTable

\* allocFrame leaves a page alone, or gives one without a frame the first that
\* is free.
LEMMA FrameGiven ==
    ASSUME TypeOK, NEW d \in PageNo, NEW v \in PageNo, AllocFrame(d, v)
    PROVE  /\ UNCHANGED <<dirs, physicalAddress, boot>>
           /\ \/ /\ UNCHANGED <<frames, tables>>
                 /\ PageOf(d, v).frame # 0 \/ FreeFrames = {}
              \/ \E f \in Frames :
                    /\ GetFreeFrame(f) /\ frames' = frames \cup {f}
                    /\ PageOf(d, v).frame = 0
                    /\ \A t \in PageNo, i \in Index :
                          tables'[t][i] = IF t = TableOf(d, v) /\ i = Entry(v)
                                          THEN [frame |-> f, present |-> TRUE]
                                          ELSE tables[t][i]
<1>1. CASE PageOf(d, v).frame = 0 /\ FreeFrames # {}
  <2>1. PICK f \in Frames :
           /\ GetFreeFrame(f) /\ frames' = Busy(f)
           /\ tables' = [tables EXCEPT ![TableOf(d, v)][Entry(v)] =
                           [frame |-> f, present |-> TRUE]]
    BY <1>1 DEF AllocFrame
  <2>2. \A t \in PageNo, i \in Index :
           tables'[t][i] = IF t = TableOf(d, v) /\ i = Entry(v)
                           THEN [frame |-> f, present |-> TRUE] ELSE tables[t][i]
    BY <2>1 DEF TypeOK
  <2> QED
    BY <1>1, <2>1, <2>2 DEF AllocFrame, Busy
<1>2. CASE ~(PageOf(d, v).frame = 0 /\ FreeFrames # {})
  BY <1>2 DEF AllocFrame
<1> QED
  BY <1>1, <1>2

\* clonePageTable fills an entry of the clone's table.
LEMMA EntryCloned ==
    ASSUME TypeOK, InTable, NEW f \in Frames, CopyInto(f)
    PROVE  /\ clone.page \in Index /\ clone.table \in PageNo
           /\ \A t \in PageNo, i \in Index :
                 tables'[t][i] = IF t = clone.table /\ i = clone.page
                                 THEN [frame |-> f, present |-> SourcePage.present]
                                 ELSE tables[t][i]
           /\ clone' = [clone EXCEPT !.page = clone.page + 1]
<1>1. clone.page \in Index /\ clone.table \in PageNo
  BY PagingAssumption DEF TypeOK, CloneLocals, InTable, Index
<1> QED
  BY <1>1 DEF CopyInto, NextPage, TypeOK

\* A directory that is in use keeps its tables.
LEMMA LinksKept ==
    ASSUME TypeOK, CloneInDirectory, SInv, [Next]_vars, pc # "start"
    PROVE  /\ pageDirectory' = pageDirectory
           /\ \A d \in Directories, s \in Slots :
                 dirs[d][s].table # 0 => dirs'[d][s] = dirs[d][s]
<1> USE DEF boot, structure, processor
<1>1. Directories \subseteq PageNo /\ pageDirectory \in Directories
      /\ currentPageDirectory \in Directories
  BY DEF Directories, TypeOK
<1>2. ASSUME NEW e \in PageNo, NEW v, TableOf(e, v) = 0, MakeTable(e, v),
             pc' = pc, UNCHANGED <<processor, spaces, clone>>
      PROVE  \A d \in Directories, s \in Slots :
                dirs[d][s].table # 0 => dirs'[d][s] = dirs[d][s]
  BY <1>1, <1>2, TableMade DEF TableOf
<1>3. CASE MakeHeapTables \/ MakeLowTable \/ MakeStackTable
  <2>1. \/ UNCHANGED dirs
        \/ /\ TableOf(pageDirectory, cursor) = 0 /\ MakeTable(pageDirectory, cursor)
           /\ pc' = pc /\ UNCHANGED <<processor, spaces, clone>>
        \/ /\ TableOf(currentPageDirectory, cursor) = 0
           /\ MakeTable(currentPageDirectory, cursor)
           /\ pc' = pc /\ UNCHANGED <<processor, spaces, clone>>
    BY <1>3 DEF MakeHeapTables, MakeLowTable, MakeStackTable
  <2>2. pageDirectory' = pageDirectory
    BY <1>3 DEF MakeHeapTables, MakeLowTable, MakeStackTable
  <2> QED
    BY <1>1, <1>2, <2>1, <2>2
<1>4. CASE CloneFirstDirectory \/ Fork
  <2>1. /\ NewDirectory /\ pageDirectory' = pageDirectory
    BY <1>4 DEF CloneFirstDirectory, Fork
  <2>2. PICK b : b = NewBlock
    OBVIOUS
  <2>3. DirectorySize \in Nat \ {0} /\ Reserve(DirectorySize) /\ Allocated
    BY <2>1, PagingAssumption DEF NewDirectory, SInv
  <2>4. b \in PageNo /\ ~Used(b)
    BY <2>2, <2>3, BlockNew
  <2>5. b \notin Directories
    BY <2>4 DEF SInv, Allocated
  <2>6. \A d \in PageNo : d # b => dirs'[d] = dirs[d]
    BY <2>1, <2>2, <2>4 DEF NewDirectory, TypeOK
  <2> QED
    BY <1>1, <2>1, <2>5, <2>6
<1>5. CASE LinkTable \/ LinkClone
  <2>1. /\ pc = "clone" /\ pageDirectory' = pageDirectory
        /\ \E link : dirs' = [dirs EXCEPT ![clone.dir][clone.slot] = link]
    BY <1>5 DEF LinkTable, LinkClone, InLoop
  <2>2. clone.dir \notin Directories
    BY <2>1 DEF SInv, Phases
  <2> QED
    BY <1>1, <2>1, <2>2 DEF TypeOK
<1>6. CASE UNCHANGED <<dirs, pageDirectory>>
  BY <1>6
<1>7. CASE \/ HeapTablesMade \/ MapLowPage \/ LowPagesMapped \/ MapHeapPage
           \/ HeapPagesMapped \/ EnablePaging \/ FirstDirectoryCloned
           \/ MapStackPage \/ StackMapped
  BY <1>6, <1>7
     DEF HeapTablesMade, MapLowPage, LowPagesMapped, MapHeapPage, AllocFrame,
         HeapPagesMapped, EnablePaging, SwitchPaging, FirstDirectoryCloned,
         MapStackPage, StackMapped
<1>8. CASE SkipSlot \/ CloneTable \/ SkipPage \/ ClonePage \/ ClonePageWithoutFrame
  BY <1>6, <1>8
     DEF SkipSlot, CloneTable, SkipPage, ClonePage, ClonePageWithoutFrame, CopyInto
<1>9. CASE Forked \/ (\E d \in spaces : Switch(d))
  BY <1>6, <1>9 DEF Forked, Switch, SwitchPaging
<1>10. CASE \/ \E v \in DataPages, x \in Values : Store(v, x)
            \/ \E v \in DataPages : PageFault(v)
            \/ \E v \in Freeable : FreeFrame(v)
  BY <1>6, <1>10 DEF Store, PageFault, FreeFrame
<1>11. CASE UNCHANGED vars
  BY <1>6, <1>11 DEF vars
<1>12. CASE AllocateBitmap
  BY <1>12 DEF AllocateBitmap
<1> QED
  BY <1>3, <1>4, <1>5, <1>7, <1>8, <1>9, <1>10, <1>11, <1>12 DEF Next, Boot, Clone

-----------------------------------------------------------------------------
(* The invariant is kept.                                                  *)

LEMMA InitTables == Init => TInv
<1> SUFFICES ASSUME Init PROVE TInv
  OBVIOUS
<1>1. 0 < AlignUp(placement)
  BY AlignUpNat, PagingAssumption DEF Init
<1>2. Fresh
  BY <1>1, Ranges DEF Init, Fresh, NoClone
<1>3. SlotsApart /\ MappedPresent
  BY DEF Init, SlotsApart, MappedPresent, ZeroDirectory, NullLink, ZeroTable, NullPage
<1> QED
  BY <1>2, <1>3 DEF Init, TInv, Loops

\* While tables and what is given away stay, so does what is empty.
LEMMA FreshKept ==
    ASSUME TypeOK, Fresh, UNCHANGED <<tables, boot>>,
           pc' \in {"start", "tables"} => pc \in {"start", "tables"},
           clone'.table # 0 =>
              /\ clone'.table = clone.table
              /\ \A i \in Index : i >= clone'.page /\ ~(i >= clone.page)
                    => tables[clone.table][i] = NullPage
    PROVE  Fresh'
BY UsedStays DEF Fresh, boot

\* The table of a page that gets a frame is given away, so nothing empty
\* changes.
LEMMA FreshMapped ==
    ASSUME TypeOK, SInv, Fresh, pc \in {"low", "heap", "stack"}, pc' = pc,
           NEW d \in PageNo, NEW v \in PageNo, TableOf(d, v) # 0, AllocFrame(d, v),
           UNCHANGED clone
    PROVE  Fresh'
<1>1. /\ UNCHANGED boot
      /\ \A t \in PageNo : t # TableOf(d, v) => tables'[t] = tables[t]
  <2>1. CASE tables' = tables
    BY <2>1 DEF AllocFrame
  <2>2. CASE \E f \in Frames :
                tables' = [tables EXCEPT ![TableOf(d, v)][Entry(v)] =
                             [frame |-> f, present |-> TRUE]]
    BY <2>2 DEF AllocFrame, TypeOK
  <2> QED
    BY <2>1, <2>2 DEF AllocFrame
<1>2. Used(TableOf(d, v))
  BY SlotOfPage DEF TableOf, SInv, Allocated
<1>3. clone.table = 0
  BY DEF SInv, Phases
<1> QED
  BY <1>1, <1>2, <1>3, UsedStays, Ranges DEF Fresh, boot

LEMMA FreshLinked ==
    ASSUME TypeOK, SInv, Fresh, pc # "start", pc' = pc,
           NEW d \in PageNo, NEW v \in PageNo, MakeTable(d, v), clone.table = 0,
           UNCHANGED clone
    PROVE  Fresh'
<1>1. /\ UNCHANGED tables /\ 0 < AlignUp(placement')
      /\ \A p \in PageNo : Used(p) => Used(p)'
  BY TableLinked
<1> QED
  BY <1>1 DEF Fresh

LEMMA FreshStep ==
    ASSUME Freeable = {}, TypeOK, CloneInDirectory, SInv, TInv, [Next]_vars
    PROVE  Fresh'
<1> USE DEF boot, structure, processor
<1>0. /\ Fresh /\ Loops /\ pageDirectory \in PageNo /\ currentPageDirectory \in PageNo
  BY DEF TInv, TypeOK
<1>1. CASE AllocateBitmap
  <2> DEFINE dir == AlignUp(placement + BitmapSize)
  <2>0. placement + BitmapSize \in Nat
    BY PagingAssumption DEF TypeOK
  <2>1. dir \in Nat
    BY <2>0, AlignUpNat
  <2>2. dir * PageSize + DirectorySize \in Nat /\ dir * PageSize + DirectorySize > 0
    BY <2>1, PagingAssumption, SMT
  <2>3. 0 < AlignUp(placement')
    BY <1>1, <2>2, AlignUpNat DEF AllocateBitmap
  <2>4. clone.table = 0
    BY <1>1 DEF AllocateBitmap, SInv, Phases
  <2> QED
    BY <1>0, <1>1, <2>3, <2>4 DEF AllocateBitmap, Fresh
<1>2. CASE MakeHeapTables \/ MakeLowTable \/ MakeStackTable
  <2>1. /\ pc # "start" /\ pc' = pc /\ UNCHANGED clone /\ clone.table = 0
    BY <1>2 DEF MakeHeapTables, MakeLowTable, MakeStackTable, SInv, Phases
  <2>2. cursor \in PageNo
    BY <1>0, <1>2, LoopPages DEF MakeHeapTables, MakeLowTable, MakeStackTable
  <2>3. \/ MakeTable(pageDirectory, cursor) \/ MakeTable(currentPageDirectory, cursor)
        \/ UNCHANGED <<tables, boot>>
    BY <1>2 DEF MakeHeapTables, MakeLowTable, MakeStackTable
  <2> QED
    BY <1>0, <2>1, <2>2, <2>3, FreshLinked, FreshKept
<1>3. CASE MapLowPage \/ MapHeapPage \/ MapStackPage
  <2>1. /\ pc \in {"low", "heap", "stack"} /\ pc' = pc /\ UNCHANGED clone
    BY <1>3 DEF MapLowPage, MapHeapPage, MapStackPage
  <2>2. cursor \in PageNo
    BY <1>0, <1>3, LoopPages DEF MapLowPage, MapHeapPage, MapStackPage
  <2>3. \/ AllocFrame(pageDirectory, cursor) /\ TableOf(pageDirectory, cursor) # 0
        \/ AllocFrame(currentPageDirectory, cursor)
           /\ TableOf(currentPageDirectory, cursor) # 0
    <3>1. pc = "heap" /\ cursor < HeapStart + HeapPages => TableOf(pageDirectory, cursor) # 0
      BY <1>0, LoopPages DEF Loops
    <3> QED
      BY <1>3, <3>1 DEF MapLowPage, MapHeapPage, MapStackPage
  <2> QED
    BY <1>0, <2>1, <2>2, <2>3, FreshMapped
<1>4. CASE CloneTable
  <2>1. PICK b : b = NewBlock
    OBVIOUS
  <2>2. /\ pc = "clone" /\ pc' = "clone" /\ Reserve(PageSize) /\ PageSize \in Nat \ {0}
    BY <1>4, PagingAssumption DEF CloneTable, InLoop
  <2>3. /\ b \in PageNo /\ ~Used(b) /\ \A p \in PageNo : Used(p) => Used(p)'
        /\ [tables EXCEPT ![b] = ZeroTable] = tables /\ 0 < AlignUp(placement')
    BY <1>0, <2>1, <2>2, BlockEmpty
  <2>4. tables' = tables /\ clone'.table = b
    BY <1>4, <2>1, <2>3 DEF CloneTable, TypeOK, CloneLocals
  <2>5. \A i \in Index : tables[b][i] = NullPage
    BY <1>0, <2>3 DEF Fresh, ZeroTable
  <2> QED
    BY <1>0, <2>2, <2>3, <2>4, <2>5 DEF Fresh
<1>5. CASE CloneFirstDirectory \/ Fork
  <2>1. NewDirectory /\ pc # "start"
    BY <1>5 DEF CloneFirstDirectory, Fork
  <2>2. PICK b : b = NewBlock
    OBVIOUS
  <2>3. DirectorySize \in Nat \ {0} /\ Reserve(DirectorySize)
    BY <2>1, PagingAssumption DEF NewDirectory
  <2>4. /\ \A p \in PageNo : Used(p) => Used(p)'
        /\ 0 < AlignUp(placement')
    BY <1>0, <2>1, <2>2, <2>3, BlockEmpty
  <2>5. clone'.table = 0 /\ pc' = "clone" /\ tables' = tables
    BY <2>1 DEF NewDirectory, NoClone
  <2> QED
    BY <1>0, <2>4, <2>5 DEF Fresh
<1>6. CASE ClonePage \/ ClonePageWithoutFrame
  <2>1. PICK f \in Frames : CopyInto(f)
    BY <1>6, Ranges DEF ClonePage, ClonePageWithoutFrame
  <2>2. InTable
    BY <1>6 DEF ClonePage, ClonePageWithoutFrame
  <2>3. /\ clone.page \in Index /\ clone.table \in PageNo
        /\ \A t \in PageNo, i \in Index :
              t # clone.table \/ i # clone.page => tables'[t][i] = tables[t][i]
        /\ clone' = [clone EXCEPT !.page = clone.page + 1]
    BY <2>1, <2>2, EntryCloned
  <2>4. clone'.table = clone.table /\ clone'.page = clone.page + 1
    BY <2>3 DEF TypeOK, CloneLocals
  <2>5. pc = "clone" /\ pc' = "clone" /\ UNCHANGED boot /\ clone.table # 0
    BY <2>1, <2>2 DEF CopyInto, InTable
  <2>6. Used(clone.table)
    BY <2>5 DEF SInv, Allocated
  <2>7. \A t \in PageNo : t # clone.table => tables'[t] = tables[t]
    BY <2>1 DEF CopyInto, TypeOK
  <2>8. \A i \in Index : i >= clone.page + 1 => i >= clone.page /\ i # clone.page
    BY <2>3 DEF Index
  <2>9. clone'.table # 0 =>
           \A i \in Index : i >= clone'.page => tables'[clone'.table][i] = NullPage
    BY <1>0, <2>3, <2>4, <2>8 DEF Fresh
  <2>10. tables'[0] = ZeroTable
    BY <1>0, <2>5, <2>7, Ranges DEF Fresh
  <2> QED
    BY <1>0, <2>5, <2>6, <2>7, <2>9, <2>10, UsedStays DEF Fresh
<1>7. CASE SkipPage
  <2>1. /\ UNCHANGED <<pc, tables, boot>> /\ SourcePage.frame = 0
        /\ clone' = [clone EXCEPT !.page = clone.page + 1]
    BY <1>7 DEF SkipPage, NextPage
  <2>2. clone'.table = clone.table /\ clone'.page = clone.page + 1 /\ clone.page \in Nat
    BY <2>1, PagingAssumption DEF TypeOK, CloneLocals
  <2>3. \A i \in Index : i >= clone'.page => i >= clone.page
    BY <2>2 DEF Index
  <2> QED
    BY <1>0, <2>1, <2>2, <2>3, FreshKept
<1>8. CASE SkipSlot \/ LinkTable \/ LinkClone
  <2>1. UNCHANGED <<pc, tables, boot>> /\ NextSlot
    BY <1>8 DEF SkipSlot, LinkTable, LinkClone
  <2>2. clone'.table = 0
    BY <2>1 DEF NextSlot, TypeOK, CloneLocals
  <2> QED
    BY <1>0, <2>1, <2>2, FreshKept
<1>9. CASE \/ HeapTablesMade \/ LowPagesMapped \/ HeapPagesMapped \/ EnablePaging
           \/ FirstDirectoryCloned \/ StackMapped \/ Forked
           \/ (\E d \in spaces : Switch(d))
           \/ (\E v \in DataPages, x \in Values : Store(v, x))
           \/ (\E v \in DataPages : PageFault(v))
           \/ UNCHANGED vars
  <2>1. UNCHANGED <<tables, boot>> /\ (clone' = clone \/ clone' = NoClone)
    BY <1>9 DEF HeapTablesMade, LowPagesMapped, HeapPagesMapped, EnablePaging,
        FirstDirectoryCloned, StackMapped, Forked, Switch, Store, PageFault, vars
  <2>2. pc' \in {"start", "tables"} => pc \in {"start", "tables"}
    BY <1>9 DEF HeapTablesMade, LowPagesMapped, HeapPagesMapped, EnablePaging,
        FirstDirectoryCloned, StackMapped, Forked, Switch, Store, PageFault, vars
  <2>3. clone'.table # 0 => clone' = clone
    BY <2>1 DEF NoClone
  <2> QED
    BY <1>0, <2>1, <2>2, <2>3, FreshKept
<1> QED
  BY <1>1, <1>2, <1>3, <1>4, <1>5, <1>6, <1>7, <1>8, <1>9 DEF Next, Boot, Clone

\* A page of the first loop has its table after it.
LEMMA HeapTableMade ==
    ASSUME TypeOK, SInv, Fresh, NEW v \in PageNo, v = cursor, MakeHeapTables
    PROVE  TableOf(pageDirectory, v)' # 0
<1>0. pageDirectory \in PageNo /\ pageDirectory' = pageDirectory /\ pc # "start"
  BY DEF TypeOK, MakeHeapTables, processor
<1>1. CASE TableOf(pageDirectory, v) # 0
  BY <1>0, <1>1 DEF MakeHeapTables, structure, TableOf
<1>2. CASE TableOf(pageDirectory, v) = 0
  <2>1. MakeTable(pageDirectory, v)
    BY <1>2 DEF MakeHeapTables
  <2>2. PICK b \in PageNo :
           /\ b # 0 /\ dirs' = [dirs EXCEPT ![pageDirectory][Slot(v)] =
                                  [table |-> b, phys |-> Physical(b)]]
    BY <1>0, <2>1, TableLinked
  <2>3. dirs'[pageDirectory][Slot(v)].table = b
    BY <1>0, <2>2, SlotOfPage DEF TypeOK
  <2> QED
    BY <1>0, <2>2, <2>3 DEF TableOf
<1> QED
  BY <1>1, <1>2

\* Each loop is where its cursor says, and has made what it went over.
LEMMA LoopsStep ==
    ASSUME TypeOK, CloneInDirectory, SInv, TInv, [Next]_vars
    PROVE  Loops'
<1> USE DEF boot, structure, processor
<1>0. /\ Fresh /\ Loops /\ pageDirectory \in PageNo /\ Heap \subseteq PageNo
      /\ HeapStart \in Nat /\ HeapPages \in Nat /\ StackTop \in Nat /\ StackPages \in Nat
      /\ StackTop - StackPages >= 0
  BY PagingAssumption, LoopPages DEF TInv, TypeOK
<1>1. CASE AllocateBitmap
  BY <1>0, <1>1 DEF AllocateBitmap, Loops, Heap
<1>2. ASSUME pc # "start", NEW v \in PageNo, TableOf(pageDirectory, v) # 0
      PROVE  TableOf(pageDirectory, v)' # 0
  BY <1>2, LinksKept, SlotOfPage DEF TableOf, Directories
<1>3. ASSUME pc \notin {"start", "tables"}, NEW v \in Heap
      PROVE  TableOf(pageDirectory, v)' # 0
  BY <1>0, <1>2, <1>3 DEF Loops
<1>4. CASE MakeHeapTables
  <2>1. /\ pc = "tables" /\ pc' = "tables" /\ cursor' = cursor + 1 /\ cursor \in Heap
        /\ cursor \in HeapStart .. HeapStart + HeapPages
    BY <1>0, <1>4, LoopPages DEF MakeHeapTables, Loops
  <2>2. cursor' \in HeapStart .. HeapStart + HeapPages
    BY <1>0, <2>1 DEF Heap
  <2>3. ASSUME NEW v \in Heap, v < cursor + 1
        PROVE  TableOf(pageDirectory, v)' # 0
    <3>1. v = cursor \/ v < cursor
      BY <2>1, <2>3, <1>0 DEF Heap
    <3>2. CASE v = cursor
      BY <1>0, <1>4, <3>2, HeapTableMade
    <3>3. CASE v < cursor
      BY <1>0, <1>2, <2>1, <3>3 DEF Loops
    <3> QED
      BY <3>1, <3>2, <3>3
  <2> QED
    BY <2>1, <2>2, <2>3 DEF Loops
<1>5. CASE HeapTablesMade
  <2>1. \A v \in Heap : TableOf(pageDirectory, v) # 0
    BY <1>0, <1>5 DEF HeapTablesMade, Loops, Heap
  <2>2. \A v \in Heap : TableOf(pageDirectory, v)' # 0
    BY <1>0, <1>2, <1>5, <2>1 DEF HeapTablesMade
  <2> QED
    BY <1>5, <2>2 DEF HeapTablesMade, Loops
<1>6. CASE MakeLowTable \/ MapLowPage
  <2>1. pc = "low" /\ pc' = "low" /\ (cursor' = cursor \/ cursor' = cursor + 1)
    BY <1>6 DEF MakeLowTable, MapLowPage
  <2>2. cursor' \in Nat
    BY <1>0, <2>1 DEF Loops
  <2> QED
    BY <1>3, <2>1, <2>2 DEF Loops
<1>7. CASE LowPagesMapped
  BY <1>0, <1>3, <1>7 DEF LowPagesMapped, Loops
<1>8. CASE MapHeapPage
  <2>1. pc = "heap" /\ pc' = "heap" /\ cursor' = cursor + 1 /\ cursor \in Heap
    BY <1>0, <1>8, LoopPages DEF MapHeapPage
  <2>2. cursor' \in HeapStart .. HeapStart + HeapPages
    BY <1>0, <2>1 DEF Heap
  <2> QED
    BY <1>3, <2>1, <2>2 DEF Loops
<1>9. CASE HeapPagesMapped \/ EnablePaging \/ CloneFirstDirectory \/ Fork
  <2>1. /\ pc \notin {"start", "tables"}
        /\ pc' \notin {"start", "tables", "low", "heap", "stack"}
    BY <1>9 DEF HeapPagesMapped, EnablePaging, CloneFirstDirectory, Fork, NewDirectory
  <2> QED
    BY <1>3, <2>1 DEF Loops
<1>10. CASE FirstDirectoryCloned
  <2>1. /\ pc \notin {"start", "tables"} /\ pc' = "stack" /\ cursor' = StackTop
    BY <1>10 DEF FirstDirectoryCloned, Cloned
  <2> QED
    BY <1>0, <1>3, <2>1 DEF Loops
<1>11. CASE MakeStackTable \/ MapStackPage
  <2>1. /\ pc = "stack" /\ pc' = "stack" /\ cursor >= StackTop - StackPages
        /\ cursor' = cursor \/ cursor' = cursor - 1
    BY <1>11 DEF MakeStackTable, MapStackPage
  <2>2. cursor' \in StackTop - StackPages - 1 .. StackTop
    BY <1>0, <2>1 DEF Loops
  <2> QED
    BY <1>3, <2>1, <2>2 DEF Loops
<1>12. CASE StackMapped
  BY <1>3, <1>12 DEF StackMapped, Loops
<1>13. CASE SkipSlot \/ LinkTable \/ CloneTable \/ LinkClone
            \/ SkipPage \/ ClonePage \/ ClonePageWithoutFrame
  <2>1. pc = "clone" /\ pc' = "clone"
    BY <1>13 DEF SkipSlot, LinkTable, CloneTable, LinkClone, SkipPage, ClonePage,
        ClonePageWithoutFrame, CopyInto, InLoop, InTable
  <2> QED
    BY <1>3, <2>1 DEF Loops
<1>14. CASE \/ Forked
            \/ (\E d \in spaces : Switch(d))
            \/ (\E v \in DataPages, x \in Values : Store(v, x))
            \/ (\E v \in DataPages : PageFault(v))
            \/ (\E v \in Freeable : FreeFrame(v))
  <2>1. pc \in {"clone", "run"} /\ pc' \in {"run", "halted"}
    BY <1>14 DEF Forked, Cloned, Switch, Store, PageFault, FreeFrame
  <2> QED
    BY <1>3, <2>1 DEF Loops
<1>15. CASE UNCHANGED vars
  BY <1>0, <1>15 DEF vars, Loops, TableOf
<1> QED
  BY <1>1, <1>4, <1>5, <1>6, <1>7, <1>8, <1>9, <1>10, <1>11, <1>12, <1>13, <1>14, <1>15
     DEF Next, Boot, Clone

\* A link in one slot more is of a table that is in no other.
LEMMA SlotsApartStep ==
    ASSUME Freeable = {}, TypeOK, CloneInDirectory, SInv, TInv, [Next]_vars
    PROVE  SlotsApart'
<1> USE DEF boot, structure, processor
<1>0. /\ Fresh /\ Loops /\ SlotsApart
      /\ pageDirectory \in PageNo /\ currentPageDirectory \in PageNo
  BY DEF TInv, TypeOK
<1>1. CASE UNCHANGED dirs
  BY <1>0, <1>1 DEF SlotsApart
<1>2. CASE MakeHeapTables \/ MakeLowTable \/ MakeStackTable
  <2>1. pc # "start" /\ cursor \in PageNo
    BY <1>0, <1>2, LoopPages DEF MakeHeapTables, MakeLowTable, MakeStackTable
  <2>2. ASSUME NEW d \in PageNo, MakeTable(d, cursor)
        PROVE  SlotsApart'
    <3>1. PICK b \in PageNo :
             /\ b # 0 /\ ~Used(b)
             /\ dirs' = [dirs EXCEPT ![d][Slot(cursor)] =
                           [table |-> b, phys |-> Physical(b)]]
      BY <1>0, <2>1, <2>2, TableLinked
    <3>2. PICK s \in Slots : s = Slot(cursor)
      BY <2>1, SlotOfPage
    <3>3. \A e \in PageNo, t \in Slots :
             dirs'[e][t].table = IF e = d /\ t = s THEN b ELSE dirs[e][t].table
      BY <3>1, <3>2 DEF TypeOK
    <3>4. \A e \in PageNo, t \in Slots :
             dirs[e][t].table # 0 /\ dirs[e][t].table = b => t = s
      BY <3>1 DEF SInv, Allocated
    <3> QED
      BY <1>0, <3>3, <3>4 DEF SlotsApart
  <2> QED
    BY <1>0, <1>1, <1>2, <2>2 DEF MakeHeapTables, MakeLowTable, MakeStackTable
<1>3. CASE CloneFirstDirectory \/ Fork
  <2>1. \A e \in PageNo, t \in Slots : dirs'[e][t].table # 0 => dirs'[e][t] = dirs[e][t]
    <3>1. dirs' = [dirs EXCEPT ![NewBlock] = ZeroDirectory]
      BY <1>3 DEF CloneFirstDirectory, Fork, NewDirectory
    <3> QED
      BY <3>1 DEF TypeOK, ZeroDirectory, NullLink
  <2> QED
    BY <1>0, <2>1 DEF SlotsApart
<1>4. CASE LinkTable
  <2>1. /\ pc = "clone" /\ clone.slot < SlotNumber /\ SourceLink.table # 0
        /\ dirs' = [dirs EXCEPT ![clone.dir][clone.slot] = SourceLink]
    BY <1>4 DEF LinkTable, InLoop
  <2>2. clone.slot \in Slots /\ clone.dir \in PageNo
    BY <2>1, SourceApart
  <2>3. PICK d \in PageNo, s \in Slots, table \in {SourceLink.table} :
           d = clone.dir /\ s = clone.slot
    BY <2>2
  <2>4. \A e \in PageNo, t \in Slots :
           dirs'[e][t].table = IF e = d /\ t = s THEN table ELSE dirs[e][t].table
    BY <2>1, <2>3 DEF TypeOK
  <2>5. \A e \in PageNo, t \in Slots :
           dirs[e][t].table # 0 /\ dirs[e][t].table = table => t = s
    BY <1>0, <2>3 DEF SlotsApart, SourceLink
  <2> QED
    BY <1>0, <2>4, <2>5 DEF SlotsApart
<1>5. CASE LinkClone
  <2>1. /\ pc = "clone" /\ clone.table # 0
        /\ dirs' = [dirs EXCEPT ![clone.dir][clone.slot] =
                      [table |-> clone.table, phys |-> clone.phys]]
    BY <1>5 DEF LinkClone
  <2>2. clone.slot \in Slots /\ clone.dir \in PageNo
    BY <2>1, SourceApart DEF CloneInDirectory
  <2>3. PICK d \in PageNo, s \in Slots, table \in {clone.table} :
           d = clone.dir /\ s = clone.slot
    BY <2>2
  <2>4. \A e \in PageNo, t \in Slots :
           dirs'[e][t].table = IF e = d /\ t = s THEN table ELSE dirs[e][t].table
    BY <2>1, <2>3 DEF TypeOK
  <2>5. \A e \in PageNo, t \in Slots : dirs[e][t].table # table
    BY <2>1, <2>3 DEF SInv, Unlinked
  <2> QED
    BY <1>0, <2>4, <2>5 DEF SlotsApart
<1>6. CASE \/ AllocateBitmap \/ HeapTablesMade \/ MapLowPage \/ LowPagesMapped
           \/ MapHeapPage \/ HeapPagesMapped \/ EnablePaging \/ FirstDirectoryCloned
           \/ MapStackPage \/ StackMapped
  BY <1>1, <1>6
     DEF AllocateBitmap, HeapTablesMade, MapLowPage, LowPagesMapped, MapHeapPage,
         AllocFrame, HeapPagesMapped, EnablePaging, FirstDirectoryCloned,
         MapStackPage, StackMapped
<1>7. CASE SkipSlot \/ CloneTable \/ SkipPage \/ ClonePage \/ ClonePageWithoutFrame
  BY <1>1, <1>7
     DEF SkipSlot, CloneTable, SkipPage, ClonePage, ClonePageWithoutFrame, CopyInto
<1>8. CASE \/ Forked
           \/ (\E d \in spaces : Switch(d))
           \/ (\E v \in DataPages, x \in Values : Store(v, x))
           \/ (\E v \in DataPages : PageFault(v))
           \/ UNCHANGED vars
  BY <1>1, <1>8 DEF Forked, Switch, Store, PageFault, vars
<1> QED
  BY <1>2, <1>3, <1>4, <1>5, <1>6, <1>7, <1>8 DEF Next, Boot, Clone

-----------------------------------------------------------------------------
(* Entries are written one at a time, and only those without a frame.      *)

Written(t, i, page) ==
    /\ t \in PageNo /\ i \in Index /\ page \in Page
    /\ \A u \in PageNo, j \in Index :
          tables'[u][j] = IF u = t /\ j = i THEN page ELSE tables[u][j]

\* An entry gets the first free frame, or none if none is free.
Given(f) == \/ GetFreeFrame(f) /\ frames' = frames \cup {f}
            \/ f = 0 /\ FreeFrames = {} /\ frames' = frames

\* In clonePageTable, for a page the source has; or in a loop that maps page
\* cursor of directory d.
InClone(t, i) ==
    /\ InTable /\ SourcePage.frame # 0 /\ pc' = pc
    /\ t = clone.table /\ i = clone.page /\ tables[t][i] = NullPage
    /\ UNCHANGED <<boot, dirs, physicalAddress, processor, spaces>>

InMapping(d, t, i) ==
    /\ \/ d = pageDirectory /\ (MapLowPage \/ MapHeapPage)
       \/ d = currentPageDirectory /\ MapStackPage
    /\ cursor \in PageNo
    /\ t = TableOf(d, cursor) /\ i = Entry(cursor) /\ t # 0

LEMMA MappedCursor ==
    ASSUME TypeOK, SInv, Loops, NEW d,
           \/ d = pageDirectory /\ (MapLowPage \/ MapHeapPage)
           \/ d = currentPageDirectory /\ MapStackPage
    PROVE  /\ d \in PageNo /\ cursor \in PageNo /\ TableOf(d, cursor) # 0
           /\ AllocFrame(d, cursor)
<1>1. d \in PageNo
  BY DEF TypeOK
<1>2. cursor \in PageNo
  BY LoopPages DEF MapLowPage, MapHeapPage, MapStackPage
<1>3. pc = "heap" /\ cursor < HeapStart + HeapPages => TableOf(pageDirectory, cursor) # 0
  BY LoopPages DEF Loops
<1> QED
  BY <1>1, <1>2, <1>3 DEF MapLowPage, MapHeapPage, MapStackPage

LEMMA EntryWritten ==
    ASSUME Freeable = {}, TypeOK, CloneInDirectory, SInv, TInv, [Next]_vars
    PROVE  \/ UNCHANGED tables /\ (UNCHANGED frames \/ AllocateBitmap)
           \/ \E t \in PageNo, i \in Index, f \in Frames :
                 /\ tables[t][i].frame = 0
                 /\ Written(t, i, [frame |-> f, present |-> TRUE])
                 /\ Given(f)
                 /\ InClone(t, i) \/ (f \in FreeFrames /\ \E d : InMapping(d, t, i))
<1> USE DEF boot, structure, processor
<1>0. /\ Fresh /\ Loops /\ MappedPresent
      /\ pageDirectory \in PageNo /\ currentPageDirectory \in PageNo
  BY DEF TInv, TypeOK
<1>1. CASE UNCHANGED <<tables, frames>>
  BY <1>1
<1>2. CASE MakeHeapTables \/ MakeLowTable \/ MakeStackTable
  <2>1. pc # "start" /\ cursor \in PageNo
    BY <1>0, <1>2, LoopPages DEF MakeHeapTables, MakeLowTable, MakeStackTable
  <2>2. ASSUME NEW d \in PageNo, MakeTable(d, cursor)
        PROVE  UNCHANGED <<tables, frames>>
    BY <1>0, <2>1, <2>2, TableLinked
  <2> QED
    BY <1>0, <1>1, <1>2, <2>2 DEF MakeHeapTables, MakeLowTable, MakeStackTable
<1>3. CASE MapLowPage \/ MapHeapPage \/ MapStackPage
  <2>1. PICK d : \/ d = pageDirectory /\ (MapLowPage \/ MapHeapPage)
                 \/ d = currentPageDirectory /\ MapStackPage
    BY <1>3
  <2>2. /\ d \in PageNo /\ cursor \in PageNo /\ TableOf(d, cursor) # 0
        /\ AllocFrame(d, cursor)
    BY <1>0, <2>1, MappedCursor
  <2>3. PICK t \in PageNo, i \in Index : t = TableOf(d, cursor) /\ i = Entry(cursor)
    BY <2>2, SlotOfPage DEF TableOf, TypeOK, Link
  <2>4. CASE UNCHANGED <<tables, frames>>
    BY <1>1, <2>4
  <2>5. CASE ~UNCHANGED <<tables, frames>>
    <3>1. PICK f \in Frames :
             /\ GetFreeFrame(f) /\ frames' = frames \cup {f}
             /\ PageOf(d, cursor).frame = 0
             /\ \A u \in PageNo, j \in Index :
                   tables'[u][j] = IF u = TableOf(d, cursor) /\ j = Entry(cursor)
                                   THEN [frame |-> f, present |-> TRUE]
                                   ELSE tables[u][j]
      BY <2>2, <2>5, FrameGiven
    <3>2. tables[t][i].frame = 0
      BY <2>3, <3>1 DEF PageOf
    <3>3. Written(t, i, [frame |-> f, present |-> TRUE])
      BY <2>3, <3>1 DEF Written, Page
    <3>4. InMapping(d, t, i)
      BY <2>1, <2>2, <2>3 DEF InMapping
    <3> QED
      BY <3>1, <3>2, <3>3, <3>4 DEF Given, GetFreeFrame
  <2> QED
    BY <2>4, <2>5
<1>4. CASE CloneTable
  <2>1. PICK b : b = NewBlock
    OBVIOUS
  <2>2. pc # "start" /\ Reserve(PageSize) /\ PageSize \in Nat \ {0}
    BY <1>4, PagingAssumption DEF CloneTable, InLoop
  <2>3. [tables EXCEPT ![b] = ZeroTable] = tables
    BY <1>0, <2>1, <2>2, BlockEmpty
  <2> QED
    BY <1>1, <1>4, <2>1, <2>3 DEF CloneTable
<1>5. CASE ClonePage \/ ClonePageWithoutFrame
  <2>1. PICK f \in Frames : CopyInto(f) /\ Given(f)
    <3>1. CASE ClonePage
      BY <3>1 DEF ClonePage, Given, Busy
    <3>2. CASE ClonePageWithoutFrame
      BY <3>2, Ranges DEF ClonePageWithoutFrame, Given
    <3> QED
      BY <1>5, <3>1, <3>2
  <2>2. InTable /\ SourcePage.frame # 0
    BY <1>5 DEF ClonePage, ClonePageWithoutFrame
  <2>3. /\ clone.page \in Index /\ clone.table \in PageNo
        /\ \A t \in PageNo, i \in Index :
              tables'[t][i] = IF t = clone.table /\ i = clone.page
                              THEN [frame |-> f, present |-> SourcePage.present]
                              ELSE tables[t][i]
    BY <2>1, <2>2, EntryCloned
  <2>4. SourcePage.present = TRUE
    <3>1. SourceLink.table \in PageNo
      BY <2>2, SourceTypes DEF InTable, CloneInDirectory, Link
    <3>2. SourcePage \in Page /\ SourcePage.present
      BY <1>0, <2>2, <2>3, <3>1 DEF MappedPresent, SourcePage, TypeOK
    <3> QED
      BY <3>2 DEF Page
  <2>5. PICK t \in PageNo, i \in Index : t = clone.table /\ i = clone.page
    BY <2>3
  <2>6. tables[t][i] = NullPage
    BY <1>0, <2>2, <2>5 DEF Fresh, InTable, Index
  <2>7. tables[t][i].frame = 0
    BY <2>6 DEF NullPage
  <2>8. InClone(t, i)
    BY <2>1, <2>2, <2>5, <2>6 DEF InClone, CopyInto
  <2>9. Written(t, i, [frame |-> f, present |-> TRUE])
    BY <2>3, <2>4, <2>5 DEF Written, Page
  <2> QED
    BY <2>1, <2>7, <2>8, <2>9
<1>6. CASE \/ AllocateBitmap \/ HeapTablesMade \/ LowPagesMapped
           \/ HeapPagesMapped \/ EnablePaging \/ FirstDirectoryCloned
           \/ CloneFirstDirectory \/ Fork \/ StackMapped
  BY <1>6
     DEF AllocateBitmap, HeapTablesMade, LowPagesMapped, HeapPagesMapped,
         EnablePaging, FirstDirectoryCloned, CloneFirstDirectory, Fork,
         NewDirectory, StackMapped
<1>7. CASE SkipSlot \/ LinkTable \/ LinkClone \/ SkipPage
  BY <1>1, <1>7 DEF SkipSlot, LinkTable, LinkClone, SkipPage
<1>8. CASE \/ Forked
           \/ (\E d \in spaces : Switch(d))
           \/ (\E v \in DataPages, x \in Values : Store(v, x))
           \/ (\E v \in DataPages : PageFault(v))
           \/ UNCHANGED vars
  BY <1>1, <1>8 DEF Forked, Switch, Store, PageFault, vars
<1> QED
  BY <1>2, <1>3, <1>4, <1>5, <1>6, <1>7, <1>8 DEF Next, Boot, Clone

LEMMA MappedPresentStep ==
    ASSUME Freeable = {}, TypeOK, CloneInDirectory, SInv, TInv, [Next]_vars
    PROVE  MappedPresent'
<1>1. MappedPresent
  BY DEF TInv
<1>2. CASE UNCHANGED tables
  BY <1>1, <1>2 DEF MappedPresent
<1>3. CASE \E t \in PageNo, i \in Index, f \in Frames :
              Written(t, i, [frame |-> f, present |-> TRUE])
  BY <1>1, <1>3 DEF MappedPresent, Written
<1> QED
  BY <1>2, <1>3, EntryWritten

\* The invariant holds throughout, if nobody gives a frame back.
THEOREM TablesInvariant ==
    ASSUME Freeable = {}
    PROVE  Spec => [](IInv /\ SInv /\ TInv)
<1>1. Init => IInv /\ SInv /\ EmptyAtStart /\ TInv
  <2>1. Init => EmptyAtStart
    BY DEF Init, EmptyAtStart, ZeroDirectory, NullLink
  <2> QED
    BY <2>1, InitInvariant, InitShared, InitTables
<1>2. IInv /\ SInv /\ EmptyAtStart /\ TInv /\ [Next]_vars => SInv' /\ EmptyAtStart' /\ TInv'
  <2> SUFFICES ASSUME IInv, SInv, EmptyAtStart, TInv, [Next]_vars
               PROVE  SInv' /\ EmptyAtStart' /\ TInv'
    OBVIOUS
  <2>1. TypeOK /\ CloneInDirectory
    BY DEF IInv
  <2>2. Fresh' /\ Loops' /\ SlotsApart' /\ MappedPresent'
    BY <2>1, FreshStep, LoopsStep, SlotsApartStep, MappedPresentStep
  <2>3. SInv' /\ EmptyAtStart'
    BY <2>1, SharedStep, EmptyStays
  <2> QED
    BY <2>2, <2>3 DEF TInv
<1> QED
  BY <1>1, <1>2, Invariance, PTL DEF Spec

-----------------------------------------------------------------------------
(* No frame is lost.                                                       *)

\* The same over tables instead of the set of their entries.
FramesHeld ==
    pc # "start" =>
        \A f \in frames : \/ f \in Garbage \ 0 .. FrameNumber - 1
                          \/ f = 0
                          \/ \E t \in PageNo, i \in Index :
                                tables[t][i].frame = f /\ f # 0

LEMMA HeldExpanded == NoFrameLost <=> FramesHeld
<1>1. ASSUME NEW f
      PROVE  f \in {FrameOf(e) : e \in MappedEntries} <=>
                 \E t \in PageNo, i \in Index : tables[t][i].frame = f /\ f # 0
  <2>1. ASSUME f \in {FrameOf(e) : e \in MappedEntries}
        PROVE  \E t \in PageNo, i \in Index : tables[t][i].frame = f /\ f # 0
    <3>1. PICK e \in MappedEntries : f = FrameOf(e)
      BY <2>1
    <3> QED
      BY <3>1 DEF MappedEntries, FrameOf
  <2>2. ASSUME NEW t \in PageNo, NEW i \in Index, tables[t][i].frame = f, f # 0
        PROVE  f \in {FrameOf(e) : e \in MappedEntries}
    <3>1. <<t, i>> \in MappedEntries /\ FrameOf(<<t, i>>) = f
      BY <2>2 DEF MappedEntries, FrameOf
    <3> QED
      BY <3>1
  <2> QED
    BY <2>1, <2>2
<1> QED
  BY <1>1 DEF NoFrameLost, FramesHeld

LEMMA HeldStep ==
    ASSUME Freeable = {}, TypeOK, CloneInDirectory, SInv, TInv, FramesHeld,
           frames \subseteq Garbage \/ pc # "start", [Next]_vars
    PROVE  FramesHeld'
<1>1. CASE AllocateBitmap
  <2>1. frames' = frames \ (0 .. FrameNumber - 1) /\ pc = "start"
    BY <1>1 DEF AllocateBitmap
  <2> QED
    BY <2>1 DEF FramesHeld
<1>2. CASE ~AllocateBitmap
  <2>1. pc' # "start" => pc # "start"
    BY <1>2
       DEF Next, Boot, Clone, vars, MakeHeapTables, HeapTablesMade,
           MakeLowTable, MapLowPage, LowPagesMapped, MapHeapPage, HeapPagesMapped,
           EnablePaging, CloneFirstDirectory, NewDirectory, FirstDirectoryCloned,
           MakeStackTable, MapStackPage, StackMapped, SkipSlot, LinkTable,
           CloneTable, LinkClone, SkipPage, ClonePage, CopyInto,
           ClonePageWithoutFrame, InLoop, InTable, Fork, Forked, Switch, Store,
           PageFault, FreeFrame, Cloned
  <2>2. CASE UNCHANGED <<tables, frames>>
    BY <2>1, <2>2 DEF FramesHeld
  <2>3. CASE \E t \in PageNo, i \in Index, f \in Frames :
                /\ tables[t][i].frame = 0
                /\ Written(t, i, [frame |-> f, present |-> TRUE])
                /\ Given(f)
    <3>1. PICK t \in PageNo, i \in Index, f \in Frames :
             /\ tables[t][i].frame = 0
             /\ Written(t, i, [frame |-> f, present |-> TRUE])
             /\ Given(f)
      BY <2>3
    <3>2. frames' \subseteq frames \cup {f}
      BY <3>1 DEF Given
    <3>3. tables'[t][i].frame = f
      BY <3>1 DEF Written
    <3>4. \A u \in PageNo, j \in Index :
             tables[u][j].frame # 0 => tables'[u][j] = tables[u][j]
      BY <3>1 DEF Written
    <3> QED
      BY <2>1, <3>2, <3>3, <3>4 DEF FramesHeld
  <2> QED
    BY <1>2, <2>2, <2>3, EntryWritten
<1> QED
  BY <1>1, <1>2

GarbageAtStart == pc = "start" => frames \subseteq Garbage

LEMMA GarbageStays ==
    ASSUME GarbageAtStart, [Next]_vars
    PROVE  GarbageAtStart'
<1> USE DEF boot, structure, processor
<1>1. CASE pc' = "start"
  <2>1. UNCHANGED frames /\ pc = "start"
    BY <1>1
       DEF Next, Boot, Clone, vars, AllocateBitmap, MakeHeapTables, HeapTablesMade,
           MakeLowTable, MapLowPage, LowPagesMapped, MapHeapPage, HeapPagesMapped,
           EnablePaging, CloneFirstDirectory, NewDirectory, FirstDirectoryCloned,
           MakeStackTable, MapStackPage, StackMapped, SkipSlot, LinkTable,
           CloneTable, LinkClone, SkipPage, ClonePage, CopyInto,
           ClonePageWithoutFrame, InLoop, InTable, Fork, Forked, Switch, Store,
           PageFault, FreeFrame, Cloned
  <2> QED
    BY <2>1 DEF GarbageAtStart
<1> QED
  BY <1>1 DEF GarbageAtStart

\* No frame is lost: a bit that is set, apart from those found set behind the
\* bitmap's end, is the frame of some page, or frame 0.  Neither getPage's
\* memset of a new table nor allocFrame, nor a clone, ever overwrites the only
\* entry that names a frame.
THEOREM FramesStayHeld ==
    ASSUME Freeable = {}
    PROVE  Spec => []NoFrameLost
<1>1. Init => GarbageAtStart /\ FramesHeld
  BY DEF Init, GarbageAtStart, FramesHeld
<1>2. IInv /\ SInv /\ TInv /\ GarbageAtStart /\ FramesHeld /\ [Next]_vars
         => GarbageAtStart' /\ FramesHeld'
  BY HeldStep, GarbageStays DEF IInv, GarbageAtStart
<1>3. FramesHeld => NoFrameLost
  BY HeldExpanded
<1> QED
  BY <1>1, <1>2, <1>3, TablesInvariant, PTL DEF Spec

-----------------------------------------------------------------------------
(* What is mapped stays.                                                   *)

BeforeForks == Booting \/ pc = "stack" \/ (pc = "clone" /\ spaces = {})

Unmapped == pc = "start" \/ pc = "tables" \/ (pc = "low" /\ cursor = 0)

\* Before processes fork, the only page that is present without a frame of its
\* own is page 0: the loop maps it first and gets frame 0.
Frameless ==
    /\ Unmapped => \A t \in PageNo : tables[t] = ZeroTable
    /\ ~Unmapped => 0 \in frames
    /\ BeforeForks =>
          \A t \in PageNo, i \in Index :
             tables[t][i].frame = 0 /\ tables[t][i].present =>
                t = TableOf(pageDirectory, 0) /\ i = 0

LEMMA InitFrameless == Init => Frameless
BY DEF Init, Frameless, Unmapped, ZeroTable, NullPage

\* The first clone copies no table: its source is the kernel's directory.
LEMMA FirstLinksOnly ==
    ASSUME TypeOK, CloneInDirectory, SInv, Fresh, spaces = {},
           NEW t \in PageNo, NEW i \in Index, InClone(t, i)
    PROVE  FALSE
<1>1. pc = "clone" /\ clone.table # 0 /\ i = clone.page
  BY DEF InClone, InTable
<1>2. SourceLink.table = 0
  BY <1>1 DEF SInv, Phases, Unlinked, SourceLink
<1>3. SourcePage = NullPage
  BY <1>1, <1>2 DEF SourcePage, Fresh, ZeroTable
<1> QED
  BY <1>3 DEF InClone, NullPage

\* The order of the phases.
LEMMA PhaseStep ==
    ASSUME TypeOK, SInv, TInv, [Next]_vars, ~AllocateBitmap
    PROVE  /\ Unmapped' => Unmapped
           /\ Unmapped /\ ~Unmapped' => MapLowPage /\ cursor = 0
           /\ BeforeForks' => BeforeForks
           /\ frames \subseteq frames'
<1> USE DEF boot, structure, processor
<1>0. Loops /\ Fresh /\ cursor \in Int /\ placement \in Nat
  BY DEF TInv, TypeOK
<1>1. CASE MapLowPage
  <2>1. pc = "low" /\ pc' = "low" /\ cursor \in Nat /\ cursor' = cursor + 1
        /\ frames \subseteq frames'
    BY <1>0, <1>1 DEF MapLowPage, Loops, AllocFrame, Busy
  <2> QED
    BY <1>1, <2>1 DEF Unmapped, BeforeForks, Booting
<1>2. CASE LowPagesMapped
  <2>1. pc = "low" /\ cursor \in Nat /\ cursor > AlignUp(placement) /\ AlignUp(placement) \in Nat
    BY <1>0, <1>2, LowCursor, AlignUpNat DEF LowPagesMapped, Loops
  <2>2. ~Unmapped /\ ~Unmapped' /\ BeforeForks /\ frames' = frames
    BY <1>2, <2>1 DEF LowPagesMapped, Unmapped, BeforeForks, Booting
  <2> QED
    BY <2>2
<1>3. CASE MakeHeapTables \/ HeapTablesMade \/ MakeLowTable
  BY <1>3 DEF MakeHeapTables, HeapTablesMade, MakeLowTable, MakeTable, Unmapped,
     BeforeForks, Booting
<1>4. CASE MapHeapPage \/ HeapPagesMapped \/ EnablePaging \/ CloneFirstDirectory
           \/ MakeStackTable \/ MapStackPage \/ StackMapped
  BY <1>4
     DEF MapHeapPage, AllocFrame, Busy, HeapPagesMapped, EnablePaging,
         CloneFirstDirectory, NewDirectory, MakeStackTable, MakeTable,
         MapStackPage, StackMapped, Unmapped, BeforeForks, Booting
<1>5. CASE FirstDirectoryCloned
  BY <1>5 DEF FirstDirectoryCloned, Cloned, Unmapped, BeforeForks, Booting
<1>6. CASE Fork
  <2>1. pc = "run" /\ pc' = "clone" /\ UNCHANGED <<spaces, frames>>
    BY <1>6 DEF Fork, NewDirectory
  <2>2. spaces # {}
    BY <2>1 DEF SInv, Phases
  <2> QED
    BY <2>1, <2>2 DEF Unmapped, BeforeForks, Booting
<1>7. CASE SkipSlot \/ LinkTable \/ CloneTable \/ LinkClone \/ SkipPage
           \/ ClonePage \/ ClonePageWithoutFrame
  BY <1>7
     DEF SkipSlot, LinkTable, CloneTable, LinkClone, SkipPage, ClonePage, Busy,
         ClonePageWithoutFrame, CopyInto, InLoop, InTable, Unmapped,
         BeforeForks, Booting
<1>8. CASE \/ Forked
           \/ (\E d \in spaces : Switch(d))
           \/ (\E v \in DataPages, x \in Values : Store(v, x))
           \/ (\E v \in DataPages : PageFault(v))
           \/ (\E v \in Freeable : FreeFrame(v))
  <2>1. pc \in {"clone", "run"} /\ pc' \in {"run", "halted"} /\ frames' = frames
    BY <1>8 DEF Forked, Cloned, Switch, Store, PageFault, FreeFrame
  <2> QED
    BY <2>1 DEF Unmapped, BeforeForks, Booting
<1>9. CASE UNCHANGED vars
  BY <1>9 DEF vars, Unmapped, BeforeForks, Booting
<1> QED
  BY <1>1, <1>2, <1>3, <1>4, <1>5, <1>6, <1>7, <1>8, <1>9 DEF Next, Boot, Clone

LEMMA FirstFrame ==
    ASSUME TypeOK, 0 \in FreeFrames, NEW f, GetFreeFrame(f)
    PROVE  f = 0
BY SMT, Ranges, PagingAssumption DEF GetFreeFrame, FreeFrames, Frames

\* Page 0 is the first of slot 0.
LEMMA PageZero ==
    /\ Slot(0) = 0 /\ Entry(0) = 0 /\ 0 \in PageNo /\ 0 \in Slots
    /\ \A v \in PageNo : Slot(v) = 0 /\ Entry(v) = 0 => v = 0
<1> USE DEF Slot, Entry
<1>1. TableSize \in Nat /\ TableSize > 0
  BY PagingAssumption
<1>2. 0 \div TableSize = 0 /\ 0 % TableSize = 0
  BY <1>1, SMT
<1>3. ASSUME NEW v \in PageNo, v \div TableSize = 0, v % TableSize = 0
      PROVE  v = 0
  <2>1. v \in Int
    BY DEF PageNo
  <2>2. v = TableSize * (v \div TableSize) + (v % TableSize)
    BY <1>1, <2>1, SMT
  <2> QED
    BY <1>1, <1>3, <2>2, SMT
<1>4. 0 \in PageNo /\ 0 \in Slots
  BY Ranges, SlotOfPage, <1>2
<1> QED
  BY <1>2, <1>3, <1>4

LEMMA FramelessStep ==
    ASSUME Freeable = {}, TypeOK, CloneInDirectory, SInv, TInv, Frameless, [Next]_vars
    PROVE  Frameless'
<1> USE DEF boot, structure, processor
<1>0. Fresh /\ Loops /\ pageDirectory \in PageNo
  BY DEF TInv, TypeOK
<1>1. CASE AllocateBitmap
  <2>1. pc = "start" /\ pc' = "tables" /\ tables' = tables
    BY <1>1 DEF AllocateBitmap
  <2>2. \A t \in PageNo : tables'[t] = ZeroTable
    BY <2>1 DEF Frameless, Unmapped
  <2>3. \A t \in PageNo, i \in Index : tables'[t][i].present = FALSE
    BY <2>2 DEF ZeroTable, NullPage
  <2> QED
    BY <2>1, <2>2, <2>3 DEF Frameless, Unmapped
<1>2. ASSUME ~AllocateBitmap, NEW t \in PageNo, NEW i \in Index, NEW f \in Frames,
             Written(t, i, [frame |-> f, present |-> TRUE]), InClone(t, i)
      PROVE  Frameless'
  <2>1. pc = "clone" /\ pc' = "clone" /\ spaces' = spaces /\ spaces # {}
    BY <1>0, <1>2, FirstLinksOnly DEF InClone, InTable
  <2>2. 0 \in frames'
    BY <1>2, <2>1, PhaseStep DEF Frameless, Unmapped
  <2> QED
    BY <2>1, <2>2 DEF Frameless, Unmapped, BeforeForks, Booting
<1>3. ASSUME ~AllocateBitmap, NEW t \in PageNo, NEW i \in Index, NEW f \in FreeFrames,
             Written(t, i, [frame |-> f, present |-> TRUE]), Given(f),
             NEW d, InMapping(d, t, i)
      PROVE  Frameless'
  <2>1. /\ UNCHANGED <<dirs, pageDirectory, pc>> /\ cursor \in PageNo
        /\ pc \in {"low", "heap", "stack"}
    BY <1>3 DEF InMapping, MapLowPage, MapHeapPage, MapStackPage, AllocFrame
  <2>2. TableOf(pageDirectory, 0)' = TableOf(pageDirectory, 0)
    BY <2>1 DEF TableOf
  <2>3. GetFreeFrame(f) /\ frames' = frames \cup {f}
    BY <1>3 DEF Given
  <2>4. ~Unmapped'
    BY <1>0, <1>3, <2>1
       DEF Unmapped, InMapping, MapLowPage, MapHeapPage, MapStackPage, Loops
  <2>5. CASE Unmapped
    <3>1. MapLowPage /\ cursor = 0
      BY <1>3, <2>4, <2>5, PhaseStep
    <3>2. t = TableOf(pageDirectory, 0) /\ i = 0
      BY <1>3, <3>1, PageZero DEF InMapping, MapLowPage, MapHeapPage, MapStackPage
    <3>3. 0 \in frames'
      BY <2>3, FirstFrame, Ranges DEF FreeFrames
    <3>4. \A u \in PageNo, j \in Index : ~(u = t /\ j = i) => tables'[u][j] = NullPage
      BY <1>3, <2>5 DEF Frameless, Written, ZeroTable
    <3> QED
      BY <2>2, <2>4, <3>2, <3>3, <3>4 DEF Frameless, NullPage
  <2>6. CASE ~Unmapped
    <3>1. 0 \in frames /\ f # 0
      BY <2>6 DEF Frameless, FreeFrames
    <3>2. tables'[t][i].frame # 0
      BY <1>3, <3>1 DEF Written
    <3>3. \A u \in PageNo, j \in Index : ~(u = t /\ j = i) => tables'[u][j] = tables[u][j]
      BY <1>3 DEF Written
    <3>4. BeforeForks
      BY <2>1 DEF BeforeForks, Booting
    <3> QED
      BY <2>2, <2>3, <2>4, <3>1, <3>2, <3>3, <3>4 DEF Frameless
  <2> QED
    BY <2>5, <2>6
<1>4. CASE ~AllocateBitmap /\ UNCHANGED <<tables, frames>>
  <2>1. CASE Unmapped /\ Unmapped'
    <3>1. \A t \in PageNo : tables'[t] = ZeroTable
      BY <1>4, <2>1 DEF Frameless
    <3>2. \A t \in PageNo, i \in Index : tables'[t][i].present = FALSE
      BY <3>1 DEF ZeroTable, NullPage
    <3> QED
      BY <2>1, <3>1, <3>2 DEF Frameless
  <2>2. CASE Unmapped /\ ~Unmapped'
    <3>1. MapLowPage /\ cursor = 0
      BY <1>4, <2>2, PhaseStep
    <3>2. AllocFrame(pageDirectory, 0)
      BY <3>1 DEF MapLowPage
    <3>3. PageOf(pageDirectory, 0) = NullPage
      <4>1. TableOf(pageDirectory, 0) \in PageNo
        BY <1>0, PageZero DEF TableOf, TypeOK, Link
      <4> QED
        BY <2>2, <4>1, PageZero, SlotOfPage DEF Frameless, PageOf, ZeroTable
    <3>4. FreeFrames = {}
      <4>1. SUFFICES ASSUME FreeFrames # {} PROVE FALSE
        OBVIOUS
      <4>2. PICK f \in Frames : GetFreeFrame(f) /\ frames' = frames \cup {f}
        BY <3>2, <3>3, <4>1 DEF AllocFrame, NullPage, Busy
      <4> QED
        BY <1>4, <4>2 DEF GetFreeFrame, FreeFrames
    <3>5. 0 \in frames'
      BY <1>4, <3>4, Ranges DEF FreeFrames
    <3>6. \A u \in PageNo : tables'[u] = ZeroTable
      BY <1>4, <2>2 DEF Frameless
    <3> QED
      BY <2>2, <3>5, <3>6 DEF Frameless, ZeroTable, NullPage
  <2>3. CASE ~Unmapped
    <3>1. ~Unmapped' /\ (BeforeForks' => BeforeForks) /\ pc # "start"
      BY <1>4, <2>3, PhaseStep DEF Unmapped
    <3>2. ASSUME NEW t \in PageNo, NEW i \in Index, BeforeForks,
                 tables[t][i].frame = 0, tables[t][i].present
          PROVE  t = TableOf(pageDirectory, 0)' /\ i = 0
      <4>1. t = TableOf(pageDirectory, 0) /\ i = 0
        BY <3>2 DEF Frameless
      <4>2. t # 0
        BY <1>0, <3>2 DEF Fresh, ZeroTable, NullPage
      <4>3. pageDirectory' = pageDirectory /\ dirs'[pageDirectory][0] = dirs[pageDirectory][0]
        BY <3>1, <4>1, <4>2, LinksKept, PageZero DEF Directories, TableOf
      <4> QED
        BY <4>1, <4>3, PageZero DEF TableOf
    <3> QED
      BY <1>4, <2>3, <3>1, <3>2 DEF Frameless
  <2> QED
    BY <2>1, <2>2, <2>3
<1>5. CASE ~AllocateBitmap /\ tables' # tables
  BY <1>2, <1>3, <1>5, EntryWritten
<1>6. CASE ~AllocateBitmap /\ tables' = tables
  <2>1. CASE frames' = frames
    BY <1>4, <1>6, <2>1
  <2>2. CASE frames' # frames
    BY <1>2, <1>3, <1>6, <2>2, EntryWritten
  <2> QED
    BY <2>1, <2>2
<1> QED
  BY <1>1, <1>5, <1>6

LEMMA MappingStep ==
    ASSUME Freeable = {}, TypeOK, CloneInDirectory, SInv, TInv, EmptyAtStart, Frameless,
           [Next]_vars, NEW d \in Directories, NEW v \in PageNo, PageOf(d, v).present
    PROVE  PageOf(d, v)' = PageOf(d, v)
<1> USE DEF boot, structure, processor
<1>0. /\ Fresh /\ Loops /\ SlotsApart /\ pageDirectory \in PageNo
      /\ currentPageDirectory \in PageNo /\ d \in PageNo
  BY DEF TInv, TypeOK, Directories
<1>1. PICK s \in Slots, i \in Index, t \in PageNo :
         s = Slot(v) /\ i = Entry(v) /\ t = dirs[d][s].table
  BY <1>0, SlotOfPage DEF TypeOK, Link
<1>2. t # 0 /\ tables[t][i].present
  BY <1>0, <1>1 DEF PageOf, TableOf, Fresh, ZeroTable, NullPage
<1>3. pc # "start"
  BY <1>0, <1>1, <1>2 DEF EmptyAtStart
<1>4. dirs'[d][s].table = t
  BY <1>1, <1>2, <1>3, LinksKept
<1>5. tables'[t][i] = tables[t][i]
  <2>1. CASE UNCHANGED tables
    BY <2>1
  <2>2. ASSUME NEW u \in PageNo, NEW j \in Index, NEW f \in Frames,
               tables[u][j].frame = 0,
               Written(u, j, [frame |-> f, present |-> TRUE])
        PROVE  ~(u = t /\ i = j) => tables'[t][i] = tables[t][i]
    BY <2>2 DEF Written
  <2>3. ASSUME InClone(t, i)
        PROVE  FALSE
    BY <1>2, <2>3 DEF InClone, NullPage
  <2>4. ASSUME NEW f \in FreeFrames, tables[t][i].frame = 0,
               NEW e, InMapping(e, t, i)
        PROVE  FALSE
    <3>1. /\ pc \in {"low", "heap", "stack"} /\ cursor \in PageNo /\ e \in PageNo
          /\ t = dirs[e][Slot(cursor)].table /\ i = Entry(cursor)
      BY <1>0, <2>4 DEF InMapping, MapLowPage, MapHeapPage, MapStackPage, TableOf
    <3>2. Slot(cursor) \in Slots
      BY <3>1, SlotOfPage
    <3>3. t = dirs[pageDirectory][0].table /\ i = 0
      BY <1>2, <2>4, <3>1, PageZero DEF Frameless, BeforeForks, Booting, TableOf
    <3>4. Slot(cursor) = 0
      <4>1. PICK k \in Slots, l \in Slots : k = Slot(cursor) /\ l = 0
        BY <3>2, PageZero
      <4>2. /\ dirs[e][k].table # 0 /\ dirs[e][k].table = dirs[pageDirectory][l].table
            /\ e \in PageNo
        BY <1>2, <3>1, <3>3, <4>1
      <4>3. k = l
        BY <1>0, <4>2 DEF SlotsApart
      <4> QED
        BY <4>1, <4>3
    <3>5. cursor = 0
      BY <3>1, <3>3, <3>4, PageZero
    <3>6. pc # "low"
      BY <1>2, <3>5 DEF Frameless, Unmapped, ZeroTable, NullPage
    <3>7. HeapStart > 0
      BY <1>0, <1>3, AlignUpNat, PagingAssumption DEF SInv, Allocated, Fresh, TypeOK
    <3> QED
      BY <1>0, <2>4, <3>1, <3>5, <3>6, <3>7, PagingAssumption
         DEF InMapping, MapLowPage, MapHeapPage, MapStackPage, Loops
  <2> QED
    BY <1>2, <2>1, <2>2, <2>3, <2>4, EntryWritten
<1> QED
  BY <1>1, <1>4, <1>5 DEF PageOf, TableOf

\* A page that some directory in use maps is never mapped to another frame, or
\* unmapped: this is why the kernel need not flush the translation cache.
THEOREM MappingsStay ==
    ASSUME Freeable = {}
    PROVE  Spec => MappingsStable
<1>1. Init => Frameless /\ EmptyAtStart
  <2>1. Init => EmptyAtStart
    BY DEF Init, EmptyAtStart, ZeroDirectory, NullLink
  <2> QED
    BY <2>1, InitFrameless
<1>2. IInv /\ SInv /\ TInv /\ Frameless /\ EmptyAtStart /\ [Next]_vars
         => Frameless' /\ EmptyAtStart'
  BY FramelessStep, EmptyStays DEF IInv
<1>3. IInv /\ SInv /\ TInv /\ Frameless /\ EmptyAtStart /\ [Next]_vars
         => [\A d \in Directories : \A v \in PageNo :
                PageOf(d, v).present => PageOf(d, v)' = PageOf(d, v)]_vars
  BY MappingStep DEF IInv
<1> QED
  BY <1>1, <1>2, <1>3, TablesInvariant, PTL DEF Spec, MappingsStable

\* Booting leaves page 0 alone on frame 0 (Frameless).  The clones of later forks
\* enter frame 0 when there is no other, and no bit is ever cleared again.
LEMMA FrameZeroLastStep ==
    ASSUME Freeable = {}, TypeOK, CloneInDirectory, SInv, TInv, Frameless,
           FrameZeroLast, [Next]_vars
    PROVE  FrameZeroLast'
<1>1. Frameless' /\ tables[0] = ZeroTable
  BY FramelessStep DEF TInv, Fresh
<1>2. CASE BeforeForks'
  BY <1>1, <1>2, PageZero DEF Frameless, FrameZeroLast, FirstEntry
<1>3. CASE ~BeforeForks' /\ UNCHANGED <<tables, frames>> /\ ~AllocateBitmap
  <2>1. ASSUME Frames \ frames # {}, NEW t \in PageNo, NEW i \in Index,
               tables[t][i] = [frame |-> 0, present |-> TRUE]
        PROVE  <<t, i>> = FirstEntry'
    <3>1. t = TableOf(pageDirectory, 0) /\ <<t, i>> = FirstEntry
      BY <2>1 DEF FrameZeroLast, FreedEntries, FirstEntry
    <3>2. t # 0 /\ pc # "start"
      BY <1>1, <2>1 DEF Frameless, Unmapped, ZeroTable, NullPage
    <3>3. pageDirectory' = pageDirectory /\ dirs'[pageDirectory][0] = dirs[pageDirectory][0]
      BY <3>1, <3>2, LinksKept, PageZero DEF Directories, TableOf
    <3> QED
      BY <3>1, <3>3, PageZero DEF FirstEntry, TableOf
  <2> QED
    BY <1>3, <2>1 DEF FrameZeroLast
<1>4. ASSUME NEW t \in PageNo, NEW i \in Index, NEW f \in Frames, ~BeforeForks',
             Written(t, i, [frame |-> f, present |-> TRUE]), Given(f), InClone(t, i)
      PROVE  FrameZeroLast'
  <2>1. UNCHANGED <<pageDirectory, dirs>> /\ 0 \in frames
    BY <1>4 DEF InClone, InTable, processor, Frameless, Unmapped
  <2>2. FirstEntry' = FirstEntry
    BY <2>1 DEF FirstEntry, TableOf
  <2>3. CASE f = 0
    BY <1>4, <2>1, <2>3 DEF Given, GetFreeFrame, FreeFrames, FrameZeroLast
  <2>4. CASE f # 0
    <3>1. Frames \ frames # {}
      BY <1>4, <2>4 DEF Given, GetFreeFrame, FreeFrames
    <3>2. \A u \in PageNo, j \in Index :
             tables'[u][j] = [frame |-> 0, present |-> TRUE] =>
                tables[u][j] = [frame |-> 0, present |-> TRUE]
      BY <1>4, <2>4 DEF Written
    <3> QED
      BY <2>2, <3>1, <3>2 DEF FrameZeroLast, FreedEntries
  <2> QED
    BY <2>3, <2>4
<1>5. ASSUME NEW d, NEW t, NEW i, InMapping(d, t, i)
      PROVE  BeforeForks'
  BY <1>5 DEF InMapping, MapLowPage, MapHeapPage, MapStackPage, BeforeForks, Booting
<1>6. AllocateBitmap => BeforeForks'
  BY DEF AllocateBitmap, BeforeForks, Booting
<1> QED
  BY <1>2, <1>3, <1>4, <1>5, <1>6, EntryWritten

\* While a frame is left no page but page 0 lies on frame 0: a fork that is given
\* pages without frames, because clonePageTable does not look whether allocFrame
\* succeeded, is one for which the bitmap was full.
THEOREM FrameZeroComesLast ==
    ASSUME Freeable = {}
    PROVE  Spec => []FrameZeroLast
<1>1. Init => Frameless /\ FrameZeroLast
  BY InitFrameless DEF Init, FrameZeroLast, ZeroTable, NullPage
<1>2. IInv /\ SInv /\ TInv /\ Frameless /\ FrameZeroLast /\ [Next]_vars
         => Frameless' /\ FrameZeroLast'
  BY FramelessStep, FrameZeroLastStep DEF IInv
<1> QED
  BY <1>1, <1>2, TablesInvariant, PTL DEF Spec
-----------------------------------------------------------------------------
(***************************************************************************)
(* What the processor sees, for every geometry in which main memory has    *)
(* room for what is placed in it (MainMemoryHolds, BootHasFrames), while   *)
(* nobody calls freeFrame: all that the boot allocator placed is mapped    *)
(* where it lies, in every directory, and the processor's walk through     *)
(* physical addresses is the kernel's through its pointers.                *)
(*                                                                         *)
(* The loop that maps low memory moves the pointer it runs up to.  It maps *)
(* page for frame because the bitmap has been cleared, nothing else takes  *)
(* frames until it ends, and the tables it makes, one for a slot at most,  *)
(* end in main memory.                                                     *)
(***************************************************************************)

(* The invariant.                                                          *)

MapInv == IInv /\ SInv /\ TInv /\ EmptyAtStart /\ GarbageAtStart /\ Frameless

KernelPage(v) == PageOf(pageDirectory, v)
Identity(v) == [frame |-> v, present |-> TRUE]

\* The slots of the kernel's directory that have a table.
Made == {s \in Slots : dirs[pageDirectory][s].table # 0}

\* The boot allocator's pointer counts the tables made.
Placed ==
    /\ pc = "start" => placement = InitrdEnd
    /\ pc \in {"tables", "low"} => AlignUp(placement) = Base + Cardinality(Made)
    /\ pc # "start" => AlignUp(placement) <= Base + SlotNumber

\* The loop that maps low memory has mapped page for frame up to its cursor.
LowFrames ==
    /\ pc = "tables" => frames \subseteq Leftover
    /\ pc = "low" =>
          /\ cursor <= AlignUp(placement) + 1
          /\ 0 .. cursor - 1 \subseteq frames
          /\ frames \subseteq (0 .. cursor - 1) \cup Leftover
          /\ \A v \in PageNo :
                KernelPage(v) = IF v < cursor THEN Identity(v) ELSE NullPage

\* The loop that maps the heap takes a frame for each page.
HeapFrames ==
    pc = "heap" =>
        Cardinality(frames) <= AlignUp(placement) + 1 + Cardinality(Leftover)
                                  + (cursor - HeapStart)

LowMapped ==
    pc \notin {"start", "tables", "low"} =>
        \A p \in 0 .. AlignUp(placement) - 1 : KernelPage(p) = Identity(p)

HeapMapped ==
    pc \notin {"start", "tables", "low"} =>
        \A v \in Heap : (pc = "heap" => v < cursor) => KernelPage(v).present

BootInv == Placed /\ LowFrames /\ HeapFrames /\ LowMapped /\ HeapMapped

-----------------------------------------------------------------------------
(* Geometry and counting.                                                  *)

\* A page is determined by its slot and its entry.
LEMMA PageDetermined ==
    ASSUME NEW v \in PageNo, NEW w \in PageNo, Slot(v) = Slot(w), Entry(v) = Entry(w)
    PROVE  v = w
<1>1. TableSize \in Nat /\ TableSize > 0 /\ v \in Int /\ w \in Int
  BY PagingAssumption DEF PageNo
<1>2. /\ v = TableSize * (v \div TableSize) + (v % TableSize)
      /\ w = TableSize * (w \div TableSize) + (w % TableSize)
  BY <1>1, SMT
<1> QED
  BY <1>1, <1>2, SMT DEF Slot, Entry

LEMMA BaseNat ==
    /\ Base \in Nat /\ AlignUp(PageSize) = 1
    /\ IsFiniteSet(Leftover) /\ Cardinality(Leftover) \in Nat
    /\ IsFiniteSet(Slots) /\ Cardinality(Slots) = SlotNumber
    /\ IsFiniteSet(Frames) /\ Cardinality(Frames) = FrameNumber * WordBits
    /\ FrameNumber * WordBits \in Nat
<1>1. InitrdEnd + BitmapSize \in Nat /\ DirectorySize \in Nat
  BY PagingAssumption
<1>2. Base \in Nat
  BY <1>1, AlignUpNat DEF Base
<1>3. AlignUp(PageSize) = 1
  <2>1. PageSize \in Nat /\ PageSize > 0
    BY PagingAssumption
  <2>2. AlignUp(1 * PageSize + 0) = 1 + AlignUp(0)
    BY AlignUpShift
  <2>3. 1 * PageSize + 0 = PageSize
    BY <2>1
  <2>4. AlignUp(0) = 0
    BY <2>1, SMT DEF AlignUp
  <2> QED
    BY <2>2, <2>3, <2>4
<1>4. FrameNumber * WordBits \in Nat
  BY PagingAssumption, SMT
<1>5. IsFiniteSet(Frames) /\ Cardinality(Frames) = FrameNumber * WordBits
  <2>1. PICK n \in Nat : n = FrameNumber * WordBits
    BY <1>4
  <2>2. IsFiniteSet(0 .. n - 1) /\ Cardinality(0 .. n - 1) = n
    BY FS_Interval
  <2> QED
    BY <2>1, <2>2 DEF Frames
<1>6. IsFiniteSet(Slots) /\ Cardinality(Slots) = SlotNumber
  <2>1. PICK n \in Nat : n = SlotNumber
    BY PagingAssumption
  <2>2. IsFiniteSet(0 .. n - 1) /\ Cardinality(0 .. n - 1) = n
    BY FS_Interval
  <2> QED
    BY <2>1, <2>2 DEF Slots
<1>7. Leftover \in SUBSET Frames
  BY PagingAssumption DEF Leftover
<1>8. IsFiniteSet(Leftover) /\ Cardinality(Leftover) \in Nat
  BY <1>5, <1>7, FS_Subset, FS_CardinalityType
<1> QED
  BY <1>2, <1>3, <1>4, <1>5, <1>6, <1>8

\* What the kernel's directory has, every directory in use has.
LEMMA SharedView ==
    ASSUME TypeOK, SInv, pc # "start", NEW d \in Directories, NEW s \in Slots,
           dirs[pageDirectory][s].table # 0
    PROVE  dirs[d][s] = dirs[pageDirectory][s]
<1>1. CASE d \in spaces
  BY <1>1 DEF SInv, TablesShared
<1>2. CASE d = currentPageDirectory
  <2>1. pc \in PC
    BY DEF TypeOK
  <2>2. CASE pc = "stack"
    BY <1>2, <2>2 DEF SInv, FirstApart, Apart
  <2>3. CASE pc # "stack"
    BY <1>1, <1>2, <2>1, <2>3 DEF SInv, Phases, PC, Booting
  <2> QED
    BY <2>2, <2>3
<1> QED
  BY <1>1, <1>2 DEF Directories

\* A page that the kernel's directory maps is the same in all of them, and
\* stays so.
LEMMA KernelPageShared ==
    ASSUME TypeOK, SInv, Fresh, pc # "start", NEW v \in PageNo, KernelPage(v).present
    PROVE  /\ TableOf(pageDirectory, v) # 0
           /\ \A d \in Directories : PageOf(d, v) = KernelPage(v)
<1>1. Slot(v) \in Slots /\ Entry(v) \in Index
  BY SlotOfPage
<1>2. TableOf(pageDirectory, v) # 0
  <2>1. SUFFICES ASSUME TableOf(pageDirectory, v) = 0 PROVE FALSE
    OBVIOUS
  <2>2. KernelPage(v) = NullPage
    BY <1>1, <2>1 DEF KernelPage, PageOf, Fresh, ZeroTable
  <2> QED
    BY <2>2 DEF NullPage
<1>3. \A d \in Directories : TableOf(d, v) = TableOf(pageDirectory, v)
  BY <1>1, <1>2, SharedView DEF TableOf
<1> QED
  BY <1>2, <1>3 DEF KernelPage, PageOf

LEMMA KernelPageKept ==
    ASSUME Freeable = {}, MapInv, [Next]_vars, pc # "start", NEW v \in PageNo,
           KernelPage(v).present
    PROVE  KernelPage(v)' = KernelPage(v)
<1>1. PICK d \in Directories : d = pageDirectory
  BY DEF Directories
<1>2. TypeOK /\ CloneInDirectory
  BY DEF MapInv, IInv
<1>3. pageDirectory' = d
  BY <1>1, <1>2, LinksKept DEF MapInv
<1>4. PageOf(d, v).present
  BY <1>1 DEF KernelPage
<1>5. PageOf(d, v)' = PageOf(d, v)
  BY <1>2, <1>4, MappingStep DEF MapInv
<1> QED
  BY <1>1, <1>3, <1>5 DEF KernelPage, PageOf, TableOf

\* The boot allocator is used until paging is on.
LEMMA PlacementKept ==
    ASSUME [Next]_vars, pc \notin {"start", "tables", "low"}
    PROVE  /\ placement' = placement /\ pc' \notin {"start", "tables", "low"}
           /\ pc' = "heap" => pc = "heap"
<1> USE DEF boot, structure, processor
<1> QED
  BY DEF Next, Boot, Clone, vars, AllocateBitmap, MakeHeapTables, HeapTablesMade,
         MakeLowTable, MapLowPage, LowPagesMapped, MapHeapPage, AllocFrame,
         HeapPagesMapped,
         EnablePaging, CloneFirstDirectory, NewDirectory, FirstDirectoryCloned,
         MakeStackTable, MakeTable, MapStackPage, StackMapped, SkipSlot, LinkTable,
         CloneTable, LinkClone, SkipPage, ClonePage, CopyInto,
         ClonePageWithoutFrame, InLoop, InTable, Fork, Forked, Switch, Store,
         PageFault, FreeFrame, Cloned, Reserve, HeapEnabled

-----------------------------------------------------------------------------
(* The boot loops.                                                         *)

\* The bitmap and the kernel's directory.
LEMMA BitmapPlaced ==
    ASSUME MapInv, BootInv, AllocateBitmap
    PROVE  BootInv'
<1> DEFINE dir == AlignUp(placement + BitmapSize)
<1>1. /\ pc = "start" /\ pc' = "tables" /\ placement = InitrdEnd
      /\ placement' = dir * PageSize + DirectorySize
      /\ pageDirectory' = dir /\ dirs' = dirs /\ dir + AlignUp(DirectorySize) <= HeapStart
      /\ frames' = frames \ (0 .. FrameNumber - 1) /\ frames \subseteq Garbage
  BY DEF AllocateBitmap, BootInv, Placed, MapInv, GarbageAtStart
<1>2. dir \in Nat /\ DirectorySize \in Nat /\ AlignUp(DirectorySize) \in Nat
  BY <1>1, AlignUpNat, PagingAssumption
<1>3. AlignUp(placement') = Base
  <2>1. PICK n \in Nat : n = dir
    BY <1>2
  <2>2. AlignUp(n * PageSize + DirectorySize) = n + AlignUp(DirectorySize)
    BY <1>2, AlignUpShift
  <2> QED
    BY <1>1, <2>1, <2>2 DEF Base
<1>4. Made' = {} /\ Cardinality({}) = 0
  <2>1. dir \in PageNo
    BY <1>1, <1>2, Ranges, PagingAssumption
  <2> QED
    BY <1>1, <2>1, FS_EmptySet DEF Made, MapInv, EmptyAtStart
<1>5. frames' \subseteq Leftover
  BY <1>1 DEF Leftover
<1>6. Placed'
  BY <1>1, <1>3, <1>4, BaseNat, PagingAssumption DEF Placed
<1> QED
  BY <1>1, <1>5, <1>6 DEF BootInv, LowFrames, HeapFrames, LowMapped, HeapMapped

\* A table that getPage makes is counted.
LEMMA TableCounted ==
    ASSUME MapInv, Placed, pc \in {"tables", "low"}, pc' = pc,
           cursor \in PageNo, TableOf(pageDirectory, cursor) = 0,
           MakeTable(pageDirectory, cursor), UNCHANGED pageDirectory
    PROVE  Placed' /\ AlignUp(placement) < AlignUp(placement')
<1>1. TypeOK /\ SInv /\ Fresh /\ pageDirectory \in PageNo /\ pc # "start"
  BY DEF MapInv, IInv, TypeOK, TInv
<1>2. PICK s \in Slots : s = Slot(cursor)
  BY SlotOfPage
<1>3. PICK b \in PageNo :
         /\ b # 0 /\ b = NewBlock /\ Reserve(PageSize)
         /\ dirs' = [dirs EXCEPT ![pageDirectory][s] =
                       [table |-> b, phys |-> Physical(b)]]
  BY <1>1, <1>2, TableLinked
<1>4. AlignUp(placement') = AlignUp(placement) + 1 /\ AlignUp(placement) \in Nat
  <2>1. b = AlignUp(placement) /\ placement' = b * PageSize + PageSize
    BY <1>3 DEF NewBlock, Reserve, HeapEnabled
  <2>2. AlignUp(placement') = b + AlignUp(PageSize) /\ b \in Nat
    BY <2>1, AlignUpShift, PagingAssumption DEF PageNo
  <2> QED
    BY <2>1, <2>2, BaseNat
<1>5. Made' = Made \cup {s} /\ s \notin Made
  <2>1. \A t \in Slots : dirs'[pageDirectory][t].table =
                            IF t = s THEN b ELSE dirs[pageDirectory][t].table
    BY <1>1, <1>3 DEF TypeOK
  <2> QED
    BY <1>2, <1>3, <2>1 DEF Made, TableOf
<1>6. Made \in SUBSET Slots /\ Made' \in SUBSET Slots
  BY <1>2, <1>5 DEF Made
<1>7. IsFiniteSet(Made) /\ Cardinality(Made) \in Nat
  BY <1>6, BaseNat, FS_Subset, FS_CardinalityType
<1>8. Cardinality(Made') = Cardinality(Made) + 1
  BY <1>5, <1>7, FS_AddElement
<1>9. Cardinality(Made') <= SlotNumber
  <2>1. PICK M : M = Made'
    OBVIOUS
  <2>2. Cardinality(M) <= Cardinality(Slots)
    BY <1>6, <2>1, BaseNat, FS_Subset
  <2> QED
    BY <2>1, <2>2, BaseNat
<1>10. AlignUp(placement') = Base + Cardinality(Made')
  BY <1>4, <1>7, <1>8, BaseNat DEF Placed
<1>11. AlignUp(placement') <= Base + SlotNumber
  BY <1>7, <1>8, <1>9, <1>10, BaseNat, PagingAssumption
<1>12. Cardinality(Made)' = Cardinality(Made')
  OBVIOUS
<1> QED
  BY <1>1, <1>4, <1>10, <1>11, <1>12 DEF Placed

LEMMA HeapTablesPlaced ==
    ASSUME MapInv, BootInv, MakeHeapTables
    PROVE  BootInv'
<1> USE DEF structure, boot, processor
<1>1. pc = "tables" /\ pc' = pc /\ pageDirectory' = pageDirectory /\ cursor \in PageNo
  BY LoopPages DEF MakeHeapTables, MapInv, IInv, TInv
<1>2. CASE TableOf(pageDirectory, cursor) = 0
  <2>1. Placed'
    BY <1>1, <1>2, TableCounted DEF MakeHeapTables, BootInv
  <2>2. frames' = frames
    BY <1>2 DEF MakeHeapTables, MakeTable
  <2> QED
    BY <1>1, <2>1, <2>2 DEF BootInv, LowFrames, HeapFrames, LowMapped, HeapMapped
<1>3. CASE TableOf(pageDirectory, cursor) # 0
  <2>1. UNCHANGED <<placement, dirs, pageDirectory, frames>>
    BY <1>3 DEF MakeHeapTables
  <2>2. Placed'
    BY <1>1, <2>1 DEF BootInv, Placed, Made
  <2> QED
    BY <1>1, <2>1, <2>2 DEF BootInv, LowFrames, HeapFrames, LowMapped, HeapMapped
<1> QED
  BY <1>2, <1>3

LEMMA LowStarts ==
    ASSUME MapInv, BootInv, HeapTablesMade
    PROVE  BootInv'
<1> USE DEF structure, boot, processor
<1>1. /\ pc = "tables" /\ pc' = "low" /\ cursor' = 0
      /\ UNCHANGED <<placement, dirs, tables, frames, pageDirectory>>
  BY DEF HeapTablesMade
<1>2. AlignUp(placement) \in Nat /\ frames \subseteq Leftover
  BY <1>1, AlignUpNat DEF MapInv, IInv, TypeOK, BootInv, LowFrames
<1>3. \A v \in PageNo : KernelPage(v) = NullPage
  <2>1. \A t \in PageNo : tables[t] = ZeroTable
    BY <1>1 DEF MapInv, Frameless, Unmapped
  <2>2. \A v \in PageNo : TableOf(pageDirectory, v) \in PageNo /\ Entry(v) \in Index
    BY SlotOfPage DEF MapInv, IInv, TypeOK, Link, TableOf
  <2> QED
    BY <2>1, <2>2 DEF KernelPage, PageOf, ZeroTable
<1>4. \A v \in PageNo : KernelPage(v)' = NullPage /\ ~(v < 0)
  BY <1>1, <1>3 DEF KernelPage, PageOf, TableOf, PageNo
<1>5. LowFrames'
  BY <1>1, <1>2, <1>4 DEF LowFrames
<1>6. Placed'
  BY <1>1 DEF BootInv, Placed, Made
<1> QED
  BY <1>1, <1>5, <1>6 DEF BootInv, HeapFrames, LowMapped, HeapMapped

\* The table of the page the loop is at is empty: what the loop has mapped
\* stays, what it has not stays unmapped.
LEMMA LowTableMade ==
    ASSUME MapInv, BootInv, MakeLowTable
    PROVE  BootInv'
<1> USE DEF processor
<1>0. TypeOK /\ SInv /\ Fresh /\ Loops /\ pageDirectory \in PageNo
  BY DEF MapInv, IInv, TInv, TypeOK
<1>1. /\ pc = "low" /\ pc' = pc /\ UNCHANGED <<pageDirectory, cursor>>
      /\ cursor \in PageNo /\ cursor \in Nat /\ TableOf(pageDirectory, cursor) = 0
      /\ MakeTable(pageDirectory, cursor)
  BY <1>0, LoopPages DEF MakeLowTable, Loops
<1>2. Placed' /\ AlignUp(placement) < AlignUp(placement')
  BY <1>1, TableCounted DEF BootInv
<1>3. AlignUp(placement) \in Nat /\ AlignUp(placement') \in Nat
  <2>1. placement \in Nat /\ placement' \in Nat
    BY <1>0, <1>1, ReserveType, PagingAssumption DEF TypeOK, MakeTable
  <2> QED
    BY <2>1, AlignUpNat
<1>4. PICK s \in Slots : s = Slot(cursor)
  BY <1>1, SlotOfPage
<1>5. PICK b \in PageNo :
         /\ ~Used(b) /\ UNCHANGED <<tables, frames>>
         /\ dirs' = [dirs EXCEPT ![pageDirectory][s] =
                       [table |-> b, phys |-> Physical(b)]]
  BY <1>0, <1>1, <1>4, TableLinked
<1>6. ASSUME NEW v \in PageNo
      PROVE  KernelPage(v)' = KernelPage(v)
  <2>1. PICK t \in Slots, i \in Index : t = Slot(v) /\ i = Entry(v)
    BY SlotOfPage
  <2>2. dirs'[pageDirectory][t].table = IF t = s THEN b ELSE dirs[pageDirectory][t].table
    BY <1>0, <1>5 DEF TypeOK
  <2>3. tables[0][i] = NullPage /\ tables[b][i] = NullPage
    BY <1>0, <1>5 DEF Fresh, ZeroTable
  <2>4. t = s => dirs[pageDirectory][t].table = 0
    BY <1>1, <1>4 DEF TableOf
  <2> QED
    BY <1>1, <1>5, <2>1, <2>2, <2>3, <2>4 DEF KernelPage, PageOf, TableOf
<1>7. LowFrames'
  BY <1>1, <1>2, <1>3, <1>5, <1>6 DEF BootInv, LowFrames
<1> QED
  BY <1>1, <1>2, <1>7 DEF BootInv, HeapFrames, LowMapped, HeapMapped

\* The page the loop is at gets the frame of the same number: it is the first
\* that is free.
LEMMA LowPageMapped ==
    ASSUME MainMemoryHolds, MapInv, BootInv, MapLowPage
    PROVE  BootInv'
<1> USE DEF boot, processor
<1>0. TypeOK /\ SInv /\ Fresh /\ Loops /\ SlotsApart /\ pageDirectory \in PageNo
  BY DEF MapInv, IInv, TInv, TypeOK
<1>1. /\ pc = "low" /\ pc' = pc /\ UNCHANGED <<placement, pageDirectory, dirs>>
      /\ cursor \in Nat /\ cursor' = cursor + 1
      /\ AllocFrame(pageDirectory, cursor)
  BY <1>0 DEF MapLowPage, Loops, AllocFrame
<1>2. cursor \in PageNo /\ TableOf(pageDirectory, cursor) # 0
  BY <1>0, LoopPages DEF MapLowPage
<1>3. cursor <= AlignUp(placement) /\ AlignUp(placement) \in Nat
  BY <1>0, <1>1, LowCursor, AlignUpNat DEF MapLowPage, TypeOK
<1>4. cursor < FrameNumber /\ cursor \in Frames /\ cursor \notin Leftover
  <2>1. cursor < FrameNumber
    BY <1>1, <1>3, BaseNat, PagingAssumption DEF MainMemoryHolds, BootInv, Placed
  <2>2. PICK n \in Nat, w \in Nat : n = FrameNumber /\ w = WordBits /\ w >= 1
    BY PagingAssumption
  <2>3. n <= n * w
    BY <2>2, SMT
  <2> QED
    BY <1>1, <2>1, <2>2, <2>3 DEF Frames, Leftover
<1>5. cursor \in FreeFrames
  BY <1>1, <1>4 DEF FreeFrames, BootInv, LowFrames
<1>6. \A g \in FreeFrames : cursor <= g
  BY <1>1 DEF FreeFrames, Frames, BootInv, LowFrames
<1>7. PageOf(pageDirectory, cursor).frame = 0 /\ FreeFrames # {}
  <2>1. PageOf(pageDirectory, cursor) = NullPage
    BY <1>1, <1>2 DEF BootInv, LowFrames, KernelPage
  <2> QED
    BY <1>5, <2>1 DEF NullPage
<1>8. PICK f \in Frames :
         /\ GetFreeFrame(f) /\ frames' = frames \cup {f}
         /\ \A t \in PageNo, i \in Index :
               tables'[t][i] = IF t = TableOf(pageDirectory, cursor) /\ i = Entry(cursor)
                               THEN [frame |-> f, present |-> TRUE]
                               ELSE tables[t][i]
  BY <1>0, <1>1, <1>2, <1>7, FrameGiven
<1>9. f = cursor
  BY <1>1, <1>5, <1>6, <1>8 DEF GetFreeFrame, Frames, FreeFrames
<1>10. ASSUME NEW v \in PageNo
       PROVE  KernelPage(v)' = IF v = cursor THEN Identity(v) ELSE KernelPage(v)
  <2>1. PICK t \in Slots, i \in Index, k \in Slots, j \in Index :
           t = Slot(v) /\ i = Entry(v) /\ k = Slot(cursor) /\ j = Entry(cursor)
    BY <1>2, SlotOfPage
  <2>2. t = k /\ i = j => v = cursor
    BY <1>2, <2>1, PageDetermined
  <2>3. dirs[pageDirectory][t].table \in PageNo
    BY <1>0, <2>1 DEF TypeOK, Link
  <2>4. dirs[pageDirectory][t].table = dirs[pageDirectory][k].table => t = k
    BY <1>0, <1>2, <2>1 DEF SlotsApart, TableOf
  <2> QED
    BY <1>1, <1>8, <1>9, <2>1, <2>2, <2>3, <2>4
       DEF KernelPage, PageOf, TableOf, Identity
<1>11. LowFrames'
  <2>1. 0 .. cursor' - 1 \subseteq frames'
    BY <1>1, <1>8, <1>9 DEF BootInv, LowFrames
  <2>2. frames' \subseteq (0 .. cursor' - 1) \cup Leftover
    BY <1>1, <1>8, <1>9 DEF BootInv, LowFrames
  <2>3. ASSUME NEW v \in PageNo
        PROVE  KernelPage(v)' = IF v < cursor' THEN Identity(v) ELSE NullPage
    <3>1. KernelPage(v) = IF v < cursor THEN Identity(v) ELSE NullPage
      BY <1>1 DEF BootInv, LowFrames
    <3>2. v \in Int
      BY DEF PageNo
    <3> QED
      BY <1>1, <1>10, <3>1, <3>2
  <2> QED
    BY <1>1, <1>3, <2>1, <2>2, <2>3 DEF LowFrames
<1>12. Placed'
  BY <1>1 DEF BootInv, Placed, Made
<1> QED
  BY <1>1, <1>11, <1>12 DEF BootInv, HeapFrames, LowMapped, HeapMapped

\* The loop has caught up with placement_address.
LEMMA LowDone ==
    ASSUME MapInv, BootInv, LowPagesMapped
    PROVE  BootInv'
<1> USE DEF boot, structure, processor
<1>0. TypeOK /\ SInv /\ Loops
  BY DEF MapInv, IInv, TInv
<1>1. /\ pc = "low" /\ pc' = "heap" /\ cursor' = HeapStart
      /\ UNCHANGED <<placement, dirs, tables, frames, pageDirectory>>
      /\ cursor \in Nat /\ HeapStart \in Nat
  BY <1>0, PagingAssumption DEF LowPagesMapped, Loops
<1>2. cursor > AlignUp(placement) /\ AlignUp(placement) \in Nat
  BY <1>0, <1>1, LowCursor, AlignUpNat DEF LowPagesMapped, TypeOK
<1>3. \A p \in 0 .. AlignUp(placement) - 1 : p \in PageNo /\ p < cursor
  BY <1>0, <1>1, <1>2, Ranges, PagingAssumption DEF SInv, Allocated
<1>4. LowMapped'
  BY <1>1, <1>3 DEF BootInv, LowFrames, LowMapped, KernelPage, PageOf, TableOf
<1>5. HeapFrames'
  <2>1. frames \in SUBSET ((0 .. cursor - 1) \cup Leftover)
        /\ cursor <= AlignUp(placement) + 1
    BY <1>1 DEF BootInv, LowFrames
  <2>2. PICK c \in Nat : c = cursor
    BY <1>1
  <2>3. IsFiniteSet(0 .. c - 1) /\ Cardinality(0 .. c - 1) = c
    BY FS_Interval
  <2>4. /\ IsFiniteSet((0 .. c - 1) \cup Leftover)
        /\ Cardinality((0 .. c - 1) \cup Leftover) <= c + Cardinality(Leftover)
    <3>1. /\ IsFiniteSet((0 .. c - 1) \cup Leftover)
          /\ Cardinality((0 .. c - 1) \cup Leftover) =
                Cardinality(0 .. c - 1) + Cardinality(Leftover)
                   - Cardinality((0 .. c - 1) \cap Leftover)
      BY <2>3, BaseNat, FS_Union
    <3>2. Cardinality((0 .. c - 1) \cap Leftover) \in Nat
      BY <2>3, BaseNat, FS_Intersection, FS_CardinalityType
    <3> QED
      BY <2>3, <3>1, <3>2, BaseNat
  <2>5. Cardinality(frames) <= Cardinality((0 .. c - 1) \cup Leftover)
        /\ Cardinality(frames) \in Nat /\ Cardinality((0 .. c - 1) \cup Leftover) \in Nat
    BY <2>1, <2>2, <2>4, FS_Subset, FS_CardinalityType
  <2>6. Cardinality(frames) <= AlignUp(placement) + 1 + Cardinality(Leftover)
                                  + (HeapStart - HeapStart)
    BY <1>1, <1>2, <2>1, <2>2, <2>4, <2>5, BaseNat
  <2> QED
    BY <1>1, <2>6 DEF HeapFrames
<1>6. HeapMapped'
  BY <1>1 DEF HeapMapped, Heap
<1>7. Placed'
  BY <1>1 DEF BootInv, Placed
<1> QED
  BY <1>1, <1>4, <1>5, <1>6, <1>7 DEF BootInv, LowFrames

\* A page of the heap gets a frame: there is one left for it.
LEMMA HeapPageMapped ==
    ASSUME Freeable = {}, MainMemoryHolds, BootHasFrames, MapInv, BootInv,
           MapHeapPage, LowMapped'
    PROVE  BootInv'
<1> USE DEF boot, processor
<1>0. TypeOK /\ SInv /\ Fresh /\ Loops /\ MappedPresent /\ pageDirectory \in PageNo
  BY DEF MapInv, IInv, TInv, TypeOK
<1>1. /\ pc = "heap" /\ pc' = pc /\ UNCHANGED <<placement, pageDirectory, dirs>>
      /\ cursor \in HeapStart .. HeapStart + HeapPages /\ cursor < HeapStart + HeapPages
      /\ cursor' = cursor + 1 /\ HeapStart \in Nat /\ HeapPages \in Nat
      /\ AllocFrame(pageDirectory, cursor)
  BY <1>0, PagingAssumption DEF MapHeapPage, Loops, AllocFrame
<1>2. cursor \in PageNo /\ cursor \in Heap /\ Heap \subseteq PageNo
  BY <1>0, <1>1, LoopPages
<1>3. PICK t \in PageNo, i \in Index :
         t = TableOf(pageDirectory, cursor) /\ i = Entry(cursor)
  BY <1>0, <1>2, SlotOfPage DEF TypeOK, Link, TableOf
<1>4. IsFiniteSet(frames) /\ Cardinality(frames) \in Nat
  BY <1>0, BaseNat, FS_Subset, FS_CardinalityType DEF TypeOK
<1>5. AlignUp(placement) \in Nat /\ AlignUp(placement) <= Base + SlotNumber
  BY <1>0, <1>1, AlignUpNat DEF TypeOK, BootInv, Placed
<1>6. Cardinality(frames) < FrameNumber * WordBits
  BY <1>1, <1>4, <1>5, BaseNat, PagingAssumption DEF BootInv, HeapFrames, BootHasFrames
<1>7. FreeFrames # {}
  <2>1. SUFFICES ASSUME FreeFrames = {} PROVE FALSE
    OBVIOUS
  <2>2. frames = Frames
    BY <1>0, <2>1 DEF FreeFrames, TypeOK
  <2> QED
    BY <1>4, <1>6, <2>2, BaseNat
<1>8. PICK c \in PageNo : c = cursor /\ c \in Heap
  BY <1>2
<1>9. /\ KernelPage(c)'.present
      /\ Cardinality(frames') <= Cardinality(frames) + 1
      /\ \A v \in PageNo : KernelPage(v).present => KernelPage(v)'.present
  <2>0. \A v \in PageNo : /\ TableOf(pageDirectory, v) \in PageNo /\ Entry(v) \in Index
                          /\ KernelPage(v)' = tables'[TableOf(pageDirectory, v)][Entry(v)]
                          /\ KernelPage(v) = tables[TableOf(pageDirectory, v)][Entry(v)]
    BY <1>0, <1>1, SlotOfPage DEF TypeOK, Link, KernelPage, PageOf, TableOf
  <2>1. CASE UNCHANGED <<frames, tables>> /\ PageOf(pageDirectory, cursor).frame # 0
    <3>1. tables[t][i].present
      BY <1>0, <1>3, <2>1 DEF MappedPresent, PageOf
    <3> QED
      BY <1>3, <1>4, <1>8, <2>0, <2>1, <3>1
  <2>2. ASSUME NEW f \in Frames, frames' = frames \cup {f},
               \A u \in PageNo, j \in Index :
                  tables'[u][j] = IF u = TableOf(pageDirectory, cursor) /\ j = Entry(cursor)
                                  THEN [frame |-> f, present |-> TRUE]
                                  ELSE tables[u][j]
        PROVE  <1>9!:
    <3>1. \A u \in PageNo, j \in Index :
             tables'[u][j] = IF u = t /\ j = i THEN [frame |-> f, present |-> TRUE]
                                               ELSE tables[u][j]
      BY <1>3, <2>2
    <3>2. Cardinality(frames \cup {f}) =
             IF f \in frames THEN Cardinality(frames) ELSE Cardinality(frames) + 1
      BY <1>4, FS_AddElement
    <3>3. Cardinality(frames') <= Cardinality(frames) + 1
      BY <1>4, <2>2, <3>2
    <3> QED
      BY <1>3, <1>8, <2>0, <3>1, <3>3
  <2>3. \/ UNCHANGED <<frames, tables>> /\ PageOf(pageDirectory, cursor).frame # 0
        \/ \E f \in Frames :
              /\ frames' = frames \cup {f}
              /\ \A u \in PageNo, j \in Index :
                    tables'[u][j] = IF u = TableOf(pageDirectory, cursor) /\ j = Entry(cursor)
                                    THEN [frame |-> f, present |-> TRUE]
                                    ELSE tables[u][j]
    <3>0. /\ TypeOK /\ AllocFrame(pageDirectory, cursor)
          /\ pageDirectory \in PageNo /\ cursor \in PageNo
      BY <1>0, <1>1, <1>2
    <3>1. \/ /\ UNCHANGED <<frames, tables>>
             /\ PageOf(pageDirectory, cursor).frame # 0 \/ FreeFrames = {}
          \/ \E f \in Frames :
                /\ GetFreeFrame(f) /\ frames' = frames \cup {f}
                /\ PageOf(pageDirectory, cursor).frame = 0
                /\ \A u \in PageNo, j \in Index :
                      tables'[u][j] = IF u = TableOf(pageDirectory, cursor) /\ j = Entry(cursor)
                                      THEN [frame |-> f, present |-> TRUE]
                                      ELSE tables[u][j]
      BY <3>0, FrameGiven
    <3>2. CASE UNCHANGED <<frames, tables>>
      BY <1>7, <3>1, <3>2, Zenon
    <3>3. CASE ~UNCHANGED <<frames, tables>>
      BY <3>1, <3>3, Zenon
    <3> QED
      BY <3>2, <3>3
  <2> QED
    BY <2>1, <2>2, <2>3
<1>12. HeapMapped'
  BY <1>1, <1>2, <1>8, <1>9 DEF BootInv, HeapMapped, Heap
<1>10. HeapFrames'
  <2>1. PICK n : n = Cardinality(frames')
    OBVIOUS
  <2>2. n \in Nat
    <3>1. frames' \subseteq Frames
      BY <1>0, <1>1, <1>2, AllocFrameType DEF TypeOK
    <3> QED
      BY <2>1, <3>1, BaseNat, FS_Subset, FS_CardinalityType
  <2>3. n <= AlignUp(placement) + 1 + Cardinality(Leftover) + (cursor' - HeapStart)
    BY <1>1, <1>4, <1>5, <1>9, <2>1, <2>2, BaseNat DEF BootInv, HeapFrames
  <2> QED
    BY <1>1, <2>1, <2>3 DEF HeapFrames
<1>11. Placed'
  BY <1>1 DEF BootInv, Placed
<1> QED
  BY <1>1, <1>10, <1>11, <1>12 DEF BootInv, LowFrames

\* After the loops what they have mapped stays.
LEMMA MappedStays ==
    ASSUME Freeable = {}, MapInv, BootInv, [Next]_vars,
           pc \notin {"start", "tables", "low"}
    PROVE  /\ LowMapped'
           /\ \A v \in Heap : KernelPage(v).present => KernelPage(v)'.present
           /\ placement' = placement /\ pc' \notin {"start", "tables", "low"}
<1>0. TypeOK /\ SInv /\ Loops
  BY DEF MapInv, IInv, TInv
<1>1. /\ placement' = placement /\ pc' \notin {"start", "tables", "low"}
      /\ AlignUp(placement) \in Nat /\ AlignUp(placement) <= HeapStart
  BY <1>0, PlacementKept, AlignUpNat DEF TypeOK, SInv, Allocated
<1>2. \A v \in PageNo : KernelPage(v).present => KernelPage(v)' = KernelPage(v)
  BY KernelPageKept
<1>3. ASSUME NEW p \in 0 .. AlignUp(placement) - 1
      PROVE  KernelPage(p)' = Identity(p)
  <2>1. p \in PageNo
    BY <1>1, Ranges, PagingAssumption
  <2>2. KernelPage(p) = Identity(p)
    BY DEF BootInv, LowMapped
  <2> QED
    BY <1>2, <2>1, <2>2 DEF Identity
<1>4. LowMapped'
  BY <1>1, <1>3 DEF LowMapped, Identity
<1>5. Heap \subseteq PageNo
  BY <1>0, LoopPages
<1> QED
  BY <1>1, <1>2, <1>4, <1>5

LEMMA BootInvStep ==
    ASSUME Freeable = {}, MainMemoryHolds, BootHasFrames, MapInv, BootInv, [Next]_vars
    PROVE  BootInv'
<1> USE DEF boot, structure, processor
<1>0. Loops /\ TypeOK /\ SInv
  BY DEF MapInv, TInv, IInv
<1>1. CASE AllocateBitmap
  BY <1>1, BitmapPlaced
<1>2. CASE MakeHeapTables \/ HeapTablesMade \/ MakeLowTable \/ MapLowPage \/ LowPagesMapped
  BY <1>2, HeapTablesPlaced, LowStarts, LowTableMade, LowPageMapped, LowDone
<1>3. CASE MapHeapPage
  <2>1. pc = "heap"
    BY <1>3 DEF MapHeapPage
  <2> QED
    BY <1>3, <2>1, MappedStays, HeapPageMapped
<1>4. CASE pc \notin {"start", "tables", "low"} /\ ~MapHeapPage
  <2>1. /\ LowMapped' /\ placement' = placement /\ pc' \notin {"start", "tables", "low"}
        /\ \A v \in Heap : KernelPage(v).present => KernelPage(v)'.present
    BY <1>4, MappedStays
  <2>2. Placed'
    BY <1>4, <2>1 DEF BootInv, Placed
  <2>3. CASE pc = "heap"
    <3>1. HeapPagesMapped \/ UNCHANGED vars
      BY <1>4, <2>3
         DEF Next, Boot, Clone, vars, AllocateBitmap, MakeHeapTables, HeapTablesMade,
             MakeLowTable, MapLowPage, LowPagesMapped, MapHeapPage, EnablePaging,
             CloneFirstDirectory, FirstDirectoryCloned, MakeStackTable, MapStackPage,
             StackMapped, SkipSlot, LinkTable, CloneTable, LinkClone, SkipPage,
             ClonePage, ClonePageWithoutFrame, InLoop, InTable, Fork, Forked, Switch,
             Store, PageFault, FreeFrame, Cloned
    <3>2. CASE HeapPagesMapped
      <4>1. cursor = HeapStart + HeapPages /\ pc' = "enable"
        BY <3>2 DEF HeapPagesMapped
      <4>2. \A v \in Heap : v < cursor
        BY <4>1, PagingAssumption DEF Heap
      <4>3. HeapMapped'
        BY <2>1, <2>3, <4>2 DEF BootInv, HeapMapped
      <4> QED
        BY <2>1, <2>2, <4>1, <4>3 DEF BootInv, LowFrames, HeapFrames
    <3>3. CASE UNCHANGED vars
      <4>1. UNCHANGED <<pc, cursor, frames, placement>>
        BY <3>3 DEF vars
      <4>2. HeapMapped'
        BY <2>1, <4>1 DEF BootInv, HeapMapped
      <4>3. HeapFrames'
        BY <4>1 DEF BootInv, HeapFrames
      <4> QED
        BY <2>1, <2>2, <2>3, <4>1, <4>2, <4>3 DEF BootInv, LowFrames
    <3> QED
      BY <3>1, <3>2, <3>3
  <2>4. CASE pc # "heap"
    <3>1. pc' # "heap"
      BY <1>4, <2>4, PlacementKept
    <3>2. HeapMapped'
      BY <1>4, <2>1, <2>4 DEF BootInv, HeapMapped
    <3> QED
      BY <2>1, <2>2, <3>1, <3>2 DEF BootInv, LowFrames, HeapFrames
  <2> QED
    BY <2>3, <2>4
<1>5. CASE UNCHANGED vars
  BY <1>5 DEF vars, BootInv, Placed, Made, LowFrames, KernelPage, PageOf, TableOf,
     HeapFrames, LowMapped, HeapMapped
<1>6. CASE pc \in {"start", "tables", "low"}
  BY <1>1, <1>2, <1>5, <1>6
     DEF Next, Boot, Clone, MapHeapPage, HeapPagesMapped, EnablePaging,
         CloneFirstDirectory, FirstDirectoryCloned, MakeStackTable, MapStackPage,
         StackMapped, SkipSlot, LinkTable, CloneTable, LinkClone, SkipPage,
         ClonePage, ClonePageWithoutFrame, InLoop, InTable, Fork, Forked, Switch,
         Store, PageFault, FreeFrame, Cloned
<1> QED
  BY <1>3, <1>4, <1>6

LEMMA InitBoot == Init => BootInv
BY DEF Init, BootInv, Placed, LowFrames, HeapFrames, LowMapped, HeapMapped

\* What the mapping theorems rest on, in one invariant.
THEOREM MapInvariant ==
    ASSUME Freeable = {}
    PROVE  Spec => []MapInv
<1>1. Init => EmptyAtStart /\ GarbageAtStart /\ Frameless
  <2>1. Init => EmptyAtStart
    BY DEF Init, EmptyAtStart, ZeroDirectory, NullLink
  <2>2. Init => GarbageAtStart
    BY DEF Init, GarbageAtStart
  <2> QED
    BY <2>1, <2>2, InitFrameless
<1>2. IInv /\ SInv /\ TInv /\ EmptyAtStart /\ GarbageAtStart /\ Frameless /\ [Next]_vars
         => EmptyAtStart' /\ GarbageAtStart' /\ Frameless'
  BY FramelessStep, EmptyStays, GarbageStays DEF IInv
<1>3. IInv /\ SInv /\ TInv /\ EmptyAtStart /\ GarbageAtStart /\ Frameless => MapInv
  BY DEF MapInv
<1> QED
  BY <1>1, <1>2, <1>3, TablesInvariant, PTL DEF Spec

\* What booting has mapped so far, and that it is mapped page for frame.
THEOREM BootInvariant ==
    ASSUME Freeable = {}, MainMemoryHolds, BootHasFrames
    PROVE  Spec => []BootInv
<1>1. MapInv /\ BootInv /\ [Next]_vars => BootInv'
  BY BootInvStep
<1> QED
  BY <1>1, InitBoot, MapInvariant, PTL DEF Spec

\* All that was placed before paging was turned on (the kernel's image, the
\* bitmap, the tables) is mapped where it lies, in every directory in use.
THEOREM LowMemoryMapped ==
    ASSUME Freeable = {}, MainMemoryHolds, BootHasFrames
    PROVE  Spec => []IdentityMapped
<1>1. ASSUME MapInv, BootInv
      PROVE  IdentityMapped
  <2>0. TypeOK /\ SInv /\ Fresh
    BY <1>1 DEF MapInv, IInv, TInv
  <2>1. SUFFICES ASSUME PagingEnabled, NEW d \in Directories,
                        NEW p \in 0 .. AlignUp(placement) - 1
                 PROVE  PageOf(d, p) = [frame |-> p, present |-> TRUE]
    BY DEF IdentityMapped
  <2>2. pc # "start" /\ KernelPage(p) = Identity(p)
    BY <1>1, <2>1 DEF PagingEnabled, BootInv, LowMapped
  <2>3. p \in PageNo
    BY <2>0, <2>1, <2>2, AlignUpNat, Ranges, PagingAssumption DEF SInv, Allocated, TypeOK
  <2> QED
    BY <2>0, <2>2, <2>3, KernelPageShared DEF Identity
<1> QED
  BY <1>1, MapInvariant, BootInvariant, PTL

-----------------------------------------------------------------------------
(* The walk.                                                               *)

\* Frame f is behind page p: page and frame of the boot allocator, or the
\* frame that the heap's page got.
Backed(p, f) == \/ p \in PageNo /\ p < AlignUp(placement) /\ f = p
                \/ HeapEnabled /\ p \in Heap /\ f = Backing(p)

\* Every physical address the kernel keeps is behind the page it keeps it for.
LinksBacked ==
    \A d \in PageNo, s \in Slots :
        dirs[d][s].table # 0 => Backed(dirs[d][s].table, dirs[d][s].phys)

DirectoriesBacked ==
    /\ pc # "start" => \A d \in Directories : Backed(d, physicalAddress[d])
    /\ pc = "clone" => Backed(clone.dir, physicalAddress[clone.dir])

CloneBacked == clone.table # 0 => Backed(clone.table, clone.phys)

WalkStarts == HeapEnabled => cr3 = physicalAddress[currentPageDirectory]

WalkInv == LinksBacked /\ DirectoriesBacked /\ CloneBacked /\ WalkStarts

LEMMA HeapStays ==
    ASSUME [Next]_vars, HeapEnabled
    PROVE  HeapEnabled'
<1> USE DEF boot, structure, processor
<1> QED
  BY DEF Next, Boot, Clone, vars, AllocateBitmap, MakeHeapTables, HeapTablesMade,
         MakeLowTable, MapLowPage, LowPagesMapped, MapHeapPage, HeapPagesMapped,
         EnablePaging, CloneFirstDirectory, NewDirectory, FirstDirectoryCloned,
         MakeStackTable, MapStackPage, StackMapped, SkipSlot, LinkTable,
         CloneTable, LinkClone, SkipPage, ClonePage, CopyInto,
         ClonePageWithoutFrame, InLoop, InTable, Fork, Forked, Switch, Store,
         PageFault, FreeFrame, Cloned, HeapEnabled

LEMMA PlacementGrows ==
    ASSUME MapInv, BootInv, [Next]_vars, pc # "start"
    PROVE  AlignUp(placement) <= AlignUp(placement') /\ AlignUp(placement) \in Nat
<1> USE DEF boot, structure, processor
<1>0. TypeOK /\ SInv /\ Loops /\ AlignUp(placement) \in Nat
  BY AlignUpNat DEF MapInv, IInv, TInv, TypeOK
<1>1. CASE placement' = placement
  BY <1>0, <1>1
<1>2. CASE placement' # placement
  <2>1. pc \in {"tables", "low"}
    BY <1>2, PlacementKept
  <2>2. MakeHeapTables \/ MakeLowTable
    BY <1>2, <2>1
       DEF Next, Boot, Clone, vars, AllocateBitmap, HeapTablesMade, MapLowPage,
           AllocFrame, LowPagesMapped, MapHeapPage, HeapPagesMapped, EnablePaging,
           CloneFirstDirectory, FirstDirectoryCloned, MakeStackTable, MapStackPage,
           StackMapped, SkipSlot, LinkTable, CloneTable, LinkClone, SkipPage,
           ClonePage, ClonePageWithoutFrame, InLoop, InTable, Fork, Forked, Switch,
           Store, PageFault, FreeFrame, Cloned
  <2>3. /\ pc' = pc /\ TableOf(pageDirectory, cursor) = 0 /\ cursor \in PageNo
        /\ MakeTable(pageDirectory, cursor) /\ UNCHANGED pageDirectory
    BY <1>0, <1>2, <2>2, LoopPages DEF MakeHeapTables, MakeLowTable
  <2>4. AlignUp(placement) < AlignUp(placement')
    BY <2>1, <2>3, TableCounted DEF BootInv
  <2> QED
    BY <1>0, <2>4, <2>3, ReserveType, AlignUpNat, PagingAssumption DEF MakeTable
<1> QED
  BY <1>1, <1>2

\* What is behind a page stays there.
LEMMA BackedStays ==
    ASSUME Freeable = {}, MapInv, BootInv, [Next]_vars, pc # "start",
           NEW p, NEW f, Backed(p, f)
    PROVE  Backed(p, f)'
<1>0. TypeOK /\ SInv /\ Loops
  BY DEF MapInv, IInv, TInv
<1>1. CASE p \in PageNo /\ p < AlignUp(placement) /\ f = p
  <2>1. PICK n \in Int : n = AlignUp(placement')
    BY <1>0, TypeStep, AlignUpNat DEF MapInv, IInv, TypeOK
  <2>2. p < AlignUp(placement')
    BY <1>1, <2>1, PlacementGrows DEF PageNo
  <2> QED
    BY <1>1, <2>2 DEF Backed
<1>2. CASE HeapEnabled /\ p \in Heap /\ f = Backing(p)
  <2>1. p \in PageNo /\ KernelPage(p).present
    BY <1>0, <1>2, LoopPages DEF BootInv, HeapMapped, HeapEnabled
  <2>2. KernelPage(p)' = KernelPage(p)
    BY <2>1, KernelPageKept
  <2> QED
    BY <1>2, <2>2, HeapStays DEF Backed, Backing, KernelPage
<1> QED
  BY <1>1, <1>2 DEF Backed

\* What kmalloc stores through phys is behind the block.
LEMMA BlockBacked ==
    ASSUME Freeable = {}, MapInv, BootInv, [Next]_vars, pc # "start",
           NEW size \in Nat \ {0}, Reserve(size),
           NEW b, b = NewBlock, NEW f, f = Physical(b)
    PROVE  b \in PageNo /\ Backed(b, f)'
<1>0. TypeOK /\ SInv /\ Fresh /\ Loops /\ b \in PageNo /\ PageNo \subseteq Nat
  BY ReserveType DEF MapInv, IInv, TInv, PageNo
<1>1. AlignUp(size) \in Nat /\ AlignUp(size) > 0
  BY AlignUpNat
<1>2. CASE ~HeapEnabled
  <2>1. f = b /\ placement' = b * PageSize + size
    BY <1>2 DEF Physical, Reserve
  <2>2. AlignUp(placement') = b + AlignUp(size)
    BY <1>0, <2>1, AlignUpShift
  <2>3. b < AlignUp(placement')
    BY <1>0, <1>1, <2>2
  <2> QED
    BY <1>0, <2>1, <2>3 DEF Backed
<1>3. CASE HeapEnabled
  <2>1. b \in Heap
    BY <1>0, <1>1, <1>3, PagingAssumption
       DEF Reserve, Room, NewBlock, Heap, SInv, Allocated
  <2>2. KernelPage(b).present
    BY <1>3, <2>1 DEF BootInv, HeapMapped, HeapEnabled
  <2>3. f = KernelPage(b).frame
    <3>1. PICK d \in Directories : d = currentPageDirectory
      BY DEF Directories
    <3>2. PageOf(d, b) = KernelPage(b)
      BY <1>0, <2>2, KernelPageShared
    <3> QED
      BY <1>3, <3>1, <3>2 DEF Physical
  <2>4. KernelPage(b)' = KernelPage(b)
    BY <1>0, <2>2, KernelPageKept
  <2>5. HeapEnabled'
    BY <1>3, HeapStays
  <2> QED
    BY <1>0, <2>1, <2>3, <2>4, <2>5 DEF Backed, Backing, KernelPage
<1> QED
  BY <1>0, <1>2, <1>3

\* A step that keeps what it finds and links backed tables only.
LEMMA BackedKept ==
    ASSUME Freeable = {}, MapInv, BootInv, WalkInv, [Next]_vars, pc # "start"
    PROVE  /\ UNCHANGED dirs => LinksBacked'
           /\ UNCHANGED clone => CloneBacked'
           /\ /\ Directories' \subseteq Directories \cup {clone.dir}
              /\ \A d \in Directories' : d = clone.dir /\ d \notin Directories => pc = "clone"
              /\ \A d \in Directories' : physicalAddress'[d] = physicalAddress[d]
              /\ pc' = "clone" =>
                    /\ pc = "clone" /\ clone'.dir = clone.dir
                    /\ physicalAddress'[clone.dir] = physicalAddress[clone.dir]
              => DirectoriesBacked'
           /\ UNCHANGED <<cr3, physicalAddress, currentPageDirectory>> /\ HeapEnabled
              => WalkStarts'
<1>1. ASSUME UNCHANGED dirs PROVE LinksBacked'
  <2>1. ASSUME NEW d \in PageNo, NEW s \in Slots, dirs'[d][s].table # 0
        PROVE  Backed(dirs[d][s].table, dirs[d][s].phys)'
    <3>1. PICK t, f : t = dirs[d][s].table /\ f = dirs[d][s].phys
      OBVIOUS
    <3>2. Backed(t, f)
      BY <1>1, <2>1, <3>1 DEF WalkInv, LinksBacked
    <3>3. Backed(t, f)'
      BY <3>2, BackedStays
    <3> QED
      BY <1>1, <3>1, <3>3 DEF Backed
  <2> QED
    BY <2>1 DEF LinksBacked
<1>2. ASSUME UNCHANGED clone PROVE CloneBacked'
  <2>1. PICK t, f : t = clone.table /\ f = clone.phys
    OBVIOUS
  <2>2. t # 0 => Backed(t, f)'
    BY <2>1, BackedStays DEF WalkInv, CloneBacked
  <2> QED
    BY <1>2, <2>1, <2>2 DEF CloneBacked, Backed
<1>3. ASSUME Directories' \subseteq Directories \cup {clone.dir},
             \A d \in Directories' : d = clone.dir /\ d \notin Directories => pc = "clone",
             \A d \in Directories' : physicalAddress'[d] = physicalAddress[d],
             pc' = "clone" =>
                /\ pc = "clone" /\ clone'.dir = clone.dir
                /\ physicalAddress'[clone.dir] = physicalAddress[clone.dir]
      PROVE  DirectoriesBacked'
  <2>1. ASSUME NEW d, d \in Directories \/ (d = clone.dir /\ pc = "clone"),
               NEW f, f = physicalAddress[d]
        PROVE  Backed(d, f)'
    <3>1. Backed(d, f)
      BY <2>1 DEF WalkInv, DirectoriesBacked
    <3> QED
      BY <3>1, BackedStays
  <2>2. ASSUME NEW d \in Directories'
        PROVE  Backed(d, physicalAddress[d])'
    <3>1. PICK f : f = physicalAddress[d]
      OBVIOUS
    <3>2. Backed(d, f)'
      BY <1>3, <2>1, <3>1
    <3> QED
      BY <1>3, <3>1, <3>2 DEF Backed
  <2>3. ASSUME pc' = "clone"
        PROVE  Backed(clone.dir, physicalAddress[clone.dir])'
    <3>1. PICK d, f : d = clone.dir /\ f = physicalAddress[d]
      OBVIOUS
    <3>2. Backed(d, f)'
      BY <1>3, <2>1, <2>3, <3>1
    <3> QED
      BY <1>3, <2>3, <3>1, <3>2 DEF Backed
  <2> QED
    BY <2>2, <2>3 DEF DirectoriesBacked
<1>4. ASSUME UNCHANGED <<cr3, physicalAddress, currentPageDirectory>>, HeapEnabled
      PROVE  WalkStarts'
  BY <1>4 DEF WalkInv, WalkStarts
<1> QED
  BY <1>1, <1>2, <1>3, <1>4

\* One link more, to a backed table.
LEMMA LinkBacked ==
    ASSUME Freeable = {}, MapInv, BootInv, WalkInv, [Next]_vars, pc # "start",
           NEW d \in PageNo, NEW s \in Slots, NEW t, NEW f,
           dirs' = [dirs EXCEPT ![d][s] = [table |-> t, phys |-> f]],
           t # 0 => Backed(t, f)'
    PROVE  LinksBacked'
<1>1. TypeOK
  BY DEF MapInv, IInv
<1>2. ASSUME NEW e \in PageNo, NEW r \in Slots, dirs'[e][r].table # 0
      PROVE  Backed(dirs[e][r].table, dirs[e][r].phys)'
  <2>1. PICK u, g : u = dirs'[e][r].table /\ g = dirs'[e][r].phys
    OBVIOUS
  <2>2. dirs'[e][r] = IF e = d /\ r = s THEN [table |-> t, phys |-> f] ELSE dirs[e][r]
    BY <1>1 DEF TypeOK
  <2>3. Backed(u, g)'
    <3>1. CASE e = d /\ r = s
      BY <1>2, <2>1, <2>2, <3>1
    <3>2. CASE ~(e = d /\ r = s)
      <4>1. Backed(u, g)
        BY <1>2, <2>1, <2>2, <3>2 DEF WalkInv, LinksBacked
      <4> QED
        BY <4>1, BackedStays
    <3> QED
      BY <3>1, <3>2
  <2> QED
    BY <2>1, <2>3 DEF Backed
<1> QED
  BY <1>2 DEF LinksBacked

LEMMA InitWalk == Init => WalkInv
BY DEF Init, WalkInv, LinksBacked, DirectoriesBacked, CloneBacked, WalkStarts,
   ZeroDirectory, NullLink, NoClone, HeapEnabled

LEMMA BitmapWalk ==
    ASSUME MapInv, BootInv, BootInv', WalkInv, AllocateBitmap
    PROVE  WalkInv'
<1> DEFINE dir == AlignUp(placement + BitmapSize)
<1>1. /\ pc = "start" /\ pc' = "tables" /\ pageDirectory' = dir /\ currentPageDirectory' = dir
      /\ physicalAddress' = [physicalAddress EXCEPT ![dir] = dir]
      /\ placement' = dir * PageSize + DirectorySize
      /\ dir + AlignUp(DirectorySize) <= HeapStart
      /\ UNCHANGED <<dirs, spaces, clone>>
  BY DEF AllocateBitmap
<1>2. TypeOK /\ spaces = {} /\ clone.table = 0
  BY <1>1 DEF MapInv, IInv, SInv, Phases, Booting
<1>3. /\ dir \in Nat /\ DirectorySize \in Nat /\ AlignUp(DirectorySize) \in Nat
      /\ AlignUp(DirectorySize) > 0
  BY <1>1, <1>2, AlignUpNat, PagingAssumption DEF TypeOK
<1>4. PICK d \in Nat : d = dir
  BY <1>3
<1>5. d \in PageNo
  BY <1>1, <1>3, <1>4, Ranges, PagingAssumption
<1>6. AlignUp(placement') = d + AlignUp(DirectorySize)
  BY <1>1, <1>3, <1>4, AlignUpShift
<1>7. Backed(d, d)'
  BY <1>3, <1>4, <1>5, <1>6 DEF Backed
<1>8. Directories' = {d} /\ physicalAddress'[d] = d
  BY <1>1, <1>2, <1>4, <1>5 DEF Directories, TypeOK
<1>9. DirectoriesBacked'
  BY <1>1, <1>7, <1>8 DEF DirectoriesBacked, Backed
<1>10. LinksBacked'
  BY <1>1 DEF LinksBacked, MapInv, EmptyAtStart
<1>11. CloneBacked' /\ WalkStarts'
  BY <1>1, <1>2 DEF CloneBacked, WalkStarts, HeapEnabled
<1> QED
  BY <1>9, <1>10, <1>11 DEF WalkInv

LEMMA DirectoryWalk ==
    ASSUME Freeable = {}, MapInv, BootInv, WalkInv, [Next]_vars,
           CloneFirstDirectory \/ Fork
    PROVE  WalkInv'
<1>0. TypeOK /\ SInv /\ Allocated
  BY DEF MapInv, IInv, SInv
<1>1. /\ pc \in {"heapInit", "run"} /\ pc' = "clone" /\ Reserve(DirectorySize)
      /\ clone' = [NoClone EXCEPT !.dir = NewBlock]
      /\ dirs' = [dirs EXCEPT ![NewBlock] = ZeroDirectory]
      /\ physicalAddress' = [physicalAddress EXCEPT ![NewBlock] = Physical(NewBlock)]
      /\ UNCHANGED <<pageDirectory, currentPageDirectory, cr3, spaces>>
  BY DEF CloneFirstDirectory, Fork, NewDirectory, processor
<1>2. PICK b : b = NewBlock
  OBVIOUS
<1>3. PICK f : f = Physical(b)
  OBVIOUS
<1>4. DirectorySize \in Nat \ {0} /\ pc # "start" /\ HeapEnabled
  BY <1>1, PagingAssumption DEF HeapEnabled
<1>5. b \in PageNo /\ Backed(b, f)'
  BY <1>1, <1>2, <1>3, <1>4, BlockBacked
<1>6. ~Used(b)
  BY <1>0, <1>1, <1>2, <1>4, BlockNew
<1>7. Directories' = Directories /\ b \notin Directories
  BY <1>0, <1>1, <1>4, <1>6 DEF Allocated, Directories
<1>8. clone'.dir = b /\ clone'.table = 0
  BY <1>1, <1>2 DEF NoClone
<1>9. LinksBacked'
  <2>1. ASSUME NEW e \in PageNo, NEW r \in Slots, dirs'[e][r].table # 0
        PROVE  Backed(dirs[e][r].table, dirs[e][r].phys)'
    <3>1. PICK u, g : u = dirs[e][r].table /\ g = dirs[e][r].phys
      OBVIOUS
    <3>2. dirs'[e][r] = dirs[e][r]
      BY <1>0, <1>1, <1>2, <1>5, <2>1 DEF TypeOK, ZeroDirectory, NullLink
    <3>3. Backed(u, g)
      BY <2>1, <3>1, <3>2 DEF WalkInv, LinksBacked
    <3>4. Backed(u, g)'
      BY <1>4, <3>3, BackedStays
    <3> QED
      BY <3>1, <3>2, <3>4 DEF Backed
  <2> QED
    BY <2>1 DEF LinksBacked
<1>10. physicalAddress'[b] = f /\ \A d \in Directories : physicalAddress'[d] = physicalAddress[d]
  BY <1>0, <1>1, <1>2, <1>3, <1>5, <1>7 DEF TypeOK
<1>11. DirectoriesBacked'
  <2>1. ASSUME NEW d \in Directories
        PROVE  Backed(d, physicalAddress[d])'
    <3>1. PICK g : g = physicalAddress[d]
      OBVIOUS
    <3>2. Backed(d, g)
      BY <1>4, <3>1 DEF WalkInv, DirectoriesBacked
    <3>3. Backed(d, g)'
      BY <1>4, <3>2, BackedStays
    <3> QED
      BY <1>10, <3>1, <3>3 DEF Backed
  <2>2. Backed(clone.dir, physicalAddress[clone.dir])'
    BY <1>5, <1>8, <1>10 DEF Backed
  <2> QED
    BY <1>7, <2>1, <2>2 DEF DirectoriesBacked
<1>12. WalkStarts'
  <2>1. currentPageDirectory \in Directories
    BY DEF Directories
  <2> QED
    BY <1>1, <1>4, <1>10, <2>1 DEF WalkInv, WalkStarts
<1>13. CloneBacked'
  BY <1>8 DEF CloneBacked
<1> QED
  BY <1>9, <1>11, <1>12, <1>13 DEF WalkInv

LEMMA WalkStep ==
    ASSUME Freeable = {}, MapInv, BootInv, BootInv', WalkInv, [Next]_vars
    PROVE  WalkInv'
<1> USE DEF boot, structure, processor
<1>0. /\ TypeOK /\ SInv /\ Loops /\ CloneInDirectory
      /\ pageDirectory \in PageNo /\ currentPageDirectory \in PageNo
  BY DEF MapInv, IInv, TInv, TypeOK
<1>1. CASE AllocateBitmap
  BY <1>1, BitmapWalk
<1>2. CASE CloneFirstDirectory \/ Fork
  BY <1>2, DirectoryWalk
<1>3. ASSUME NEW d \in PageNo, cursor \in PageNo, MakeTable(d, cursor), pc' = pc,
             pc \in {"tables", "low", "stack"}, UNCHANGED <<processor, spaces, clone>>
      PROVE  WalkInv'
  <2>1. PICK b : b = NewBlock
    OBVIOUS
  <2>2. PICK f, s : f = Physical(b) /\ s = Slot(cursor)
    OBVIOUS
  <2>3. /\ Reserve(PageSize) /\ PageSize \in Nat \ {0} /\ s \in Slots /\ pc # "start"
        /\ dirs' = [dirs EXCEPT ![d][s] = [table |-> b, phys |-> f]]
        /\ UNCHANGED physicalAddress
    BY <1>3, <2>1, <2>2, SlotOfPage, PagingAssumption DEF MakeTable
  <2>4. Backed(b, f)'
    BY <2>1, <2>2, <2>3, BlockBacked
  <2>5. LinksBacked'
    BY <2>3, <2>4, LinkBacked
  <2>6. CloneBacked' /\ DirectoriesBacked'
    BY <1>3, <2>3, BackedKept DEF Directories
  <2>7. WalkStarts'
    BY <1>3, <2>3, BackedKept DEF HeapEnabled, WalkStarts
  <2> QED
    BY <2>5, <2>6, <2>7 DEF WalkInv
<1>4. CASE MakeHeapTables \/ MakeLowTable \/ MakeStackTable
  <2>1. cursor \in PageNo
    BY <1>0, <1>4, LoopPages DEF MakeHeapTables, MakeLowTable, MakeStackTable
  <2>2. \/ MakeTable(pageDirectory, cursor) \/ MakeTable(currentPageDirectory, cursor)
        \/ UNCHANGED <<boot, structure>> /\ pc = "tables"
    BY <1>4 DEF MakeHeapTables, MakeLowTable, MakeStackTable
  <2>3. /\ pc' = pc /\ pc \in {"tables", "low", "stack"}
        /\ UNCHANGED <<processor, spaces, clone>>
    BY <1>4 DEF MakeHeapTables, MakeLowTable, MakeStackTable
  <2>4. CASE UNCHANGED <<boot, structure>> /\ pc = "tables"
    <3>1. LinksBacked' /\ CloneBacked' /\ DirectoriesBacked'
      BY <2>3, <2>4, BackedKept DEF Directories
    <3>2. WalkStarts'
      BY <2>3, <2>4 DEF WalkStarts, HeapEnabled
    <3> QED
      BY <3>1, <3>2 DEF WalkInv
  <2> QED
    BY <1>0, <1>3, <2>1, <2>2, <2>3, <2>4
<1>5. CASE LinkTable
  <2>1. PICK t, f : t = SourceLink.table /\ f = SourceLink.phys
    OBVIOUS
  <2>2. PICK d, s : d = clone.dir /\ s = clone.slot
    OBVIOUS
  <2>3. /\ pc = "clone" /\ pc' = "clone" /\ clone.slot < SlotNumber /\ NextSlot
        /\ dirs' = [dirs EXCEPT ![d][s] = SourceLink]
        /\ UNCHANGED <<physicalAddress, processor, spaces>>
    BY <1>5, <2>2 DEF LinkTable, InLoop
  <2>4. s \in Slots /\ d \in PageNo
    BY <1>0, <2>2, <2>3, SourceApart
  <2>5. SourceLink = [table |-> t, phys |-> f]
    BY <1>0, <2>1, <2>2, <2>4 DEF SourceLink, TypeOK, Link
  <2>6. t # 0 => Backed(t, f)
    BY <1>0, <2>1, <2>2, <2>4 DEF WalkInv, LinksBacked, SourceLink
  <2>7. t # 0 => Backed(t, f)'
    BY <2>3, <2>6, BackedStays
  <2>8. LinksBacked'
    BY <2>3, <2>4, <2>5, <2>7, LinkBacked
  <2>9. clone'.table = 0 /\ clone'.dir = clone.dir
    BY <1>0, <2>3 DEF NextSlot, TypeOK, CloneLocals
  <2>10. DirectoriesBacked' /\ WalkStarts'
    BY <2>3, <2>9, BackedKept DEF Directories, HeapEnabled
  <2> QED
    BY <2>8, <2>9, <2>10 DEF WalkInv, CloneBacked
<1>6. CASE LinkClone
  <2>1. PICK t, f : t = clone.table /\ f = clone.phys
    OBVIOUS
  <2>2. PICK d, s : d = clone.dir /\ s = clone.slot
    OBVIOUS
  <2>3. /\ pc = "clone" /\ pc' = "clone" /\ clone.slot < SlotNumber /\ NextSlot
        /\ dirs' = [dirs EXCEPT ![d][s] = [table |-> t, phys |-> f]]
        /\ UNCHANGED <<physicalAddress, processor, spaces>>
    BY <1>0, <1>6, <2>1, <2>2 DEF LinkClone, CloneInDirectory
  <2>4. s \in Slots /\ d \in PageNo
    BY <1>0, <2>2, <2>3, SourceApart
  <2>6. t # 0 => Backed(t, f)
    BY <2>1 DEF WalkInv, CloneBacked
  <2>7. t # 0 => Backed(t, f)'
    BY <2>3, <2>6, BackedStays
  <2>8. LinksBacked'
    BY <2>3, <2>4, <2>7, LinkBacked
  <2>9. clone'.table = 0 /\ clone'.dir = clone.dir
    BY <1>0, <2>3 DEF NextSlot, TypeOK, CloneLocals
  <2>10. DirectoriesBacked' /\ WalkStarts'
    BY <2>3, <2>9, BackedKept DEF Directories, HeapEnabled
  <2> QED
    BY <2>8, <2>9, <2>10 DEF WalkInv, CloneBacked
<1>7. CASE CloneTable
  <2>1. PICK b : b = NewBlock
    OBVIOUS
  <2>2. PICK f : f = Physical(b)
    OBVIOUS
  <2>3. /\ pc = "clone" /\ pc' = "clone" /\ Reserve(PageSize) /\ PageSize \in Nat \ {0}
        /\ clone' = [clone EXCEPT !.table = b, !.phys = f, !.page = 0]
        /\ UNCHANGED <<dirs, physicalAddress, processor, spaces>>
    BY <1>7, <2>1, <2>2, PagingAssumption DEF CloneTable, InLoop
  <2>4. Backed(b, f)'
    BY <2>1, <2>2, <2>3, BlockBacked
  <2>5. clone'.table = b /\ clone'.phys = f /\ clone'.dir = clone.dir
    BY <1>0, <2>3 DEF TypeOK, CloneLocals
  <2>6. CloneBacked'
    BY <2>4, <2>5 DEF CloneBacked, Backed
  <2>7. LinksBacked' /\ DirectoriesBacked' /\ WalkStarts'
    BY <2>3, <2>5, BackedKept DEF Directories, HeapEnabled
  <2> QED
    BY <2>6, <2>7 DEF WalkInv
<1>8. CASE SkipPage \/ ClonePage \/ ClonePageWithoutFrame
  <2>1. /\ pc = "clone" /\ pc' = "clone" /\ NextPage
        /\ UNCHANGED <<dirs, physicalAddress, processor, spaces>>
    BY <1>8 DEF SkipPage, ClonePage, ClonePageWithoutFrame, CopyInto, InTable
  <2>2. clone'.table = clone.table /\ clone'.phys = clone.phys /\ clone'.dir = clone.dir
    BY <1>0, <2>1 DEF NextPage, TypeOK, CloneLocals
  <2>3. LinksBacked' /\ DirectoriesBacked' /\ WalkStarts'
    BY <2>1, <2>2, BackedKept DEF Directories, HeapEnabled
  <2>4. CloneBacked'
    <3>1. PICK t, f : t = clone.table /\ f = clone.phys
      OBVIOUS
    <3>2. t # 0 => Backed(t, f)'
      BY <2>1, <3>1, BackedStays DEF WalkInv, CloneBacked
    <3> QED
      BY <2>2, <3>1, <3>2 DEF CloneBacked, Backed
  <2> QED
    BY <2>3, <2>4 DEF WalkInv
<1>9. CASE SkipSlot
  <2>1. /\ pc = "clone" /\ pc' = "clone" /\ NextSlot
        /\ UNCHANGED <<dirs, physicalAddress, processor, spaces>>
    BY <1>9 DEF SkipSlot, InLoop
  <2>2. clone'.table = 0 /\ clone'.dir = clone.dir
    BY <1>0, <2>1 DEF NextSlot, TypeOK, CloneLocals
  <2>3. LinksBacked' /\ DirectoriesBacked' /\ WalkStarts'
    BY <2>1, <2>2, BackedKept DEF Directories, HeapEnabled
  <2> QED
    BY <2>2, <2>3 DEF WalkInv, CloneBacked
<1>10. CASE HeapTablesMade \/ MapLowPage \/ LowPagesMapped \/ MapHeapPage
            \/ HeapPagesMapped
  <2>1. /\ pc # "start" /\ pc' # "clone"
        /\ pc \in {"tables", "low", "heap"} /\ pc' \in {"low", "heap", "enable"}
        /\ UNCHANGED <<dirs, physicalAddress, processor, spaces, clone>>
    BY <1>10 DEF HeapTablesMade, MapLowPage, LowPagesMapped, MapHeapPage,
       HeapPagesMapped, AllocFrame
  <2>2. LinksBacked' /\ DirectoriesBacked' /\ CloneBacked'
    BY <2>1, BackedKept DEF Directories
  <2>3. WalkStarts'
    BY <2>1 DEF WalkStarts, HeapEnabled
  <2> QED
    BY <2>2, <2>3 DEF WalkInv
<1>11. CASE EnablePaging
  <2>1. /\ pc = "enable" /\ pc' = "heapInit" /\ currentPageDirectory' = pageDirectory
        /\ cr3' = physicalAddress[pageDirectory]
        /\ UNCHANGED <<dirs, physicalAddress, pageDirectory, spaces, clone>>
    BY <1>11 DEF EnablePaging, SwitchPaging
  <2>2. LinksBacked' /\ DirectoriesBacked' /\ CloneBacked'
    BY <2>1, BackedKept DEF Directories
  <2>3. WalkStarts'
    BY <2>1 DEF WalkStarts
  <2> QED
    BY <2>2, <2>3 DEF WalkInv
<1>12. CASE FirstDirectoryCloned
  <2>1. /\ pc = "clone" /\ pc' = "stack" /\ currentPageDirectory' = clone.dir
        /\ cr3' = physicalAddress[clone.dir] /\ clone' = NoClone
        /\ UNCHANGED <<dirs, physicalAddress, pageDirectory, spaces>>
    BY <1>12 DEF FirstDirectoryCloned, SwitchPaging, Cloned
  <2>2. LinksBacked' /\ DirectoriesBacked'
    BY <2>1, BackedKept DEF Directories
  <2>3. WalkStarts' /\ CloneBacked'
    BY <2>1 DEF WalkStarts, CloneBacked, NoClone
  <2> QED
    BY <2>2, <2>3 DEF WalkInv
<1>13. CASE MapStackPage \/ StackMapped
  <2>1. /\ pc = "stack" /\ pc' # "clone"
        /\ spaces' = spaces \/ spaces' = {currentPageDirectory}
        /\ UNCHANGED <<dirs, physicalAddress, processor, clone>>
    BY <1>13 DEF MapStackPage, StackMapped, AllocFrame
  <2>2. LinksBacked' /\ DirectoriesBacked' /\ CloneBacked' /\ WalkStarts'
    BY <2>1, BackedKept DEF Directories, HeapEnabled
  <2> QED
    BY <2>2 DEF WalkInv
<1>14. CASE Forked
  <2>1. /\ pc = "clone" /\ pc' = "run" /\ spaces' = spaces \cup {clone.dir}
        /\ clone' = NoClone
        /\ UNCHANGED <<dirs, physicalAddress, processor>>
    BY <1>14 DEF Forked, Cloned
  <2>2. LinksBacked' /\ DirectoriesBacked' /\ WalkStarts'
    BY <2>1, BackedKept DEF Directories, HeapEnabled
  <2>3. CloneBacked'
    BY <2>1 DEF CloneBacked, NoClone
  <2> QED
    BY <2>2, <2>3 DEF WalkInv
<1>15. ASSUME NEW d \in spaces, Switch(d)
       PROVE  WalkInv'
  <2>1. /\ pc = "run" /\ pc' = "run" /\ currentPageDirectory' = d
        /\ cr3' = physicalAddress[d]
        /\ UNCHANGED <<dirs, physicalAddress, pageDirectory, spaces, clone>>
    BY <1>15 DEF Switch, SwitchPaging
  <2>2. LinksBacked' /\ DirectoriesBacked' /\ CloneBacked'
    BY <2>1, BackedKept DEF Directories
  <2>3. WalkStarts'
    BY <2>1 DEF WalkStarts
  <2> QED
    BY <2>2, <2>3 DEF WalkInv
<1>16. CASE \/ (\E v \in DataPages, x \in Values : Store(v, x))
            \/ (\E v \in DataPages : PageFault(v))
  <2>1. /\ pc = "run" /\ pc' \in {"run", "halted"}
        /\ UNCHANGED <<dirs, physicalAddress, processor, spaces, clone>>
    BY <1>16 DEF Store, PageFault
  <2>2. LinksBacked' /\ DirectoriesBacked' /\ CloneBacked' /\ WalkStarts'
    BY <2>1, BackedKept DEF Directories, HeapEnabled
  <2> QED
    BY <2>2 DEF WalkInv
<1>17. CASE UNCHANGED vars
  BY <1>17 DEF vars, WalkInv, LinksBacked, DirectoriesBacked, CloneBacked, WalkStarts,
     Backed, Backing, PageOf, TableOf, Directories, HeapEnabled
<1> QED
  BY <1>1, <1>2, <1>4, <1>5, <1>6, <1>7, <1>8, <1>9, <1>10, <1>11, <1>12, <1>13,
     <1>14, <1>15, <1>16, <1>17 DEF Next, Boot, Clone

\* The processor's walk is the kernel's: cr3 is the frame of
\* currentPageDirectory_, and the physical addresses in every directory in use
\* are the frames of the tables its pointers name, all of them mapped.
THEOREM WalksAgree ==
    ASSUME Freeable = {}, MainMemoryHolds, BootHasFrames
    PROVE  Spec => []WalkAgrees
<1>1. MapInv /\ BootInv /\ BootInv' /\ WalkInv /\ [Next]_vars => WalkInv'
  BY WalkStep
<1>2. ASSUME MapInv, BootInv, WalkInv
      PROVE  WalkAgrees
  <2>0. TypeOK /\ SInv /\ Fresh /\ Loops
    BY <1>2 DEF MapInv, IInv, TInv
  <2>1. SUFFICES ASSUME PagingEnabled PROVE WalkAgrees
    BY DEF WalkAgrees
  <2>2. /\ pc # "start" /\ HeapEnabled /\ pc \notin {"start", "tables", "low", "heap"}
        /\ Directories \subseteq PageNo /\ currentPageDirectory \in Directories
    BY <2>0, <2>1 DEF PagingEnabled, HeapEnabled, Directories, TypeOK
  <2>3. ASSUME NEW p, NEW f, Backed(p, f)
        PROVE  /\ f = Backing(p)
               /\ \A e \in Directories : PageOf(e, p).present
    <3>1. p \in PageNo
      BY <2>0, <2>3, LoopPages DEF Backed
    <3>2. f = Backing(p) /\ KernelPage(p).present
      <4>1. CASE p < AlignUp(placement) /\ f = p
        <5>1. p \in 0 .. AlignUp(placement) - 1
          BY <2>0, <3>1, <4>1, AlignUpNat DEF TypeOK, PageNo
        <5>2. KernelPage(p) = Identity(p)
          BY <1>2, <2>2, <5>1 DEF BootInv, LowMapped
        <5> QED
          BY <4>1, <5>2 DEF Identity, Backing, KernelPage
      <4>2. CASE p \in Heap /\ f = Backing(p)
        BY <1>2, <2>2, <4>2 DEF BootInv, HeapMapped
      <4> QED
        BY <2>3, <4>1, <4>2 DEF Backed
    <3> QED
      BY <2>0, <2>2, <3>1, <3>2, KernelPageShared
  <2>4. \A d \in Directories : physicalAddress[d] = Backing(d)
    BY <1>2, <2>2, <2>3 DEF WalkInv, DirectoriesBacked
  <2>5. cr3 = Backing(currentPageDirectory)
    BY <1>2, <2>2, <2>4 DEF WalkInv, WalkStarts
  <2>6. ASSUME NEW d \in Directories, NEW s \in Slots, dirs[d][s].table # 0
        PROVE  /\ dirs[d][s].phys = Backing(dirs[d][s].table)
               /\ \A e \in Directories : PageOf(e, dirs[d][s].table).present
    BY <1>2, <2>2, <2>3, <2>6 DEF WalkInv, LinksBacked
  <2> QED
    BY <2>4, <2>5, <2>6 DEF WalkAgrees
<1> QED
  BY <1>1, <1>2, InitWalk, MapInvariant, BootInvariant, PTL DEF Spec
=============================================================================
