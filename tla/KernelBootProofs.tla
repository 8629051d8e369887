-------------------------- MODULE KernelBootProofs --------------------------
(***************************************************************************)
(* The move of the stack, for stacks of any place and size and with any    *)
(* words between the frames' links; and where it goes: to pages that are   *)
(* mapped, in the process that moved it and in all that are forked from it.*)
(***************************************************************************)
EXTENDS KernelBoot, IsolationProofs

-----------------------------------------------------------------------------
(* The words.                                                              *)

distance == newStartAddr - initialEsp

LEMMA Unwrapped ==
    ASSUME NEW m \in Nat, NEW x \in 0 .. m - 1
    PROVE  x % m = x
BY SMT

LEMMA Rebases ==
    ASSUME NEW a \in 0 .. initialEsp
    PROVE  Rebased(a) = a + distance
<1> DEFINE x == newStartAddr + (a - initialEsp)
<1>1. AddressMod \in Nat /\ x \in 0 .. AddressMod - 1 /\ x = a + distance
    BY StackMoveAssumption DEF distance
<1> HIDE DEF x
<1>2. x % AddressMod = x
    BY <1>1, Unwrapped
<1> QED
    BY <1>1, <1>2 DEF Rebased, x

\* Where the loops leave the word that was at a.
LEMMA WordMoved ==
    ASSUME start \in Starts, memory = start.memory, esp = start.esp, ChangeStack,
           NEW a \in esp .. initialEsp - 1
    PROVE  memory'[a + distance] =
               IF PointsIntoStack(memory[a]) THEN memory[a] + distance ELSE memory[a]
<1> DEFINE to == a + distance
<1>1. /\ {AddressMod, initialEsp, LoaderSize, newStartAddr, newSize} \subseteq Nat
      /\ initialEsp <= newStartAddr - newSize /\ newStartAddr < AddressMod
      /\ LoaderSize <= initialEsp
    BY StackMoveAssumption
<1>2. /\ memory \in [Addresses -> Word] /\ esp \in LoaderStack
      /\ initialEsp - esp < newSize
    BY StackMoveAssumption DEF IsStart
<1>3. esp \in 0 .. initialEsp - 1 /\ a \in 0 .. initialEsp - 1 /\ a \in Addresses
    BY <1>1, <1>2 DEF LoaderStack, Addresses
<1>4. to \in newStartAddr - newSize + 1 .. newStartAddr /\ to \in Addresses
    BY <1>1, <1>2, <1>3 DEF distance, Addresses
<1>5. Copied(to) = memory[a]
    <2>1. Rebased(esp) = esp + distance
        BY <1>1, <1>3, Rebases
    <2>2. to \in Rebased(esp) .. Rebased(esp) + (initialEsp - esp) - 1
          /\ esp + (to - Rebased(esp)) = a
        BY <1>1, <1>3, <2>1 DEF distance
    <2> HIDE DEF to
    <2> QED
        BY <2>2 DEF Copied
<1>6. memory'[to] = Shifted(Copied(to))
    <2> HIDE DEF to
    <2> QED
        BY <1>4 DEF ChangeStack
<1>7. Shifted(memory[a]) =
          IF PointsIntoStack(memory[a]) THEN memory[a] + distance ELSE memory[a]
    <2> DEFINE w == memory[a]
    <2>1. w \in Nat
        BY <1>2, <1>3 DEF Word
    <2> HIDE DEF w
    <2>2. offset = distance
        <3>1. distance \in 0 .. AddressMod - 1
            BY <1>1 DEF distance
        <3>2. distance % AddressMod = distance
            BY <1>1, <3>1, Unwrapped
        <3> QED
            BY <3>2 DEF offset, distance
    <2>3. w < initialEsp => (w + distance) % AddressMod = w + distance
        <3> SUFFICES ASSUME w < initialEsp
                     PROVE  (w + distance) % AddressMod = w + distance
            OBVIOUS
        <3> DEFINE x == w + distance
        <3>1. x \in 0 .. AddressMod - 1 /\ AddressMod \in Nat
            BY <1>1, <2>1 DEF distance
        <3> HIDE DEF x
        <3>2. x % AddressMod = x
            BY <3>1, Unwrapped
        <3> QED
            BY <3>2 DEF x
    <2>4. Shifted(w) = IF PointsIntoStack(w) THEN w + distance ELSE w
        BY <2>2, <2>3 DEF Shifted, PointsIntoStack
    <2> QED
        BY <2>4 DEF w
<1> QED
    BY <1>5, <1>6, <1>7

LEMMA MoveKeepsFrames ==
    ASSUME start \in Starts, memory = start.memory, esp = start.esp, ebp = start.ebp,
           ChangeStack
    PROVE  FramesFollow'
<1> DEFINE init == memory[ebp]
           main == memory[init]
<1>1. /\ esp \in LoaderStack /\ initialEsp - esp < newSize
      /\ memory \in [Addresses -> Word]
      /\ ebp \in esp .. initialEsp - 1 /\ init \in ebp + 2 .. initialEsp - 1
      /\ main \in init + 2 .. initialEsp - 2
      /\ {memory[ebp + 1], memory[init + 1], memory[main + 1], memory[main]}
            \cap (esp .. initialEsp - 1) = {}
    BY StackMoveAssumption DEF IsStart
<1>2. initialEsp \in Nat /\ newStartAddr \in Nat /\ distance \in Int
      /\ esp \in 0 .. initialEsp - 1
    BY <1>1, StackMoveAssumption DEF LoaderStack, distance
<1>3. init \in Int /\ main \in Int
    BY <1>1
<1> HIDE DEF init, main
<1>4. {ebp, ebp + 1, init, init + 1, main, main + 1} \subseteq esp .. initialEsp - 1
    BY <1>1, <1>2, <1>3
<1>5. /\ PointsIntoStack(init) /\ PointsIntoStack(main)
      /\ \A w \in {memory[ebp + 1], memory[init + 1], memory[main + 1], memory[main]} :
            w \in Word => ~PointsIntoStack(w)
    BY <1>1, <1>2, <1>3 DEF PointsIntoStack, Word
<1>6. \A a \in esp .. initialEsp - 1 : memory[a] \in Word
    BY <1>1, <1>2, StackMoveAssumption DEF LoaderStack, Addresses
<1>7. /\ memory'[ebp + distance] = init + distance
      /\ memory'[init + distance] = main + distance
      /\ memory'[main + distance] = memory[main]
      /\ memory'[ebp + 1 + distance] = memory[ebp + 1]
      /\ memory'[init + 1 + distance] = memory[init + 1]
      /\ memory'[main + 1 + distance] = memory[main + 1]
    BY <1>4, <1>5, <1>6, WordMoved DEF init, main
<1>8. esp' = esp + distance /\ ebp' = ebp + distance /\ start' = start
    BY <1>1, <1>2, Rebases DEF ChangeStack
<1>9. newStartAddr - esp' = initialEsp - start'.esp
    BY <1>2, <1>8 DEF distance
<1>10. Backtrace(memory, ebp, newStartAddr)'
           = Backtrace(start.memory, start.ebp, initialEsp)'
    <2>1. /\ ebp + distance + 1 = ebp + 1 + distance
          /\ init + distance + 1 = init + 1 + distance
          /\ main + distance + 1 = main + 1 + distance
          /\ newStartAddr - (ebp + distance) = initialEsp - ebp
          /\ newStartAddr - (init + distance) = initialEsp - init
          /\ newStartAddr - (main + distance) = initialEsp - main
        BY <1>1, <1>2, <1>3 DEF distance
    <2>2. FrameAt(memory', ebp', newStartAddr) = FrameAt(memory, ebp, initialEsp)
        BY <1>7, <1>8, <2>1 DEF FrameAt
    <2>3. FrameAt(memory', init + distance, newStartAddr)
              = FrameAt(memory, init, initialEsp)
        BY <1>7, <2>1 DEF FrameAt
    <2>4. FrameAt(memory', main + distance, newStartAddr)
              = FrameAt(memory, main, initialEsp)
        BY <1>7, <2>1 DEF FrameAt
    <2>5. memory'[ebp'] = init + distance /\ memory'[memory'[ebp']] = main + distance
          /\ memory'[memory'[memory'[ebp']]] = memory[main]
        BY <1>7, <1>8
    <2>6. Backtrace(memory', ebp', newStartAddr) = Backtrace(memory, ebp, initialEsp)
        BY <2>2, <2>3, <2>4, <2>5 DEF Backtrace, init, main
    <2> QED
        BY <1>8, <2>6
<1> QED
    BY <1>9, <1>10 DEF FramesFollow

AsFound == memory = start.memory /\ esp = start.esp /\ ebp = start.ebp

\* The functions that called changeStack return, on the new stack, one after
\* the other to where they were called, wherever the two stacks are and
\* whatever lies on them between the frames' links.
THEOREM FramesMoved == StackSpec => []FramesFollow
<1> DEFINE Inv == /\ start \in Starts /\ moved \in BOOLEAN
                  /\ ~moved => AsFound
                  /\ FramesFollow
<1>1. StackInit => Inv
    BY DEF StackInit, AsFound, FramesFollow
<1>2. Inv /\ [ChangeStack]_moveVars => Inv'
    <2> SUFFICES ASSUME Inv, [ChangeStack]_moveVars PROVE Inv'
        OBVIOUS
    <2>1. CASE ChangeStack
        <3>1. FramesFollow'
            BY <2>1, MoveKeepsFrames DEF AsFound, ChangeStack
        <3> QED
            BY <2>1, <3>1 DEF ChangeStack
    <2>2. CASE UNCHANGED moveVars
        BY <2>2 DEF moveVars, AsFound, FramesFollow
    <2> QED
        BY <2>1, <2>2
<1>3. Inv => FramesFollow
    OBVIOUS
<1> QED
    BY <1>1, <1>2, <1>3, PTL DEF StackSpec

-----------------------------------------------------------------------------
(* The pages.                                                              *)

\* A step of both is a step of each.
LEMMA BootsRefine ==
    /\ BootSpec => Spec
    /\ BootSpec => StackSpec
<1>1. BootInit => Init /\ StackInit
    BY DEF BootInit
<1>2. [BootNext]_bootVars => [Next]_vars /\ [ChangeStack]_moveVars
    BY DEF BootNext, MoveStack, Behind, bootVars
<1> QED
    BY <1>1, <1>2, PTL DEF BootSpec, Spec, StackSpec

\* Where esp and ebp are, and how far the kernel's thread is once they have
\* been moved.
InStack(a) == a \in newStartAddr - newSize .. newStartAddr

MoveInv ==
    /\ start \in Starts /\ moved \in BOOLEAN
    /\ ~moved => AsFound
    /\ moved =>
          /\ InStack(esp) /\ InStack(ebp)
          /\ pc \in {"stack", "clone", "run", "halted"}
          /\ pc = "stack" => cursor < StackTop - StackPages
          /\ pc = "clone" => spaces # {}

LEMMA MovedTo ==
    ASSUME start \in Starts, esp = start.esp, ebp = start.ebp, ChangeStack
    PROVE  InStack(esp)' /\ InStack(ebp)'
<1>1. /\ {AddressMod, initialEsp, LoaderSize, newStartAddr, newSize} \subseteq Nat
      /\ LoaderSize <= initialEsp
    BY StackMoveAssumption
<1>2. esp \in LoaderStack /\ initialEsp - esp < newSize /\ ebp \in esp .. initialEsp - 1
    BY StackMoveAssumption DEF IsStart
<1>3. esp \in 0 .. initialEsp /\ ebp \in 0 .. initialEsp
    BY <1>1, <1>2 DEF LoaderStack
<1>4. esp' = esp + distance /\ ebp' = ebp + distance
    BY <1>3, Rebases DEF ChangeStack
<1>5. distance = newStartAddr - initialEsp
    BY DEF distance
<1> QED
    BY <1>1, <1>2, <1>3, <1>4, <1>5 DEF InStack

\* Paging's thread comes from the stack to the processes and stays there.
LEMMA ThreadAhead ==
    ASSUME MapInv, [Next]_vars, pc \in {"stack", "clone", "run", "halted"},
           pc = "stack" => cursor < StackTop - StackPages,
           pc = "clone" => spaces # {}
    PROVE  /\ pc' \in {"stack", "clone", "run", "halted"}
           /\ pc' = "stack" => cursor' < StackTop - StackPages
           /\ pc' = "clone" => spaces' # {}
<1> USE DEF boot, structure, processor
<1>0. cursor \in Int /\ StackTop \in Int /\ StackPages \in Int
    BY MapParts, PagingAssumption DEF TypeOK
<1>1. CASE Boot
    <2>1. ~(cursor >= StackTop - StackPages) \/ pc # "stack"
        BY <1>0
    <2>2. StackMapped
        BY <1>1, <2>1
           DEF Boot, AllocateBitmap, MakeHeapTables, HeapTablesMade, MakeLowTable,
               MapLowPage, LowPagesMapped, MapHeapPage, HeapPagesMapped, EnablePaging,
               CloneFirstDirectory, FirstDirectoryCloned, Cloned, MakeStackTable,
               MapStackPage
    <2> QED
        BY <2>2 DEF StackMapped
<1>2. CASE Clone
    <2>1. pc = "clone" /\ pc' = "clone" /\ spaces' = spaces
        BY <1>2 DEF Clone, SkipSlot, LinkTable, CloneTable, LinkClone, SkipPage,
           ClonePage, ClonePageWithoutFrame, CopyInto, InLoop, InTable
    <2> QED
        BY <2>1
<1>3. CASE Fork
    <2>1. pc = "run" /\ pc' = "clone" /\ spaces' = spaces
        BY <1>3 DEF Fork, NewDirectory
    <2>2. spaces # {}
        BY <2>1, MapParts DEF SInv, Phases
    <2> QED
        BY <2>1, <2>2
<1>4. CASE \/ Forked \/ (\E d \in spaces : Switch(d))
           \/ (\E v \in DataPages, x \in Values : Store(v, x))
           \/ (\E v \in DataPages : PageFault(v))
           \/ (\E v \in Freeable : FreeFrame(v))
    <2>1. pc' \in {"run", "halted"}
        BY <1>4 DEF Forked, Switch, Store, PageFault, FreeFrame
    <2> QED
        BY <2>1
<1>5. CASE UNCHANGED vars
    BY <1>5 DEF vars
<1> QED
    BY <1>1, <1>2, <1>3, <1>4, <1>5 DEF Next

LEMMA MoveInvStep ==
    ASSUME MapInv, MoveInv, [BootNext]_bootVars
    PROVE  MoveInv'
<1>1. CASE MoveStack
    <2>1. InStack(esp)' /\ InStack(ebp)'
        BY <1>1, MovedTo DEF MoveStack, ChangeStack, MoveInv, AsFound
    <2> QED
        BY <1>1, <2>1 DEF MoveStack, StackLoopLeft, ChangeStack, MoveInv, vars
<1>2. CASE Behind(Next) \/ UNCHANGED bootVars
    <2>1. [Next]_vars /\ UNCHANGED moveVars
        BY <1>2 DEF Behind, bootVars
    <2>2. CASE moved
        BY <2>1, <2>2, ThreadAhead DEF MoveInv, moveVars, InStack
    <2>3. CASE ~moved
        BY <2>1, <2>3 DEF MoveInv, moveVars, AsFound
    <2> QED
        BY <2>2, <2>3
<1> QED
    BY <1>1, <1>2 DEF BootNext

\* An address in the new stack lies in a page the loop has gone over.
LEMMA InStackRange ==
    ASSUME NEW a, InStack(a)
    PROVE  a \div PageWords \in StackRange
<1>1. PICK n \in Nat, t \in Nat, z \in Nat :
          /\ n = PageWords /\ t = StackTop /\ z = StackPages
          /\ n > 0 /\ z <= t
    <2>1. PageWords \in Nat \ {0}
        BY KernelBootAssumption
    <2>2. StackTop \in Nat /\ StackPages \in Nat /\ StackPages <= StackTop
        BY PagingAssumption
    <2> QED
        BY <2>1, <2>2
<1>2. newStartAddr = t * n /\ newSize = z * n /\ t * n - z * n = (t - z) * n
    BY <1>1, KernelBootAssumption, SMT
<1>3. a \in Int /\ (t - z) * n <= a /\ a <= t * n
    BY <1>1, <1>2 DEF InStack
<1>4. /\ a \div n \in Int /\ a % n \in 0 .. n - 1
      /\ a = n * (a \div n) + (a % n)
    BY <1>1, <1>3, SMT
<1>5. PICK q \in Int, r \in 0 .. n - 1 : q = a \div n /\ a = n * q + r
    BY <1>4
<1>6. ~(q > t)
    BY <1>1, <1>3, <1>5, SMT
<1>7. ~(q < t - z)
    <2>1. SUFFICES ASSUME q + 1 <= t - z PROVE FALSE
        BY <1>1, <1>5
    <2>2. (q + 1) * n <= (t - z) * n
        BY <1>1, <1>5, <2>1, SMT
    <2>3. (q + 1) * n = n * q + n
        BY <1>1, <1>5, SMT
    <2>4. PICK x \in Int, y \in Int : x = n * q /\ y = (t - z) * n
        BY <1>1, <1>5
    <2> QED
        BY <1>1, <1>3, <1>5, <2>2, <2>3, <2>4
<1> QED
    BY <1>1, <1>5, <1>6, <1>7 DEF StackRange

\* All of the stack in use has frames, in the process that moved it and in all
\* that are forked from it.
THEOREM StackHasPages ==
    ASSUME Freeable = {}, StackApart, MainMemoryHolds, ProcessesHaveFrames
    PROVE  BootSpec => []StackInPages
<1>1. BootInit => MoveInv
    BY DEF BootInit, StackInit, MoveInv, AsFound
<1>2. MapInv /\ MoveInv /\ [BootNext]_bootVars => MoveInv'
    BY MoveInvStep
<1>3. MapInv /\ IsoInv /\ MoveInv => StackInPages
    <2> SUFFICES ASSUME MapInv, IsoInv, MoveInv, moved,
                        NEW d \in spaces \cup {currentPageDirectory},
                        NEW a \in {esp, ebp} \cup esp .. newStartAddr
                 PROVE  PageOf(d, a \div PageWords).frame # 0
        BY DEF StackInPages
    <2>1. InStack(a)
        BY StackMoveAssumption DEF MoveInv, InStack
    <2>2. PICK v \in StackRange : v = a \div PageWords
        BY <2>1, InStackRange
    <2>3. CASE d \in spaces
        BY <2>2, <2>3 DEF IsoInv, StacksMapped
    <2>4. CASE d \notin spaces
        <3>1. d = currentPageDirectory /\ pc = "stack"
            BY <2>4, MapParts DEF SInv, Phases, MoveInv
        <3>2. v > cursor
            <4>1. v >= StackTop - StackPages /\ v \in Int
                BY PagingAssumption DEF StackRange
            <4>2. cursor < StackTop - StackPages /\ cursor \in Int
                BY <3>1, MapParts DEF MoveInv, TypeOK
            <4> QED
                BY <4>1, <4>2, PagingAssumption
        <3> QED
            BY <2>2, <3>1, <3>2 DEF IsoInv, StacksMapped
    <2> QED
        BY <2>3, <2>4
<1> QED
    BY <1>1, <1>2, <1>3, BootsRefine, MapInvariant, FramesSuffice, PTL DEF BootSpec

\* On the way from the loader's stack to a forked process's, the functions that
\* were called keep returning to where they were called.
THEOREM BootFramesMoved == BootSpec => []FramesFollow
BY BootsRefine, FramesMoved, PTL
=============================================================================
