------------------------------ MODULE StackMove ------------------------------
(***************************************************************************)
(* The second half of Sheduler::changeStack (src/source/process.cpp): the  *)
(* stack that the loader gave the kernel is copied to the pages just       *)
(* mapped, and words of it that are addresses in it are shifted.  The      *)
(* frames are those of changeStack, Sheduler::init and kernel_main, with   *)
(* ebp as the compiler leaves it: it names the saved ebp of the caller,    *)
(* and the return address lies above.                                      *)
(*                                                                         *)
(* Addresses count words, and wrap as the code's bytes do at 2^32.         *)
(* Interrupts are disabled: the move is one step.                          *)
(***************************************************************************)
EXTENDS Integers

CONSTANTS
    AddressMod,     \* words of the address space
    initialEsp,     \* stack_ptr of kernel_main: the end of the loader's stack
    LoaderSize,     \* STACKSIZE of loader.S
    newStartAddr,   \* the new stack's start, 0xE0000000
    newSize,        \* its size, 0x2000
    Starts          \* stacks that changeStack may find, with esp and ebp

Word == 0 .. AddressMod - 1
LoaderStack == initialEsp - LoaderSize .. initialEsp - 1
Addresses == LoaderStack \cup newStartAddr - newSize .. newStartAddr

\* What the kernel calls the stack: three frames, the callers' above, fewer
\* words than the new stack has.  Code is elsewhere, and so is whatever ebp the
\* loader was entered with.
IsStart(s) ==
    LET m == s.memory
        init == m[s.ebp]
        main == m[init]
    IN  /\ m \in [Addresses -> Word]
        /\ s.esp \in LoaderStack /\ initialEsp - s.esp < newSize
        /\ s.ebp \in s.esp .. initialEsp - 1
        /\ init \in s.ebp + 2 .. initialEsp - 1
        /\ main \in init + 2 .. initialEsp - 2
        /\ {m[s.ebp + 1], m[init + 1], m[main + 1], m[main]}
              \cap (s.esp .. initialEsp - 1) = {}

ASSUME StackMoveAssumption ==
    /\ {AddressMod, initialEsp, LoaderSize, newStartAddr, newSize} \subseteq Nat
    /\ LoaderSize <= initialEsp
    /\ initialEsp <= newStartAddr - newSize
    /\ newStartAddr < AddressMod
    /\ \A s \in Starts : IsStart(s)

VARIABLES
    start,      \* the stack that changeStack found: not the code's
    memory,     \* the words of both stacks
    esp, ebp,
    moved       \* whether esp and ebp have been loaded

moveVars == <<start, memory, esp, ebp, moved>>

-----------------------------------------------------------------------------
\* Slips: the distance taken the wrong way round; ebp for initialEsp.
RebasedAbove(a) == (newStartAddr + (initialEsp - a)) % AddressMod
PointsBelowEbp(w) == esp < w /\ w < ebp

\* newEsp and newEbp.
Rebased(a) == (newStartAddr + (a - initialEsp)) % AddressMod

\* What is taken for an address in the stack.
PointsIntoStack(w) == esp < w /\ w < initialEsp

offset == (newStartAddr - initialEsp) % AddressMod
Shifted(w) == IF PointsIntoStack(w) THEN (w + offset) % AddressMod ELSE w

\* memcpy of the words from esp on.
Copied(a) ==
    IF a \in Rebased(esp) .. Rebased(esp) + (initialEsp - esp) - 1
    THEN memory[esp + (a - Rebased(esp))]
    ELSE memory[a]

\* The loop goes over all of the new stack, whatever its pages held before,
\* and over its start address.
ChangeStack ==
    /\ ~moved
    /\ memory' = [a \in Addresses |->
                     IF a \in newStartAddr - newSize + 1 .. newStartAddr
                     THEN Shifted(Copied(a)) ELSE Copied(a)]
    /\ esp' = Rebased(esp)
    /\ ebp' = Rebased(ebp)
    /\ moved' = TRUE
    /\ UNCHANGED start

StackInit ==
    /\ start \in Starts
    /\ memory = start.memory /\ esp = start.esp /\ ebp = start.ebp
    /\ moved = FALSE

StackSpec == StackInit /\ [][ChangeStack]_moveVars

-----------------------------------------------------------------------------
(* What must hold of the move.                                             *)

\* A frame, by its distance from the stack's end.
FrameAt(m, b, end) == [depth |-> end - b, returns |-> m[b + 1]]

\* What a debugger, or leave and ret, find from ebp on up to the loader.
Backtrace(m, b, end) ==
    <<FrameAt(m, b, end), FrameAt(m, m[b], end), FrameAt(m, m[m[b]], end),
      m[m[m[b]]]>>

\* "copy stack entries": after the move the functions that were called return
\* one after the other to where they were called, on the new stack, each
\* finding ebp at the same place of its frame.
FramesFollow ==
    moved =>
        /\ newStartAddr - esp = initialEsp - start.esp
        /\ Backtrace(memory, ebp, newStartAddr)
              = Backtrace(start.memory, start.ebp, initialEsp)
=============================================================================
