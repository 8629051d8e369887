----------------------------- MODULE KernelBoot -----------------------------
(***************************************************************************)
(* Paging composed with the move of the stack: Sheduler::init enters       *)
(* changeStack, whose loop maps the new stack's pages, then the stack      *)
(* moves there, then the first process is put into the list.               *)
(***************************************************************************)
EXTENDS PagingProperties, StackMove

CONSTANT PageWords      \* words of a page

ASSUME KernelBootAssumption ==
    /\ PageWords \in Nat \ {0}
    /\ newStartAddr = StackTop * PageWords
    /\ newSize = StackPages * PageWords

bootVars == <<vars, moveVars>>

StackLoopLeft == pc = "stack" /\ cursor < StackTop - StackPages

MoveStack == StackLoopLeft /\ ChangeStack /\ UNCHANGED vars

\* A step of paging, which does not overtake the move.
Behind(step) == (StackLoopLeft => moved) /\ step /\ UNCHANGED moveVars

BootInit == Init /\ StackInit
BootNext == MoveStack \/ Behind(Next)
BootSpec == BootInit /\ [][BootNext]_bootVars

\* As for paging alone: the kernel's thread runs with interrupts disabled.
FairBootSpec ==
    BootSpec /\ WF_bootVars(MoveStack \/ Behind(Boot \/ Clone \/ Forked))

-----------------------------------------------------------------------------
\* The loop that maps and the loop that shifts count from the same address,
\* one in pages and one in words: all of the stack in use has frames, in the
\* process that moved it and in all that are forked from it, while the frames
\* suffice.
StackInPages ==
    moved =>
        \A d \in spaces \cup {currentPageDirectory} :
            \A a \in {esp, ebp} \cup esp .. newStartAddr :
                PageOf(d, a \div PageWords).frame # 0
=============================================================================
