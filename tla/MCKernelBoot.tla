---------------------------- MODULE MCKernelBoot ----------------------------
(***************************************************************************)
(* Instances of KernelBoot for TLC: the geometry of MCPaging, pages of     *)
(* eight words, and the loader's stack in the two pages of the image.      *)
(***************************************************************************)
EXTENDS MCPaging, KernelBoot, Sequences

\* Main memory has room for what boot places in it, frames suffice for the
\* heap and all stacks, and the stack's tables are not the kernel's.
ASSUME MCBootFits ==
    MainMemoryHolds /\ BootHasFrames /\ ProcessesHaveFrames /\ StackApart

\* The stack, lowest word first: the locals of changeStack, init's and
\* kernel_main's with what each passes, and the loader's three words.  Code
\* lies behind the stacks, GRUB's ebp is 0.
StackWords(changeStacks, inits, mains) ==
    LET main == initialEsp - 5
        init == main - Len(mains) - 2
    IN  changeStacks \o <<init, 401>> \o inits \o <<main, 402>> \o mains
            \o <<0, 403, 50, 60, initialEsp>>

\* In fresh pages there is what was in the frames: 0, or an address.
StartOf(changeStacks, inits, mains, fresh) ==
    LET words == StackWords(changeStacks, inits, mains)
        bottom == initialEsp - Len(words)
    IN  [memory |-> [a \in Addresses |->
                        IF a \in bottom .. initialEsp - 1
                        THEN words[a - bottom + 1] ELSE fresh],
         esp |-> bottom,
         ebp |-> bottom + Len(changeStacks)]

\* Frames without locals; with addresses of the stack among them, its lowest
\* and its end included; as many as the new stack has room for.
MCStarts == {StartOf(<<>>, <<>>, <<>>, 12),
             StartOf(<<5>>, <<16>>, <<10, 70>>, 0),
             StartOf(<<1, 9>>, <<>>, <<13, 70, 15, 7>>, 8)}
=============================================================================
