------------------------------ MODULE Sheduler ------------------------------
(***************************************************************************)
(* The scheduler of src/source/process.cpp, with the timer interrupt that  *)
(* drives it (interrupt.S, isr.cpp, pic_timer.cpp).                        *)
(*                                                                         *)
(* Each process has an address space, and in it a stack: a sequence of     *)
(* frames, the running function's last.  esp is the length of the stack of *)
(* the address space in cr3, and eip is pc.  What lies beyond a stack's    *)
(* end is not kept.  The two jumps of the code that are not calls or       *)
(* returns, the end of switchTask and the return of fork in the child, go  *)
(* to the frame and the instruction a saved context names, whatever is     *)
(* there.                                                                  *)
(*                                                                         *)
(* A process in user mode is interrupted on the stack that the one TSS     *)
(* names (system_calls.cpp, tss_entry.cpp).  These stacks lie in page 0,   *)
(* which all address spaces share: -k is the one whose top is 2048 * k.    *)
(*                                                                         *)
(* Code between cli and sti is one step.  Everywhere else interrupts are   *)
(* enabled and a timer interrupt may come between any two steps.           *)
(*                                                                         *)
(* Definitions marked as slips are small mistakes of the kind the          *)
(* properties are there to catch; the model does not use them.             *)
(***************************************************************************)
EXTENDS Integers, Sequences, FiniteSets, SequencesExt

CONSTANTS
    MaxProcesses,   \* bound: processes
    MaxNested,      \* bound: interrupts that lie above another, on all stacks
    MaxUsers,       \* bound: processes that go to user mode
    Switching,      \* who calls switchTask: "timer", "program"
    Racing          \* whether the timer may interrupt a program's switchTask
                    \* between its save and its cli

ASSUME ShedulerAssumption ==
    /\ MaxProcesses \in Nat \ {0} /\ MaxNested \in Nat
    /\ MaxUsers \in 0 .. MaxProcesses
    /\ Switching \subseteq {"timer", "program"}
    /\ Racing \in BOOLEAN

VARIABLES
    processList,    \* the PCBs, first to last: pid, esp and eip, directory
    current,        \* currentProcess_: a position in processList, or Null
    pidCounter,     \* pidCounter_
    pageDirectory,  \* pmmu.currentPageDirectory_
    cr3,            \* the address space the processor uses
    pc,             \* where the processor is in the running function
    stack,          \* the stack that esp points into
    stacks,         \* stacks[d]: the frames of the stack of address space d;
                    \* stacks[-k]: those of the stack below 2048 * k
    users,          \* the address spaces of processes in user mode
    esp0,           \* tssEntry.esp0, in units of 2048
    status          \* "running"; "stopped" in a handler, with interrupts
                    \* disabled; "lost": executing what is not a function

processor == <<cr3, pc, stack, stacks, status>>
mode == <<users, esp0>>
vars == <<processList, current, pidCounter, pageDirectory, processor, mode>>

Null == 0
InitialSpace == 1       \* the directory initialisePaging switched to
NoContext == [stack |-> InitialSpace, esp |-> 0, eip |-> "none"]
StackNames == -MaxUsers .. MaxProcesses
Depth(s) == Len(stacks[s])
Top == Last(stacks[stack])

-----------------------------------------------------------------------------
(* Frames.  main's keeps what fork has returned; ret is a return address.  *)

Main(history) == [fn |-> "main", history |-> history]
ForkFrame == [fn |-> "fork", parentProc |-> current]
SwitchFrame(ret) == [fn |-> "switchTask", ret |-> ret,
                     context |-> NoContext, directory |-> Null]

\* What an interrupt leaves: where it came from and whose registers.
InUserMode == cr3 \in users /\ pc = "main"
IrqFrame == [fn |-> "irq", ret |-> pc, user |-> InUserMode, registers |-> cr3]

Push(frames) == [stacks EXCEPT ![stack] = @ \o frames]
PopAs(frame) == [stacks EXCEPT ![stack] = Append(Front(Front(@)), frame)]

\* Where a context with this eip can be in a function's code.
ResumedIn(eip) == IF eip = "forked" THEN "fork" ELSE "switchTask"

\* An address on a process's own stack is one in the directory that is loaded.
StackIn(name, d) == IF name > 0 THEN d ELSE name

\* Slips: cr3 not loaded; the frame that is resumed already popped.
ResumeKeepsSpace(context, d, newStacks) ==
    /\ cr3' = cr3 /\ pc' = context.eip /\ stacks' = newStacks
    /\ UNCHANGED <<stack, status>>
ResumePopped(context, d, newStacks) ==
    /\ cr3' = d /\ pc' = context.eip /\ stack' = StackIn(context.stack, d)
    /\ stacks' = [newStacks EXCEPT ![stack'] = SubSeq(@, 1, context.esp - 1)]
    /\ UNCHANGED status

\* The processor continues with a context, in directory d: the stack from
\* context.esp on and no further, at context.eip.
Resume(context, d, newStacks) ==
    LET on == StackIn(context.stack, d)
        found == /\ context.esp \in 1 .. Len(newStacks[on])
                 /\ newStacks[on][context.esp].fn = ResumedIn(context.eip)
    IN  /\ cr3' = d
        /\ pc' = context.eip
        /\ stack' = on
        /\ status' = IF found THEN "running" ELSE "lost"
        /\ stacks' = IF found
                     THEN [newStacks EXCEPT ![on] = SubSeq(@, 1, context.esp)]
                     ELSE newStacks

SavedAs(i, context) == [processList EXCEPT ![i].context = context]

\* Slip: no wrap to the first.
SuccessorStays(i) == IF i = Len(processList) THEN i ELSE i + 1

\* The process after i in the list, and the first after the last.
Successor(i) == IF i = Len(processList) THEN 1 ELSE i + 1

-----------------------------------------------------------------------------
(* The timer's interrupt.  Its gate and irq0 disable interrupts until the  *)
(* context switch enables them again: one step.  The PIC is acknowledged   *)
(* first, so the next one can come before this one has returned.  If       *)
(* currentProcess_ is null switchTask returns at once and nothing happens. *)

Nested(s) == Cardinality({k \in 1 .. Depth(s) : stacks[s][k].fn = "irq"})
AboveAnother(s) == IF Nested(s) = 0 THEN 0 ELSE Nested(s) - 1

\* Slip: the stack without switchTask's own frame.
SwitchedBelow(s, esp) == [stack |-> s, esp |-> esp - 1, eip |-> "switched"]

\* The context of switchTask's frame at depth esp of a stack, past get_eip.
SwitchedAt(s, esp) == [stack |-> s, esp |-> esp, eip |-> "switched"]

\* The stack an interrupt's frame goes to.  From user mode the processor
\* starts at esp0, whatever is below it.
InterruptStack == IF InUserMode THEN -esp0 ELSE stack

\* Between the save and the cli of a switchTask that a program called.
InProgramsSwitch == pc \in {"advance", "wrap", "load", "jump"}

Timer ==
    /\ "timer" \in Switching /\ (InProgramsSwitch => Racing)
    /\ status = "running" /\ current # Null
    /\ LET s == InterruptStack
           pushed == [stacks EXCEPT ![s] = (IF s = stack THEN @ ELSE <<>>)
                                       \o <<IrqFrame, SwitchFrame("handled")>>]
           saved == SavedAs(current, SwitchedAt(s, Len(pushed[s])))
           next == Successor(current)
       IN  /\ Nested(s) > 0 => MapThenSumSet(AboveAnother, StackNames) < MaxNested
           /\ processList' = saved
           /\ current' = next
           /\ pageDirectory' = saved[next].directory
           /\ Resume(saved[next].context, saved[next].directory, pushed)
    /\ UNCHANGED <<pidCounter, mode>>

\* switchTask returns, with DUMMY_EIP from get_eip; or the rest of the
\* interrupt's handlers and iret, to the program's stack if it was in user
\* mode.  The stack says where to.
Return ==
    /\ status = "running" /\ pc \in {"switched", "handled"}
    /\ pc' = Top.ret
    /\ stack' = IF Top.fn = "irq" /\ Top.user THEN cr3 ELSE stack
    /\ stacks' = [stacks EXCEPT ![stack] = Front(@)]
    /\ UNCHANGED <<processList, current, pidCounter, pageDirectory, cr3, status, mode>>

-----------------------------------------------------------------------------
(* switchTask called by a program, with interrupts enabled.                *)

CallSwitch ==
    /\ "program" \in Switching
    /\ status = "running" /\ pc = "main" /\ ~InUserMode
    /\ current # Null
    /\ stacks' = Push(<<SwitchFrame("main")>>)
    /\ pc' = "save"
    /\ UNCHANGED <<processList, current, pidCounter, pageDirectory, cr3, stack, status, mode>>

\* eip_, esp_ and ebp_ of currentProcess_.
Save ==
    /\ status = "running" /\ pc = "save"
    /\ processList' = SavedAs(current, SwitchedAt(stack, Depth(stack)))
    /\ pc' = "advance"
    /\ UNCHANGED <<current, pidCounter, pageDirectory, cr3, stack, stacks, status, mode>>

Advance ==
    /\ status = "running" /\ pc = "advance"
    /\ current' = IF current = Len(processList) THEN Null ELSE current + 1
    /\ pc' = "wrap"
    /\ UNCHANGED <<processList, pidCounter, pageDirectory, cr3, stack, stacks, status, mode>>

Wrap ==
    /\ status = "running" /\ pc = "wrap"
    /\ current' = IF current = Null THEN 1 ELSE current
    /\ pc' = "load"
    /\ UNCHANGED <<processList, pidCounter, pageDirectory, cr3, stack, stacks, status, mode>>

\* The context and the directory of the new currentProcess_.
Load ==
    /\ status = "running" /\ pc = "load"
    /\ LET process == processList[current]
       IN  /\ stacks' = [stacks EXCEPT ![stack] = Append(Front(@),
                            [Top EXCEPT !.context = process.context,
                                        !.directory = process.directory])]
           /\ pageDirectory' = process.directory
    /\ pc' = "jump"
    /\ UNCHANGED <<processList, current, pidCounter, cr3, stack, status, mode>>

\* From cli to the jump.  What was loaded is not needed any more.
Jump ==
    /\ status = "running" /\ pc = "jump"
    /\ Resume(Top.context, Top.directory,
              [stacks EXCEPT ![stack] = Append(Front(@), SwitchFrame("main"))])
    /\ UNCHANGED <<processList, current, pidCounter, pageDirectory, mode>>

-----------------------------------------------------------------------------
(* fork.                                                                   *)

\* The context the child starts with: the parent's frame of fork, which the
\* clone of the directory has copied, past get_eip.
ChildContext(esp) == [stack |-> stack, esp |-> esp, eip |-> "forked"]

\* Slips: fork returns the child's own pid in the child; the new process gets
\* the pid that was given last.
ReturnedOwnPid(result) ==
    Main(Append(stacks[stack][Depth(stack) - 1].history, processList[current].pid))
ChildPidAgain(counter) == counter - 1

\* Process(pidCounter_, pDir): the counter before it is incremented.
ChildPid(counter) == counter

\* What fork returns, to the frame of main below.
Returned(result) == Main(Append(stacks[stack][Depth(stack) - 1].history, result))

\* fork in the parent, from cli to sti: the clone is taken with fork's frame
\* on the stack, and the child is the last of the list.
Fork ==
    /\ status = "running" /\ pc = "main" /\ ~InUserMode
    /\ Len(processList) < MaxProcesses
    /\ LET child == Len(processList) + 1
           inFork == Push(<<ForkFrame>>)
       IN  /\ processList' = Append(processList,
                  [pid |-> ChildPid(pidCounter), directory |-> child,
                   context |-> ChildContext(Len(inFork[stack]))])
           /\ stacks' = [stacks EXCEPT
                  ![stack] = <<Main(Append(Top.history, ChildPid(pidCounter)))>>,
                  ![child] = inFork[pageDirectory]]
    /\ pidCounter' = pidCounter + 1
    /\ UNCHANGED <<current, pageDirectory, cr3, pc, stack, status, mode>>

\* fork in the child: 0, unless it takes itself for the parent and appends a
\* process that is not initialised.
ForkInChild ==
    /\ status = "running" /\ pc = "forked"
    /\ IF current = Top.parentProc
       THEN /\ status' = "lost"
            /\ UNCHANGED <<pc, stacks>>
       ELSE /\ stacks' = PopAs(Returned(0))
            /\ pc' = "main"
            /\ UNCHANGED status
    /\ UNCHANGED <<processList, current, pidCounter, pageDirectory, cr3, stack, mode>>

-----------------------------------------------------------------------------
\* switchToUserMode: 2048 bytes more below esp0, and iret to the program.
SwitchToUserMode ==
    /\ status = "running" /\ pc = "main" /\ cr3 \notin users
    /\ Cardinality(users) < MaxUsers
    /\ esp0' = esp0 + 1
    /\ users' = users \cup {cr3}
    /\ UNCHANGED <<processList, current, pidCounter, pageDirectory, processor>>

-----------------------------------------------------------------------------
\* An exception or a system call: fault_handler and system_call_handler end
\* in for(;;), with interrupts disabled.
Fault ==
    /\ status = "running" /\ pc = "main"
    /\ status' = "stopped"
    /\ UNCHANGED <<processList, current, pidCounter, pageDirectory, cr3, pc, stack, stacks,
                   mode>>

\* Sheduler::init, with the stack it moved to.
Init ==
    /\ processList = <<[pid |-> 1, directory |-> InitialSpace, context |-> NoContext]>>
    /\ current = 1
    /\ pidCounter = 2
    /\ pageDirectory = InitialSpace
    /\ cr3 = InitialSpace
    /\ pc = "main"
    /\ stack = InitialSpace
    /\ stacks = [s \in StackNames |-> IF s = InitialSpace THEN <<Main(<<>>)>> ELSE <<>>]
    /\ users = {} /\ esp0 = 0
    /\ status = "running"

\* The steps a function takes once it is called.
Proceed ==
    \/ Return
    \/ Save \/ Advance \/ Wrap \/ Load \/ Jump
    \/ ForkInChild

Next == Timer \/ Proceed \/ CallSwitch \/ Fork \/ SwitchToUserMode \/ Fault

Spec == Init /\ [][Next]_vars

\* A step of the process of directory d with n interrupts on its stack: to
\* where it was interrupted, or on in what its own program called.
Unwind(d, n) == cr3 = d /\ Nested(stack) = n /\ Proceed

\* The timer goes on ticking, the processor goes on executing, and the timer
\* does not interrupt a process at the same instruction for ever.
FairSpec ==
    /\ Spec
    /\ WF_vars(Timer) /\ WF_vars(Proceed)
    /\ \A d \in 1 .. MaxProcesses, n \in 0 .. MaxNested : SF_vars(Unwind(d, n))
=============================================================================
