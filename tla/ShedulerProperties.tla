------------------------- MODULE ShedulerProperties -------------------------
(***************************************************************************)
(* What must hold of the scheduler, over the actions of Sheduler.          *)
(***************************************************************************)
EXTENDS Sheduler

Positions == 1 .. Len(processList)
Points == {"main", "save", "advance", "wrap", "load", "jump",
           "switched", "handled", "forked", "none"}

\* The variables stay in their ranges and no two processes have the same pid
\* or the same directory.
TypeOK ==
    /\ current \in Positions \cup {Null}
    /\ \A i \in Positions : processList[i].pid \in 1 .. pidCounter - 1
    /\ \A i, j \in Positions : i # j =>
          /\ processList[i].pid # processList[j].pid
          /\ processList[i].directory # processList[j].directory
    /\ Len(processList) <= MaxProcesses /\ esp0 \in 0 .. MaxUsers
    /\ {pageDirectory, cr3} \cup users \subseteq Positions
    /\ pc \in Points
    /\ \A d \in Positions : stacks[d][1].fn = "main"
    /\ stack \in {cr3} \cup {-k : k \in 1 .. esp0}
    /\ status \in {"running", "stopped", "lost"}

\* A process that does not run can be resumed: its PCB names the end of a
\* stack, its own or one of the TSS's, and a point of the function found there;
\* and the registers that interrupts have left on that stack are its own.
Resumable ==
    \A i \in Positions :
        LET p == processList[i]
            frames == stacks[StackIn(p.context.stack, p.directory)]
        IN  p.directory # cr3 =>
               /\ p.context.esp = Len(frames)
               /\ Last(frames).fn = ResumedIn(p.context.eip)
               /\ \A k \in DOMAIN frames :
                     frames[k].fn = "irq" => frames[k].registers = p.directory

\* In a window of switchTask currentProcess_ is not the process that runs.
InWindow == pc \in {"wrap", "load", "jump"}

\* Outside of it currentProcess_, currentPageDirectory_ and cr3 agree: what
\* fork clones and getPage maps is the running process's.
RunningIsCurrent ==
    status = "running" /\ ~InWindow =>
        /\ current # Null
        /\ processList[current].directory = cr3
        /\ pageDirectory = cr3

\* No step changes a stack of a process that does not run, neither its own nor
\* the one it was interrupted on: a process finds its stacks as it left them.
StacksPrivate ==
    [][\A i \in Positions :
          LET p == processList[i]
          IN  p.directory # cr3 =>
                 \A s \in {p.directory, StackIn(p.context.stack, p.directory)} :
                    stacks'[s] = stacks[s]]_vars

\* "this eip goes for child process start": a process that has not returned
\* from fork yet has fork's eip in its PCB.
ChildStarts ==
    \A i \in Positions :
        LET p == processList[i]
        IN  p.directory # cr3 /\ Last(stacks[p.directory]).fn = "fork" =>
               p.context.eip = "forked"

\* Every process gets to its own program again and again, unless an exception
\* or a system call has stopped the processor.
TurnsTaken ==
    \A i \in 1 .. MaxProcesses :
        Len(processList) >= i ~>
            \/ status = "stopped"
            \/ i \in Positions /\ processList[i].directory = cr3 /\ pc = "main"

-----------------------------------------------------------------------------
(* The processes as their programs see them.                               *)

PositionOf(d) == CHOOSE i \in Positions : processList[i].directory = d

\* What fork has returned to a process: a child that is still in fork has as
\* good as got its 0.
HistoryOf(d) ==
    LET seen == stacks[d][1].history
    IN  IF \E k \in DOMAIN stacks[d] : stacks[d][k].fn = "fork"
        THEN Append(seen, 0) ELSE seen

DirectoryOf(pid) ==
    processList[CHOOSE i \in Positions : processList[i].pid = pid].directory

Abstract == INSTANCE Processes WITH
    Pids <- 1 .. MaxProcesses,
    First <- 1,
    history <- [pid \in {processList[i].pid : i \in Positions} |->
                   HistoryOf(DirectoryOf(pid))],
    running <- processList[PositionOf(cr3)].pid

\* The scheduler keeps the promise.
ImplementsProcesses == Abstract!Spec
=============================================================================
