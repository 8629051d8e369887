------------------------ MODULE InterruptsProperties ------------------------
(***************************************************************************)
(* What must hold of interrupts, over the actions of module Interrupts.    *)
(***************************************************************************)
EXTENDS Interrupts

FrameType ==
    [vector : Installed, number : Installed,
     at : {"entered", "slave", "acknowledged", "leaving", "fault"}]

\* Every variable stays in its range, and handlers run on the stacks of
\* processes.
TypeOK ==
    /\ pic \in [master : Controller, slave : Controller]
    /\ boot \in 1 .. Len(IcwWrites) + 1
    /\ interruptFlag \in BOOLEAN
    /\ current \in Process
    /\ frames \in [Process -> Seq(FrameType)]
    /\ raises \in [Devices -> 0 .. MaxRaises]
    /\ early \in 0 .. MaxEarly
    /\ status \in {"booting", "running", "halted"}

\* A handler is told the line that asked, or the exception that happened: the
\* controllers' vectors as programmed, the gates as packed, and the numbers
\* the stubs push agree (idt_install, interrupt.S).
NumberIsVector ==
    \A p \in Process : \A i \in DOMAIN frames[p] :
        frames[p][i].number = frames[p][i].vector

\* Whenever interrupts are enabled, the master has nothing in service: none of its
\* lines is locked out by one whose handler was left, not even after an interrupt
\* of the slave, for which irq_handler writes both acknowledgements to the
\* master's port.  The slave's own lines do stay in service, as it gets none.
MasterAcknowledged == interruptFlag => pic.master.isr = {}

\* Only ticks are interrupted: of the frames of a stack, all below the top are
\* the timer's on their way back, and so are those of processes that wait.
\* There are no more than one, and one for each tick that came too early
\* (irq_handler acknowledges before the callback, which enables interrupts).
OnlyTicksNest ==
    \A p \in Process :
        LET nested == IF p = current /\ frames[p] # <<>> THEN Front(frames[p])
                      ELSE frames[p]
        IN  /\ \A i \in DOMAIN nested :
                    nested[i].number = 32 /\ nested[i].at = "leaving"
            /\ Len(nested) <= 1 + early

\* Ticks take the processor around to every process, for as long as no program
\* runs into an exception, whatever other interrupts come in between.
TicksReachAll ==
    \A p \in Process : []<>(current = p \/ status = "halted")
=============================================================================
