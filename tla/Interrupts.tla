----------------------------- MODULE Interrupts -----------------------------
(***************************************************************************)
(* Interrupts from the device to the handler and back: the two interrupt   *)
(* controllers as idt_install programs and irq_handler acknowledges them,  *)
(* the gates of the IDT, the stubs of interrupt.S, irq_handler with the    *)
(* timer's callback, and fault_handler.                                    *)
(*                                                                         *)
(* The controllers and the processor are external: what they make of the   *)
(* kernel's port writes and descriptors.  The timer's callback is seen as  *)
(* what it does to interrupts: it ends in another process, with interrupts *)
(* enabled.  (Module Sheduler is about what happens to the processes.)     *)
(*                                                                         *)
(* Definitions marked as slips are small mistakes of the kind the          *)
(* properties are there to catch; the model does not use them.             *)
(***************************************************************************)
EXTENDS Integers, Sequences, SequencesExt

CONSTANTS
    N,              \* processes are 0 .. N - 1, in the order of the list
    Devices,        \* lines that raise interrupts, beside the timer's line 0
    Faults,         \* exceptions that programs run into, and the system call
    Stub,           \* addresses of isr0 .. isr31, irq0 .. irq15, isr128
    MaxRaises,      \* bound: how often each device raises its line
    MaxEarly        \* bound: how many ticks come before the handler of another
                    \* interrupt has returned

Process == 0 .. N - 1
Line == 0 .. 7

\* Vectors that idt_install installs.
Installed == 0 .. 47 \cup {128}

ASSUME InterruptsAssumption ==
    /\ N \in Nat \ {0}
    /\ Devices \subseteq 1 .. 15 \ {2}
    /\ Faults \subseteq 0 .. 31 \cup {128}
    /\ Stub \in [Installed -> Nat]
    /\ \A v \in Installed : Stub[v] \div 65536 < 65536
    /\ \A v, w \in Installed : Stub[v] = Stub[w] => v = w
    /\ MaxRaises \in Nat /\ MaxEarly \in Nat

VARIABLES
    pic,            \* the controllers
    boot,           \* the next write of idt_install
    interruptFlag,  \* IF
    current,        \* the process that runs
    frames,         \* per process: interrupt frames of its stack, the top last
    raises,         \* how often each device has raised its line
    early,          \* how many ticks came while a handler ran
    status          \* "booting", "running", "halted" by an exception

vars == <<pic, boot, interruptFlag, current, frames, raises, early, status>>

-----------------------------------------------------------------------------
(* An interrupt controller (8259).                                         *)

Controller ==
    [irr : SUBSET Line,             \* raised
     isr : SUBSET Line,             \* in service
     mask : SUBSET Line,
     lowest : Line,                 \* the line of lowest priority
     offset : 0 .. 255,
     expects : {"nothing", "icw2", "icw3", "icw4"}]

Rank(c, line) == (line - c.lowest - 1) % 8
First(c, lines) == CHOOSE l \in lines : \A k \in lines : Rank(c, l) <= Rank(c, k)

\* Lines it asks the processor for: none of lower priority than one in service.
Requests(c) ==
    {l \in c.irr \ c.mask : \A s \in c.isr : Rank(c, l) < Rank(c, s)}

EndOfInterrupt(c) ==
    IF c.isr = {} THEN c ELSE [c EXCEPT !.isr = @ \ {First(c, c.isr)}]

\* End of interrupt; the line gets the lowest priority.
Rotate(c) ==
    IF c.isr = {} THEN c
    ELSE [c EXCEPT !.isr = @ \ {First(c, c.isr)}, !.lowest = First(c, c.isr)]

Reset(c) ==
    [c EXCEPT !.irr = {}, !.isr = {}, !.mask = {}, !.lowest = 7, !.expects = "icw2"]

Command(c, value) ==
    CASE value = \h11 -> Reset(c)
      [] value = \h20 -> EndOfInterrupt(c)
      [] value = \hA0 -> Rotate(c)

\* The cascade is as ICW3 of both says.
Data(c, value) ==
    CASE c.expects = "icw2" -> [c EXCEPT !.offset = value, !.expects = "icw3"]
      [] c.expects = "icw3" -> [c EXCEPT !.expects = "icw4"]
      [] c.expects = "icw4" -> [c EXCEPT !.expects = "nothing"]
      [] c.expects = "nothing" ->
            [c EXCEPT !.mask = {l \in Line : (value \div 2 ^ l) % 2 = 1}]

\* outb: ports 20 and 21 are the master's, A0 and A1 the slave's.
Written(port, value) ==
    CASE port = \h20 -> [pic EXCEPT !.master = Command(@, value)]
      [] port = \h21 -> [pic EXCEPT !.master = Data(@, value)]
      [] port = \hA0 -> [pic EXCEPT !.slave = Command(@, value)]
      [] port = \hA1 -> [pic EXCEPT !.slave = Data(@, value)]

\* The master with the slave on line 2, and the line the processor is given.
Master == [pic.master EXCEPT !.irr = @ \cup {l \in {2} : Requests(pic.slave) # {}}]
Chosen == First(Master, Requests(Master))
ChosenOfSlave == First(pic.slave, Requests(pic.slave))

Serve(c, line) == [c EXCEPT !.irr = @ \ {line}, !.isr = @ \cup {line}]

-----------------------------------------------------------------------------
(* Boot: idt_install.                                                      *)

\* Slip: both controllers at the same vectors.
IcwWritesOneBase ==
    << <<\h20, \h11>>, <<\hA0, \h11>>, <<\h21, \h20>>, <<\hA1, \h20>>,
       <<\h21, \h04>>, <<\hA1, \h02>>, <<\h21, \h01>>, <<\hA1, \h01>>,
       <<\h21, \h00>>, <<\hA1, \h00>> >>

IcwWrites ==
    << <<\h20, \h11>>, <<\hA0, \h11>>, <<\h21, \h20>>, <<\hA1, \h28>>,
       <<\h21, \h04>>, <<\hA1, \h02>>, <<\h21, \h01>>, <<\hA1, \h01>>,
       <<\h21, \h00>>, <<\hA1, \h00>> >>

\* IdtDescriptor::setIdtDescriptor.
Descriptor(offset, selector, flags) ==
    [limitLow |-> offset % 2 ^ 16, baseLow |-> selector, baseMiddle |-> 0,
     access |-> flags, granularity |-> (offset \div 2 ^ 16) % 2 ^ 8,
     baseHigh |-> (offset \div 2 ^ 24) % 2 ^ 8]

Idt(v) == Descriptor(Stub[v], \h08, IF v = 128 THEN \hEE ELSE \h8E)

\* Where the processor goes through a gate.
Offset(g) == g.limitLow + g.granularity * 2 ^ 16 + g.baseHigh * 2 ^ 24

\* The numbers that the stubs behind the gates push: their own.
Number ==
    [v \in Installed |->
        LET address == Offset(Idt(v)) IN CHOOSE n \in Installed : Stub[n] = address]

Install ==
    /\ boot <= Len(IcwWrites)
    /\ pic' = Written(IcwWrites[boot][1], IcwWrites[boot][2])
    /\ boot' = boot + 1
    /\ UNCHANGED <<interruptFlag, current, frames, raises, early, status>>

\* Sheduler::init: the first sti.  The timer's handler is registered, and all
\* processes are there from now on; module Sheduler forks them.
Sti ==
    /\ boot > Len(IcwWrites) /\ status = "booting"
    /\ status' = "running"
    /\ interruptFlag' = TRUE
    /\ UNCHANGED <<pic, boot, current, frames, raises, early>>

-----------------------------------------------------------------------------
(* Interrupts.                                                             *)

\* A device raises its line: the timer whenever its last tick was taken.
Raise(line) ==
    /\ IF line = 0
       THEN /\ early' = IF frames[current] = <<>> THEN early ELSE early + 1
            /\ early' <= MaxEarly
            /\ UNCHANGED raises
       ELSE /\ raises[line] < MaxRaises
            /\ raises' = [raises EXCEPT ![line] = @ + 1]
            /\ UNCHANGED early
    /\ IF line < 8
       THEN /\ line \notin pic.master.irr
            /\ pic' = [pic EXCEPT !.master.irr = @ \cup {line}]
       ELSE /\ line - 8 \notin pic.slave.irr
            /\ pic' = [pic EXCEPT !.slave.irr = @ \cup {line - 8}]
    /\ UNCHANGED <<boot, interruptFlag, current, frames, status>>

\* A frame: the vector that was meant, the number the handler is given, and
\* where in the handler it is.
Frame(v, number, at) == [vector |-> v, number |-> number, at |-> at]
Push(frame) == frames' = [frames EXCEPT ![current] = Append(@, frame)]

\* The processor takes an interrupt, through the gate and the stub.
Accept ==
    /\ interruptFlag /\ Requests(Master) # {}
    /\ LET vector == IF Chosen = 2 THEN pic.slave.offset + ChosenOfSlave
                     ELSE pic.master.offset + Chosen
           line == IF Chosen = 2 THEN 8 + ChosenOfSlave ELSE Chosen
       IN  Push(Frame(32 + line, Number[vector], "entered"))
    /\ pic' = [master |-> Serve(pic.master, Chosen),
               slave |-> IF Chosen = 2 THEN Serve(pic.slave, ChosenOfSlave)
                         ELSE pic.slave]
    /\ interruptFlag' = FALSE
    /\ UNCHANGED <<boot, current, raises, early, status>>

InHandler(at) ==
    /\ status = "running" /\ frames[current] # <<>>
    /\ Last(frames[current]).at = at

Top == Last(frames[current])
GoOn(at) ==
    frames' = [frames EXCEPT ![current] = [@ EXCEPT ![Len(@)] = [Top EXCEPT !.at = at]]]

\* if (r.int_number >= 40): what is called the slave goes to the master's port.
AcknowledgeSlave ==
    /\ InHandler("entered")
    /\ pic' = IF Top.number >= 40 THEN Written(\h20, \hA0) ELSE pic
    /\ GoOn("slave")
    /\ UNCHANGED <<boot, interruptFlag, current, raises, early, status>>

\* Slip: only interrupts with a handler are acknowledged.
AcknowledgeTick ==
    /\ InHandler("slave")
    /\ pic' = IF Top.number = 32 THEN Written(\h20, \h20) ELSE pic
    /\ GoOn("acknowledged")
    /\ UNCHANGED <<boot, interruptFlag, current, raises, early, status>>

\* Slip: interrupts are enabled again once this one is acknowledged.
AcknowledgeSti ==
    /\ InHandler("slave")
    /\ pic' = Written(\h20, \h20)
    /\ GoOn("acknowledged")
    /\ interruptFlag' = TRUE
    /\ UNCHANGED <<boot, current, raises, early, status>>

AcknowledgeMaster ==
    /\ InHandler("slave")
    /\ pic' = Written(\h20, \h20)
    /\ GoOn("acknowledged")
    /\ UNCHANGED <<boot, interruptFlag, current, raises, early, status>>

\* Slip: irq_handlers is indexed with the number itself.
HasHandlerUnshifted(number) == number = 0

\* r.int_number == 32 && irq_handlers[r.int_number - 32] != 0
HasHandler(number) == number = 32

\* Interrupts without a handler.
NoCallback ==
    /\ InHandler("acknowledged") /\ ~HasHandler(Top.number)
    /\ GoOn("leaving")
    /\ UNCHANGED <<pic, boot, interruptFlag, current, raises, early, status>>

\* Slip: nobody behind the last process.
SuccessorUnwrapped(p) == p + 1

Successor(p) == (p + 1) % N

\* pic_timer_callback: switchTask saves this process and resumes the next,
\* where that was switched away or in fork, with sti.
Callback ==
    /\ InHandler("acknowledged") /\ HasHandler(Top.number)
    /\ GoOn("leaving")
    /\ current' = Successor(current)
    /\ interruptFlag' = TRUE
    /\ UNCHANGED <<pic, boot, raises, early, status>>

\* The end of irq_handler and of the stub: sti, iret.
Leave ==
    /\ InHandler("leaving")
    /\ frames' = [frames EXCEPT ![current] = Front(@)]
    /\ interruptFlag' = TRUE
    /\ UNCHANGED <<pic, boot, current, raises, early, status>>

\* An exception or a system call of a program: whatever its handler does, it
\* ends in for(;;) with interrupts disabled.
FaultHandler(v) ==
    /\ status = "running" /\ frames[current] = <<>>
    /\ Push(Frame(v, Number[v], "fault"))
    /\ status' = "halted"
    /\ interruptFlag' = FALSE
    /\ UNCHANGED <<pic, boot, current, raises, early>>

\* Lines may be raised, masked, or in service still.
LeftByBios ==
    [irr : {{}, {1}}, isr : {{}, {0}}, mask : {Line}, lowest : {7},
     offset : {8}, expects : {"nothing"}]

\* loader.S, after cli.
Init ==
    /\ pic \in [master : LeftByBios, slave : LeftByBios]
    /\ boot = 1
    /\ interruptFlag = FALSE
    /\ current = 0
    /\ frames = [p \in Process |-> <<>>]
    /\ raises = [d \in Devices |-> 0]
    /\ early = 0
    /\ status = "booting"

Handle == AcknowledgeSlave \/ AcknowledgeMaster \/ NoCallback \/ Callback \/ Leave

Next ==
    \/ Install \/ Sti
    \/ \E line \in {0} \cup Devices : Raise(line)
    \/ Accept \/ Handle
    \/ \E v \in Faults : FaultHandler(v)

\* The timer goes on, and the processor goes on with what it is doing.
Fairness ==
    /\ WF_vars(Install) /\ WF_vars(Sti)
    /\ WF_vars(Raise(0)) /\ WF_vars(Accept) /\ WF_vars(Handle)

Spec == Init /\ [][Next]_vars
FairSpec == Spec /\ Fairness
=============================================================================
