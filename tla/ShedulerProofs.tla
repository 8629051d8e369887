--------------------------- MODULE ShedulerProofs ---------------------------
(***************************************************************************)
(* What is proved of the scheduler, for any number of processes, of nested *)
(* interrupts and of processes in user mode, as long as no interrupt comes *)
(* between the save and the cli of a switchTask that a program called      *)
(* (Racing = FALSE).  Without that neither holds.                          *)
(*                                                                         *)
(* The invariant describes stacks from the bottom: which function a frame  *)
(* may lie on, given the point it returns to.  So a return always arrives  *)
(* in a frame of the function that its address belongs to, and a resumed   *)
(* process goes on in one.                                                 *)
(***************************************************************************)
EXTENDS ShedulerProperties, FiniteSetTheorems,
        SequenceTheorems, TLAPS

-----------------------------------------------------------------------------
(* The invariant.                                                          *)

Context ==
    [stack : StackNames, esp : Nat, eip : {"none", "switched", "forked"}]

Pcb == [pid : Nat, directory : Nat, context : Context]

Frame ==
    [fn : {"main"}, history : Seq(Nat)]
    \cup [fn : {"fork"}, parentProc : Nat]
    \cup [fn : {"switchTask"}, ret : {"main", "handled"}, context : Context,
          directory : Nat]
    \cup [fn : {"irq"}, ret : Points, user : BOOLEAN, registers : Nat]

\* Points of switchTask that only programs' calls get to.
ProgramsSwitch == {"save", "advance", "wrap", "load", "jump"}

\* The frame is of the function that the point belongs to.
InFunction(point, frame) ==
    \/ point = "main" /\ frame.fn = "main"
    \/ point \in ProgramsSwitch /\ frame.fn = "switchTask" /\ frame.ret = "main"
    \/ point = "switched" /\ frame.fn = "switchTask"
    \/ point = "handled" /\ frame.fn = "irq"
    \/ point = "forked" /\ frame.fn = "fork"

\* What an interrupt may return to.
Interruptible == {"main", "save", "switched", "handled", "forked"}

\* What the k-th frame of a stack lies on.
Laid(frames, k) ==
    /\ frames[k].fn = "main" => k = 1
    /\ frames[k].fn = "fork" => k = 2 /\ frames[k - 1].fn = "main"
    /\ frames[k].fn = "switchTask" =>
          /\ frames[k].ret \in {"main", "handled"}
          /\ k > 1 /\ InFunction(frames[k].ret, frames[k - 1])
    /\ frames[k].fn = "irq" =>
          /\ frames[k].ret \in Interruptible
          /\ frames[k].user => k = 1 /\ frames[k].ret = "main"
          /\ ~frames[k].user => k > 1 /\ InFunction(frames[k].ret, frames[k - 1])

Shape(frames) == \A k \in 1 .. Len(frames) : Laid(frames, k)

\* Stacks ss of n processes, those of them in us in user mode: main lies below
\* everything on a process's own stack and nowhere else, and from user mode
\* nothing is pushed on it.
Sound(ss, n, us) ==
    /\ ss \in [StackNames -> Seq(Frame)]
    /\ \A s \in StackNames : Shape(ss[s])
    /\ \A d \in 1 .. n : Len(ss[d]) > 0 /\ ss[d][1].fn = "main"
    /\ \A s \in StackNames :
          s < 0 /\ Len(ss[s]) > 0 => ss[s][1].fn # "main"
    /\ \A d \in us : Len(ss[d]) = 1

\* A context that can be resumed or is found to be none.
GoodContext(context, d) ==
    /\ context \in Context
    /\ context.eip = "none" => context.esp = 0
    /\ context.stack # 0
    /\ context.stack < 0 => d \in users /\ -esp0 <= context.stack

Typed ==
    /\ processList \in Seq(Pcb)
    /\ Len(processList) \in 1 .. MaxProcesses
    /\ current \in 0 .. Len(processList)
    /\ pidCounter = Len(processList) + 1
    /\ pageDirectory \in Positions
    /\ cr3 \in Positions
    /\ pc \in Points
    /\ users \subseteq Positions
    /\ esp0 = Cardinality(users) /\ esp0 <= MaxUsers
    /\ status \in {"running", "stopped", "lost"}

Listed ==
    \A i \in Positions :
        /\ processList[i].pid = i
        /\ processList[i].directory = i
        /\ GoodContext(processList[i].context, i)

Stacked == Sound(stacks, Len(processList), users)

Placed == stack = cr3 \/ (stack \in -esp0 .. -1 /\ cr3 \in users)

\* The running function's frame is the top one, and who runs is known.
Running ==
    status = "running" =>
        /\ Len(stacks[stack]) > 0 /\ InFunction(pc, Top)
        /\ ~InWindow => current = cr3 /\ pageDirectory = cr3
        /\ pc \in {"load", "jump"} => current # Null
        /\ pc = "jump" =>
              /\ Top.directory = current /\ pageDirectory = current
              /\ GoodContext(Top.context, current)

IInv == Typed /\ Listed /\ Stacked /\ Placed /\ Running

-----------------------------------------------------------------------------
(* Stacks.                                                                 *)

\* What is left of a stack that is cut is a stack.
LEMMA Prefix ==
    ASSUME NEW frames \in Seq(Frame), Shape(frames), NEW n \in 0 .. Len(frames)
    PROVE  /\ SubSeq(frames, 1, n) \in Seq(Frame)
           /\ Len(SubSeq(frames, 1, n)) = n
           /\ \A k \in 1 .. n : SubSeq(frames, 1, n)[k] = frames[k]
           /\ Shape(SubSeq(frames, 1, n))
<1> DEFINE cut == SubSeq(frames, 1, n)
<1>1. cut \in Seq(Frame) /\ Len(cut) = n /\ \A k \in 1 .. n : cut[k] = frames[k]
    OBVIOUS
<1> HIDE DEF cut
<1>2. ASSUME NEW k \in 1 .. n
      PROVE  Laid(cut, k)
    <2>1. Laid(frames, k)
        BY DEF Shape
    <2>2. cut[k] = frames[k] /\ (k > 1 => cut[k - 1] = frames[k - 1])
        BY <1>1
    <2> QED
        BY <2>1, <2>2 DEF Laid
<1>3. Shape(cut)
    BY <1>1, <1>2 DEF Shape
<1> QED
    BY <1>1, <1>3 DEF cut

LEMMA Appended ==
    ASSUME NEW frames \in Seq(Frame), NEW f \in Frame
    PROVE  /\ Append(frames, f) \in Seq(Frame)
           /\ frames \o <<f>> = Append(frames, f)
           /\ Len(Append(frames, f)) = Len(frames) + 1
           /\ \A k \in 1 .. Len(frames) : Append(frames, f)[k] = frames[k]
           /\ Append(frames, f)[Len(frames) + 1] = f
    OBVIOUS

\* A frame that lies well on a stack makes a stack with it.
LEMMA Pushed ==
    ASSUME NEW frames \in Seq(Frame), Shape(frames), NEW f \in Frame,
           Laid(Append(frames, f), Len(frames) + 1)
    PROVE  /\ Append(frames, f) \in Seq(Frame)
           /\ Len(Append(frames, f)) = Len(frames) + 1
           /\ \A k \in 1 .. Len(frames) : Append(frames, f)[k] = frames[k]
           /\ Append(frames, f)[Len(frames) + 1] = f
           /\ Shape(Append(frames, f))
<1> DEFINE more == Append(frames, f)
<1>1. /\ more \in Seq(Frame) /\ Len(more) = Len(frames) + 1
      /\ \A k \in 1 .. Len(frames) : more[k] = frames[k]
      /\ more[Len(frames) + 1] = f
    OBVIOUS
<1>2. Laid(more, Len(frames) + 1)
    OBVIOUS
<1> HIDE DEF more
<1>3. ASSUME NEW k \in 1 .. Len(frames)
      PROVE  Laid(more, k)
    <2>1. Laid(frames, k)
        BY DEF Shape
    <2>2. more[k] = frames[k] /\ (k > 1 => more[k - 1] = frames[k - 1])
        BY <1>1
    <2> QED
        BY <2>1, <2>2 DEF Laid
<1>4. Shape(more)
    BY <1>1, <1>2, <1>3 DEF Shape
<1> QED
    BY <1>1, <1>4 DEF more

\* Stacks stay sound when one of them is replaced by a sound one.
LEMMA Replaced ==
    ASSUME NEW ss, NEW n \in 1 .. MaxProcesses, NEW us \in SUBSET (1 .. n),
           Sound(ss, n, us),
           NEW on \in StackNames, NEW frames \in Seq(Frame), Shape(frames),
           on \in 1 .. n => Len(frames) > 0 /\ frames[1].fn = "main",
           on < 0 /\ Len(frames) > 0 => frames[1].fn # "main",
           on \in us => Len(frames) = 1
    PROVE  Sound([ss EXCEPT ![on] = frames], n, us)
<1> USE ShedulerAssumption DEF StackNames
<1> DEFINE new == [ss EXCEPT ![on] = frames]
<1>1. ss \in [StackNames -> Seq(Frame)]
    BY DEF Sound
<1>2. new \in [StackNames -> Seq(Frame)] /\ new[on] = frames
      /\ \A s \in StackNames : s # on => new[s] = ss[s]
    BY <1>1
<1> HIDE DEF new
<1>3. \A s \in StackNames : Shape(new[s])
    BY <1>2 DEF Sound
<1>4. \A d \in 1 .. n : Len(new[d]) > 0 /\ new[d][1].fn = "main"
    <2> TAKE d \in 1 .. n
    <2>1. d \in StackNames
        OBVIOUS
    <2>2. CASE d = on
        BY <2>2, <1>2
    <2>3. CASE d # on
        <3>1. new[d] = ss[d]
            BY <1>2, <2>1, <2>3
        <3> QED
            BY <3>1 DEF Sound
    <2> QED
        BY <2>2, <2>3
<1>5. \A s \in StackNames :
          s < 0 /\ Len(new[s]) > 0 => new[s][1].fn # "main"
    BY <1>2 DEF Sound
<1>6. \A d \in us : Len(new[d]) = 1
    <2> TAKE d \in us
    <2>1. d \in StackNames
        OBVIOUS
    <2>2. CASE d = on
        BY <2>2, <1>2
    <2>3. CASE d # on
        BY <1>2, <2>1, <2>3 DEF Sound
    <2> QED
        BY <2>2, <2>3
<1>7. Sound(new, n, us)
    BY <1>2, <1>3, <1>4, <1>5, <1>6 DEF Sound
<1> QED
    BY <1>7 DEF new

\* Stacks stay sound when one of them is cut to at least one frame.
LEMMA Cut ==
    ASSUME NEW ss, NEW n \in 1 .. MaxProcesses, NEW us \in SUBSET (1 .. n),
           Sound(ss, n, us),
           NEW on \in StackNames, NEW esp \in 1 .. Len(ss[on])
    PROVE  /\ Sound([ss EXCEPT ![on] = SubSeq(@, 1, esp)], n, us)
           /\ Len(SubSeq(ss[on], 1, esp)) = esp
           /\ SubSeq(ss[on], 1, esp)[esp] = ss[on][esp]
<1> USE ShedulerAssumption DEF StackNames
<1>1. ss[on] \in Seq(Frame) /\ Shape(ss[on])
    BY DEF Sound
<1> DEFINE cut == SubSeq(ss[on], 1, esp)
<1>2. cut \in Seq(Frame) /\ Shape(cut) /\ Len(cut) = esp
      /\ \A k \in 1 .. esp : cut[k] = ss[on][k]
    BY <1>1, Prefix
<1> HIDE DEF cut
<1>3. on \in 1 .. n => Len(cut) > 0 /\ cut[1].fn = "main"
    BY <1>2 DEF Sound
<1>4. on < 0 /\ Len(cut) > 0 => cut[1].fn # "main"
    <2>1. cut[1] = ss[on][1] /\ Len(ss[on]) > 0
        BY <1>1, <1>2
    <2> QED
        BY <2>1 DEF Sound
<1>5. on \in us => Len(cut) = 1
    BY <1>2 DEF Sound
<1>6. Sound([ss EXCEPT ![on] = cut], n, us)
    BY <1>2, <1>3, <1>4, <1>5, Replaced
<1> QED
    BY <1>2, <1>6 DEF cut

\* An interrupt's frames on a stack: where it came from, and switchTask's.
LEMMA Interrupted ==
    ASSUME NEW base \in Seq(Frame), Shape(base),
           NEW irq \in Frame, irq.fn = "irq",
           NEW switch \in Frame, switch.fn = "switchTask", switch.ret = "handled",
           Laid(Append(base, irq), Len(base) + 1)
    PROVE  /\ base \o <<irq, switch>> \in Seq(Frame)
           /\ Len(base \o <<irq, switch>>) = Len(base) + 2
           /\ (base \o <<irq, switch>>)[1] = IF Len(base) = 0 THEN irq ELSE base[1]
           /\ Shape(base \o <<irq, switch>>)
<1> DEFINE one == Append(base, irq)
           two == Append(one, switch)
<1>1. /\ one \in Seq(Frame) /\ Len(one) = Len(base) + 1
      /\ \A k \in 1 .. Len(base) : one[k] = base[k]
      /\ one[Len(base) + 1] = irq /\ Shape(one)
    BY Pushed
<1>2. base \o <<irq, switch>> = two
    OBVIOUS
<1> HIDE DEF one
<1>3. two[Len(one) + 1] = switch /\ two[Len(one)] = irq
    BY <1>1
<1>4. Laid(two, Len(one) + 1)
    BY <1>1, <1>3 DEF Laid, InFunction, ProgramsSwitch
<1>5. /\ two \in Seq(Frame) /\ Len(two) = Len(one) + 1
      /\ \A k \in 1 .. Len(one) : two[k] = one[k]
      /\ Shape(two)
    BY <1>1, <1>4, Pushed
<1> HIDE DEF two
<1>6. two[1] = IF Len(base) = 0 THEN irq ELSE base[1]
    BY <1>1, <1>5
<1>7. Len(two) = Len(base) + 2
    BY <1>1, <1>5
<1> QED
    BY <1>2, <1>5, <1>6, <1>7, Zenon

-----------------------------------------------------------------------------
(* Contexts.                                                               *)

\* Saving a good context in a PCB leaves a list of good ones.
LEMMA Saved ==
    ASSUME Typed, Listed, NEW i \in Positions, NEW context, GoodContext(context, i)
    PROVE  /\ SavedAs(i, context) \in Seq(Pcb)
           /\ Len(SavedAs(i, context)) = Len(processList)
           /\ \A j \in Positions :
                 /\ SavedAs(i, context)[j].pid = j
                 /\ SavedAs(i, context)[j].directory = j
                 /\ GoodContext(SavedAs(i, context)[j].context, j)
<1> DEFINE saved == SavedAs(i, context)
<1>1. processList \in Seq(Pcb) /\ context \in Context
    BY DEF Typed, GoodContext
<1>2. processList[i] \in Pcb
    BY <1>1 DEF Positions
<1> DEFINE pcb == [processList[i] EXCEPT !.context = context]
<1>3. pcb \in Pcb
    BY <1>1, <1>2 DEF Pcb
<1>4. saved = [processList EXCEPT ![i] = pcb]
    BY DEF SavedAs
<1> HIDE DEF saved, pcb
<1>5. saved \in Seq(Pcb) /\ Len(saved) = Len(processList)
    BY <1>1, <1>3, <1>4, ExceptSeq DEF Positions
<1>6. ASSUME NEW j \in Positions
      PROVE  /\ saved[j].pid = j /\ saved[j].directory = j
             /\ GoodContext(saved[j].context, j)
    <2>1. CASE j = i
        <3>1. saved[j] = pcb
            BY <1>1, <1>4, <2>1 DEF Positions
        <3>2. /\ saved[j].pid = processList[i].pid
              /\ saved[j].directory = processList[i].directory
              /\ saved[j].context = context
            BY <3>1, <1>2 DEF Pcb, pcb
        <3> QED
            BY <3>2, <2>1 DEF Listed
    <2>2. CASE j # i
        <3>1. saved[j] = processList[j]
            BY <1>1, <1>4, <2>2 DEF Positions
        <3> QED
            BY <3>1 DEF Listed
    <2> QED
        BY <2>1, <2>2
<1> QED
    BY <1>5, <1>6 DEF saved

\* There is a stack for interrupts once there is a process in user mode.
LEMMA UsersCounted ==
    ASSUME Typed
    PROVE  IsFiniteSet(users) /\ esp0 \in Nat /\ (users # {} => esp0 > 0)
<1>1. users \subseteq 1 .. Len(processList) /\ Len(processList) \in Nat
    BY DEF Typed, Positions
<1>2. IsFiniteSet(1 .. Len(processList))
    BY <1>1, FS_Interval
<1>3. IsFiniteSet(users)
    BY <1>1, <1>2, FS_Subset
<1>4. esp0 = Cardinality(users)
    BY DEF Typed
<1>5. esp0 \in Nat /\ (esp0 = 0 <=> users = {})
    BY <1>3, <1>4, FS_CardinalityType, FS_EmptySet
<1> QED
    BY <1>3, <1>5

\* Wherever a good context leads, stacks stay sound, and what goes on there is
\* the function that the context's eip belongs to, or nothing.
LEMMA Resumed ==
    ASSUME Typed, NEW ss, Sound(ss, Len(processList), users),
           NEW d \in Positions, NEW context, GoodContext(context, d),
           Resume(context, d, ss)
    PROVE  /\ cr3' = d
           /\ pc' \in Points
           /\ status' \in {"running", "lost"}
           /\ Sound(stacks', Len(processList), users)
           /\ stack' = d \/ (stack' \in -esp0 .. -1 /\ d \in users)
           /\ status' = "running" =>
                 /\ Len(stacks'[stack']) > 0
                 /\ InFunction(pc', stacks'[stack'][Len(stacks'[stack'])])
                 /\ pc' \in {"switched", "forked"}
<1> USE ShedulerAssumption
<1> DEFINE on == StackIn(context.stack, d)
           found == /\ context.esp \in 1 .. Len(ss[on])
                    /\ ss[on][context.esp].fn = ResumedIn(context.eip)
<1>1. /\ context.stack \in StackNames /\ context.esp \in Nat
      /\ context.eip \in {"none", "switched", "forked"}
    BY DEF GoodContext, Context
<1>2. Len(processList) \in 1 .. MaxProcesses /\ users \in SUBSET (1 .. Len(processList))
    BY DEF Typed, Positions
<1>3. on \in StackNames /\ (on = d \/ (on \in -esp0 .. -1 /\ d \in users))
    BY <1>1, <1>2, UsersCounted DEF StackIn, StackNames, GoodContext, Positions
<1>4. /\ cr3' = d /\ pc' = context.eip /\ stack' = on
      /\ status' = IF found THEN "running" ELSE "lost"
      /\ stacks' = IF found
                   THEN [ss EXCEPT ![on] = SubSeq(@, 1, context.esp)] ELSE ss
    BY DEF Resume
<1>5. pc' \in Points
    BY <1>1, <1>4 DEF Points
<1> HIDE DEF on
<1>6. CASE found
    <2>0. stacks' = [ss EXCEPT ![on] = SubSeq(@, 1, context.esp)]
        BY <1>4, <1>6
    <2>1. /\ Sound([ss EXCEPT ![on] = SubSeq(@, 1, context.esp)],
                   Len(processList), users)
          /\ Len(SubSeq(ss[on], 1, context.esp)) = context.esp
          /\ SubSeq(ss[on], 1, context.esp)[context.esp] = ss[on][context.esp]
        <3>1. context.esp \in 1 .. Len(ss[on])
            BY <1>6
        <3> DEFINE n == Len(processList)
                   esp == context.esp
        <3>2. n \in 1 .. MaxProcesses /\ users \in SUBSET (1 .. n)
            BY <1>2
        <3>3. Sound(ss, n, users) /\ on \in StackNames /\ esp \in 1 .. Len(ss[on])
            BY <1>3, <3>1
        <3> HIDE DEF n, esp
        <3>4. /\ Sound([ss EXCEPT ![on] = SubSeq(@, 1, esp)], n, users)
              /\ Len(SubSeq(ss[on], 1, esp)) = esp
              /\ SubSeq(ss[on], 1, esp)[esp] = ss[on][esp]
            BY <3>2, <3>3, Cut
        <3> QED
            BY <3>4 DEF n, esp
    <2>2. stacks'[on] = SubSeq(ss[on], 1, context.esp)
        BY <1>3, <2>0 DEF Sound
    <2>3. context.eip # "none"
        BY <1>1, <1>6 DEF GoodContext
    <2>4. InFunction(context.eip, ss[on][context.esp])
        BY <1>1, <1>6, <2>3 DEF InFunction, ResumedIn
    <2> QED
        BY <1>1, <1>3, <1>4, <1>5, <1>6, <2>0, <2>1, <2>2, <2>3, <2>4
<1>7. CASE ~found
    BY <1>3, <1>4, <1>5, <1>7
<1> QED
    BY <1>6, <1>7

-----------------------------------------------------------------------------
(* The states in which things happen.                                      *)

\* The running function's frame, as a frame of its stack.
LEMMA OnTop ==
    ASSUME IInv, status = "running"
    PROVE  /\ stack \in StackNames
           /\ stacks[stack] \in Seq(Frame) /\ Shape(stacks[stack])
           /\ Len(stacks[stack]) > 0
           /\ Top = stacks[stack][Len(stacks[stack])] /\ Top \in Frame
           /\ Laid(stacks[stack], Len(stacks[stack]))
           /\ InFunction(pc, Top)
<1>1. stack \in StackNames
    BY ShedulerAssumption, UsersCounted
       DEF IInv, Placed, Typed, StackNames, Positions
<1>2. stacks[stack] \in Seq(Frame) /\ Shape(stacks[stack])
    BY <1>1 DEF IInv, Stacked, Sound
<1>3. Len(stacks[stack]) > 0 /\ InFunction(pc, Top)
    BY DEF IInv, Running
<1>4. Top = stacks[stack][Len(stacks[stack])]
    BY DEF Top, Last
<1>5. Top \in Frame /\ Laid(stacks[stack], Len(stacks[stack]))
    BY <1>2, <1>3, <1>4 DEF Shape
<1> QED
    BY <1>1, <1>2, <1>3, <1>4, <1>5

\* A program runs on its own stack, with nothing above main.
LEMMA AtMain ==
    ASSUME IInv, status = "running", pc = "main"
    PROVE  /\ stack = cr3 /\ current = cr3 /\ pageDirectory = cr3
           /\ Len(stacks[cr3]) = 1 /\ stacks[cr3][1] = Top /\ Top.fn = "main"
<1>1. Top.fn = "main"
    BY OnTop DEF InFunction, ProgramsSwitch
<1>2. Len(stacks[stack]) = 1
    BY OnTop, <1>1 DEF Laid
<1>3. ~(stack < 0)
    BY OnTop, <1>1, <1>2 DEF IInv, Stacked, Sound
<1>4. stack = cr3
    BY <1>3 DEF IInv, Placed
<1>5. current = cr3 /\ pageDirectory = cr3
    BY DEF IInv, Running, InWindow
<1> QED
    BY OnTop, <1>1, <1>2, <1>4, <1>5

\* Who has frames above main on its own stack is not in user mode.
LEMMA NoUser ==
    ASSUME IInv, status = "running", ~InUserMode
    PROVE  stack \notin users
<1> SUFFICES ASSUME stack \in users PROVE FALSE
    OBVIOUS
<1>1. stack \in Positions /\ Len(stacks[stack]) = 1
    BY DEF IInv, Typed, Stacked, Sound
<1>2. Top.fn = "main"
    BY <1>1, OnTop DEF IInv, Stacked, Sound, Positions
<1>3. pc = "main"
    BY <1>2, OnTop DEF InFunction
<1> QED
    BY <1>3, AtMain DEF InUserMode

LEMMA InitHolds == Init => IInv
<1> SUFFICES ASSUME Init PROVE IInv
    OBVIOUS
<1> USE ShedulerAssumption
<1>1. /\ processList = <<[pid |-> 1, directory |-> 1, context |-> NoContext]>>
      /\ current = 1 /\ pidCounter = 2 /\ pageDirectory = 1 /\ cr3 = 1
      /\ pc = "main" /\ stack = 1 /\ users = {} /\ esp0 = 0 /\ status = "running"
      /\ stacks = [s \in StackNames |-> IF s = 1 THEN <<Main(<<>>)>> ELSE <<>>]
    BY DEF Init, InitialSpace
<1>2. NoContext \in Context
    BY DEF NoContext, Context, InitialSpace, StackNames
<1>3. [pid |-> 1, directory |-> 1, context |-> NoContext] \in Pcb
    BY <1>2 DEF Pcb
<1>4. processList \in Seq(Pcb) /\ Len(processList) = 1
    BY <1>1, <1>3
<1>5. Positions = {1}
    BY <1>4 DEF Positions
<1>6. Typed
    BY <1>1, <1>4, <1>5, FS_EmptySet DEF Typed, Points
<1>7. Listed
    BY <1>1, <1>2, <1>5 DEF Listed, GoodContext, NoContext, InitialSpace
<1>8. Main(<<>>) \in Frame /\ Main(<<>>).fn = "main"
    BY DEF Frame, Main
<1> DEFINE first == <<Main(<<>>)>>
<1>9. first \in Seq(Frame) /\ Len(first) = 1 /\ first[1].fn = "main"
    BY <1>8
<1>10. <<>> \in Seq(Frame) /\ Len(<<>>) = 0
    OBVIOUS
<1>11. Shape(first) /\ Shape(<<>>)
    BY <1>9, <1>10 DEF Shape, Laid
<1>12. \A s \in StackNames : stacks[s] = IF s = 1 THEN first ELSE <<>>
    BY <1>1
<1>13. 1 \in StackNames
    BY DEF StackNames
<1> HIDE DEF first
<1>14. stacks \in [StackNames -> Seq(Frame)]
    BY <1>1, <1>9, <1>10 DEF first
<1>15. Sound(stacks, 1, {})
    BY <1>9, <1>10, <1>11, <1>12, <1>13, <1>14 DEF Sound
<1>16. Stacked
    BY <1>1, <1>4, <1>15 DEF Stacked
<1>17. Placed
    BY <1>1 DEF Placed
<1>18. Running
    BY <1>1, <1>9, <1>12, <1>13 DEF Running, Top, Last, InFunction, InWindow
<1> QED
    BY <1>6, <1>7, <1>16, <1>17, <1>18 DEF IInv

-----------------------------------------------------------------------------
(* Every step preserves the invariant.                                     *)

\* The next process is resumed, once the context of this one is saved.
LEMMA Switched ==
    ASSUME IInv,
           NEW ss, Sound(ss, Len(processList), users),
           NEW context, GoodContext(context, current'),
           Resume(context, current', ss),
           processList' \in Seq(Pcb), Len(processList') = Len(processList),
           \A j \in Positions :
              /\ processList'[j].pid = j /\ processList'[j].directory = j
              /\ GoodContext(processList'[j].context, j),
           current' \in Positions, pageDirectory' = current',
           UNCHANGED <<pidCounter, mode>>
    PROVE  IInv'
<1>1. Typed
    BY DEF IInv
<1>2. users' = users /\ esp0' = esp0 /\ pidCounter' = pidCounter
    BY DEF mode
<1>3. Positions' = Positions
    BY DEF Positions
<1>4. /\ cr3' = current' /\ pc' \in Points /\ status' \in {"running", "lost"}
      /\ Sound(stacks', Len(processList), users)
      /\ stack' = current' \/ (stack' \in -esp0 .. -1 /\ current' \in users)
      /\ status' = "running" =>
            /\ Len(stacks'[stack']) > 0
            /\ InFunction(pc', stacks'[stack'][Len(stacks'[stack'])])
            /\ pc' \in {"switched", "forked"}
    BY <1>1, Resumed
<1>5. Typed'
    BY <1>1, <1>2, <1>3, <1>4 DEF Typed, Positions
<1>6. Listed'
    BY <1>2, <1>3 DEF Listed, GoodContext, Context, StackNames
<1>7. Stacked'
    BY <1>2, <1>4 DEF Stacked
<1>8. Placed'
    BY <1>2, <1>4 DEF Placed
<1>9. Top' = stacks'[stack'][Len(stacks'[stack'])]
    BY DEF Top, Last
<1>10. Running'
    BY <1>4, <1>9 DEF Running, InWindow
<1> QED
    BY <1>5, <1>6, <1>7, <1>8, <1>10 DEF IInv

\* Returns arrive in a frame of the function they return to: a user program's
\* is on its own stack.
LEMMA ReturnKeeps == IInv /\ Return => IInv'
<1> SUFFICES ASSUME IInv, Return PROVE IInv'
    OBVIOUS
<1> USE ShedulerAssumption
<1> DEFINE frames == stacks[stack]
           n == Len(stacks[stack])
           cut == SubSeq(frames, 1, n - 1)
<1>1. /\ status = "running" /\ pc \in {"switched", "handled"}
      /\ pc' = Top.ret
      /\ stack' = IF Top.fn = "irq" /\ Top.user THEN cr3 ELSE stack
      /\ stacks' = [stacks EXCEPT ![stack] = cut]
      /\ UNCHANGED <<processList, current, pidCounter, pageDirectory, cr3, status, mode>>
    BY DEF Return, Front
<1>2. users' = users /\ esp0' = esp0 /\ Positions' = Positions
    BY <1>1 DEF mode, Positions
<1>3. /\ stack \in StackNames /\ frames \in Seq(Frame) /\ Shape(frames)
      /\ n \in Nat \ {0} /\ Top = frames[n] /\ Top \in Frame /\ Laid(frames, n)
      /\ InFunction(pc, Top)
    BY <1>1, OnTop
<1>4. current = cr3 /\ pageDirectory = cr3
    BY <1>1 DEF IInv, Running, InWindow
<1>5. Len(processList) \in 1 .. MaxProcesses /\ users \in SUBSET (1 .. Len(processList))
      /\ stacks \in [StackNames -> Seq(Frame)]
    BY DEF IInv, Typed, Positions, Stacked, Sound
<1> HIDE DEF frames, n, cut
<1>6. pc' \in Interruptible /\ Sound(stacks', Len(processList), users)
      /\ Len(stacks'[stack']) > 0
      /\ InFunction(pc', stacks'[stack'][Len(stacks'[stack'])])
      /\ stack' \in {stack, cr3}
    <2>1. CASE n > 1 /\ InFunction(Top.ret, frames[n - 1])
               /\ Top.ret \in Interruptible /\ stack' = stack
        <3>1. /\ Sound(stacks', Len(processList), users)
              /\ Len(cut) = n - 1 /\ cut[n - 1] = frames[n - 1]
            <4> DEFINE size == Len(processList)
                       esp == n - 1
            <4>1. size \in 1 .. MaxProcesses /\ users \in SUBSET (1 .. size)
                BY <1>5
            <4>2. esp \in 1 .. Len(stacks[stack]) /\ Sound(stacks, size, users)
                BY <2>1, <1>3 DEF n, IInv, Stacked
            <4> HIDE DEF size, esp
            <4>3. /\ Sound([stacks EXCEPT ![stack] = SubSeq(@, 1, esp)], size, users)
                  /\ Len(SubSeq(stacks[stack], 1, esp)) = esp
                  /\ SubSeq(stacks[stack], 1, esp)[esp] = stacks[stack][esp]
                BY <1>3, <4>1, <4>2, Cut
            <4> QED
                BY <1>1, <4>3 DEF size, esp, cut, frames
        <3>2. stacks'[stack'] = cut
            BY <1>1, <1>3, <1>5, <2>1
        <3> QED
            BY <1>1, <1>3, <2>1, <3>1, <3>2
    <2>2. CASE Top.fn = "irq" /\ Top.user
        <3>1. n = 1 /\ Top.ret = "main"
            BY <1>3, <2>2 DEF Laid
        <3>2. stack \notin 1 .. Len(processList)
            BY <1>3, <2>2, <3>1 DEF IInv, Stacked, Sound, frames
        <3>3. stack \in -esp0 .. -1 /\ cr3 \in users
            BY <3>2 DEF IInv, Placed, Typed, Positions
        <3>4. cut = <<>>
            BY <1>3, <3>1 DEF cut
        <3>5. Sound(stacks, Len(processList), users)
            BY DEF IInv, Stacked
        <3>6. cut \in Seq(Frame) /\ Len(cut) = 0 /\ Shape(cut)
            BY <3>4 DEF Shape
        <3>7. Sound(stacks', Len(processList), users)
            <4> DEFINE size == Len(processList)
            <4>1. size \in 1 .. MaxProcesses /\ users \in SUBSET (1 .. size)
                BY <1>5
            <4>2. stack \notin 1 .. size /\ stack \notin users
                  /\ Sound(stacks, size, users) /\ stack \in StackNames
                BY <1>3, <1>5, <3>2, <3>5
            <4> HIDE DEF size
            <4>3. ~(Len(cut) > 0)
                BY <3>6
            <4>4. Sound([stacks EXCEPT ![stack] = cut], size, users)
                BY <4>1, <4>2, <4>3, <3>6, Replaced
            <4> QED
                BY <1>1, <4>4 DEF size
        <3>8. stack' = cr3 /\ stacks'[cr3] = stacks[cr3]
            BY <1>1, <1>5, <2>2, <3>2, <3>3
        <3>9. Len(stacks[cr3]) = 1 /\ stacks[cr3][1].fn = "main"
            BY <1>5, <3>3, <3>5 DEF Sound
        <3> QED
            BY <1>1, <3>1, <3>7, <3>8, <3>9 DEF InFunction, Interruptible
    <2>3. CASE Top.fn = "switchTask"
        BY <1>1, <1>3, <2>1, <2>3 DEF Laid, Interruptible
    <2>4. CASE Top.fn = "irq" /\ ~Top.user
        BY <1>1, <1>3, <2>1, <2>4 DEF Laid
    <2> QED
        BY <1>1, <1>3, <2>2, <2>3, <2>4 DEF InFunction, ProgramsSwitch
<1>7. Typed'
    BY <1>1, <1>2, <1>6 DEF IInv, Typed, Positions, Interruptible, Points, mode
<1>8. Listed'
    BY <1>1, <1>2 DEF IInv, Listed, GoodContext, Context, StackNames
<1>9. Stacked'
    BY <1>1, <1>2, <1>6 DEF Stacked
<1>10. Placed'
    BY <1>1, <1>2, <1>6 DEF IInv, Placed
<1>11. Top' = stacks'[stack'][Len(stacks'[stack'])]
    BY DEF Top, Last
<1>12. Running'
    BY <1>1, <1>4, <1>6, <1>11 DEF Running, InWindow, Interruptible
<1> QED
    BY <1>7, <1>8, <1>9, <1>10, <1>12 DEF IInv

\* A step of switchTask up to the jump changes no stack but for its own frame.
LEMMA CallSwitchKeeps == IInv /\ CallSwitch => IInv'
<1> SUFFICES ASSUME IInv, CallSwitch PROVE IInv'
    OBVIOUS
<1> USE ShedulerAssumption
<1> DEFINE f == SwitchFrame("main")
           frames == stacks[stack]
<1>1. /\ status = "running" /\ pc = "main" /\ ~InUserMode /\ pc' = "save"
      /\ stacks' = [stacks EXCEPT ![stack] = frames \o <<f>>]
      /\ UNCHANGED <<processList, current, pidCounter, pageDirectory, cr3, stack,
                     status, mode>>
    BY DEF CallSwitch, Push
<1>2. users' = users /\ esp0' = esp0 /\ Positions' = Positions
    BY <1>1 DEF mode, Positions
<1>3. /\ stack = cr3 /\ current = cr3 /\ pageDirectory = cr3 /\ Len(frames) = 1
      /\ frames[1].fn = "main" /\ frames \in Seq(Frame) /\ Shape(frames)
      /\ stack \in StackNames
    BY <1>1, AtMain, OnTop
<1>4. f \in Frame /\ f.fn = "switchTask" /\ f.ret = "main"
    BY DEF Frame, SwitchFrame, NoContext, Context, InitialSpace, StackNames, Null
<1>5. Len(processList) \in 1 .. MaxProcesses /\ users \in SUBSET (1 .. Len(processList))
      /\ stacks \in [StackNames -> Seq(Frame)] /\ stack \in 1 .. Len(processList)
    BY <1>3 DEF IInv, Typed, Positions, Stacked, Sound
<1>6. stack \notin users
    BY <1>1, NoUser
<1> DEFINE more == Append(frames, f)
<1> HIDE DEF f, frames
<1>7. /\ more \in Seq(Frame) /\ frames \o <<f>> = more
      /\ Len(more) = Len(frames) + 1 /\ more[Len(frames) + 1] = f
      /\ \A k \in 1 .. Len(frames) : more[k] = frames[k]
    BY <1>3, <1>4, Appended
<1>8. Laid(more, Len(frames) + 1)
    <2> HIDE DEF more
    <2>1. Len(frames) = 1 /\ more[1] = frames[1] /\ more[2] = f
        BY <1>3, <1>7
    <2> QED
        BY <2>1, <1>3, <1>4 DEF Laid, InFunction
<1>9. Shape(more)
    BY <1>3, <1>4, <1>8, Pushed
<1> HIDE DEF more
<1>10. Sound(stacks', Len(processList), users)
    <2> DEFINE size == Len(processList)
    <2>1. size \in 1 .. MaxProcesses /\ users \in SUBSET (1 .. size)
          /\ stack \in 1 .. size /\ Sound(stacks, size, users)
        BY <1>5 DEF IInv, Stacked
    <2> HIDE DEF size
    <2>2. Sound([stacks EXCEPT ![stack] = more], size, users)
        BY <1>3, <1>6, <1>7, <1>9, <2>1, Replaced
    <2> QED
        BY <1>1, <1>7, <2>2 DEF size
<1>11. stacks'[stack'] = more
    BY <1>1, <1>3, <1>5, <1>7
<1>12. Top' = f /\ Len(stacks'[stack']) > 0
    BY <1>3, <1>7, <1>11 DEF Top, Last
<1>13. Running'
    BY <1>1, <1>3, <1>4, <1>12 DEF Running, InWindow, InFunction, ProgramsSwitch
<1>14. Typed'
    BY <1>1, <1>2 DEF IInv, Typed, Positions, Points, mode
<1>15. Listed'
    BY <1>1, <1>2 DEF IInv, Listed, GoodContext, Context, StackNames
<1>16. Stacked' /\ Placed'
    BY <1>1, <1>2, <1>10 DEF IInv, Stacked, Placed
<1> QED
    BY <1>13, <1>14, <1>15, <1>16 DEF IInv

LEMMA SaveKeeps == IInv /\ Save => IInv'
<1> SUFFICES ASSUME IInv, Save PROVE IInv'
    OBVIOUS
<1> USE ShedulerAssumption
<1> DEFINE context == SwitchedAt(stack, Depth(stack))
<1>1. /\ status = "running" /\ pc = "save" /\ pc' = "advance"
      /\ processList' = SavedAs(current, context)
      /\ UNCHANGED <<current, pidCounter, pageDirectory, cr3, stack, stacks, status, mode>>
    BY DEF Save
<1>2. users' = users /\ esp0' = esp0
    BY <1>1 DEF mode
<1>3. current = cr3 /\ pageDirectory = cr3
    BY <1>1 DEF IInv, Running, InWindow
<1>4. stack \in StackNames /\ stacks[stack] \in Seq(Frame) /\ InFunction("save", Top)
      /\ Len(stacks[stack]) > 0
    BY <1>1, OnTop
<1>5. GoodContext(context, current)
    BY <1>3, <1>4, UsersCounted
       DEF IInv, GoodContext, Context, SwitchedAt, Depth, Placed, Typed, Positions
<1>6. current \in Positions /\ Typed /\ Listed
    BY <1>3 DEF IInv, Typed
<1>7. /\ processList' \in Seq(Pcb) /\ Len(processList') = Len(processList)
      /\ \A j \in Positions :
            /\ processList'[j].pid = j /\ processList'[j].directory = j
            /\ GoodContext(processList'[j].context, j)
    BY <1>1, <1>5, <1>6, Saved
<1>8. Positions' = Positions
    BY <1>7 DEF Positions
<1>9. Typed'
    BY <1>1, <1>2, <1>6, <1>7, <1>8 DEF Typed, Points, mode
<1>10. Listed'
    BY <1>2, <1>7, <1>8 DEF Listed, GoodContext, Context, StackNames
<1>11. Stacked' /\ Placed'
    BY <1>1, <1>2, <1>7 DEF IInv, Stacked, Placed
<1>12. Top' = Top
    BY <1>1 DEF Top
<1>13. Running'
    BY <1>1, <1>3, <1>4, <1>12 DEF Running, InWindow, InFunction, ProgramsSwitch
<1> QED
    BY <1>9, <1>10, <1>11, <1>13 DEF IInv

\* In the window nobody but switchTask itself knows who runs.
LEMMA WindowKeeps == IInv /\ (Advance \/ Wrap) => IInv'
<1> SUFFICES ASSUME IInv, Advance \/ Wrap PROVE IInv'
    OBVIOUS
<1> USE ShedulerAssumption
<1>1. /\ status = "running" /\ pc \in {"advance", "wrap"} /\ pc' \in {"wrap", "load"}
      /\ UNCHANGED <<processList, pidCounter, pageDirectory, cr3, stack, stacks,
                     status, mode>>
    BY DEF Advance, Wrap
<1>2. users' = users /\ esp0' = esp0 /\ Positions' = Positions
    BY <1>1 DEF mode, Positions
<1>3. current \in 0 .. Len(processList) /\ Len(processList) \in 1 .. MaxProcesses
    BY DEF IInv, Typed
<1>4. current' \in 0 .. Len(processList) /\ (pc' = "load" => current' # Null)
    BY <1>3 DEF Advance, Wrap, Null
<1>5. InFunction(pc, Top) /\ Len(stacks[stack]) > 0
    BY <1>1, OnTop
<1>6. Top' = Top
    BY <1>1 DEF Top
<1>7. InFunction(pc', Top')
    BY <1>1, <1>5, <1>6 DEF InFunction, ProgramsSwitch
<1>8. Running'
    BY <1>1, <1>4, <1>5, <1>7 DEF Running, InWindow
<1>9. Typed'
    BY <1>1, <1>2, <1>4 DEF IInv, Typed, Points, Positions
<1>10. Listed'
    BY <1>1, <1>2 DEF IInv, Listed, GoodContext, Context, StackNames
<1>11. Stacked' /\ Placed'
    BY <1>1, <1>2 DEF IInv, Stacked, Placed
<1> QED
    BY <1>8, <1>9, <1>10, <1>11 DEF IInv

\* A program's switchTask may write to its own frame.
LEMMA FrameReplaced ==
    ASSUME IInv, status = "running", pc \in {"load", "jump"},
           NEW f \in Frame, f.fn = "switchTask", f.ret = "main"
    PROVE  LET frames == Append(Front(stacks[stack]), f)
           IN  /\ Sound([stacks EXCEPT ![stack] = frames], Len(processList), users)
               /\ Len(frames) > 0 /\ frames[Len(frames)] = f
<1> USE ShedulerAssumption
<1> DEFINE frames == stacks[stack]
           n == Len(frames)
           below == SubSeq(frames, 1, n - 1)
           new == Append(below, f)
<1>1. /\ frames \in Seq(Frame) /\ Shape(frames) /\ n > 0 /\ Laid(frames, n)
      /\ frames[n].fn = "switchTask" /\ frames[n].ret = "main"
      /\ stack \in StackNames
    BY OnTop DEF InFunction, ProgramsSwitch
<1>2. stack \notin users
    BY NoUser DEF InUserMode
<1>3. Front(stacks[stack]) = below
    BY DEF Front
<1>4. Len(processList) \in 1 .. MaxProcesses /\ users \in SUBSET (1 .. Len(processList))
    BY DEF IInv, Typed, Positions
<1> HIDE DEF frames
<1>5. n \in Nat /\ n > 1 /\ InFunction("main", frames[n - 1])
    BY <1>1 DEF Laid
<1>6. /\ below \in Seq(Frame) /\ Len(below) = n - 1 /\ Shape(below)
      /\ \A k \in 1 .. n - 1 : below[k] = frames[k]
    BY <1>1, <1>5, Prefix
<1> HIDE DEF n, below
<1>7. /\ new \in Seq(Frame) /\ Len(new) = n /\ new[n] = f
      /\ \A k \in 1 .. n - 1 : new[k] = frames[k]
    BY <1>5, <1>6, Appended
<1>8. Laid(new, n)
    <2> HIDE DEF new
    <2>1. new[n - 1] = frames[n - 1] /\ new[n] = f
        BY <1>5, <1>7
    <2> QED
        BY <2>1, <1>5 DEF Laid
<1>9. Shape(new)
    BY <1>5, <1>6, <1>8, Pushed
<1> HIDE DEF new
<1>10. new[1] = frames[1]
    BY <1>5, <1>7
<1>11. Sound([stacks EXCEPT ![stack] = new], Len(processList), users)
    <2> DEFINE size == Len(processList)
    <2>1. size \in 1 .. MaxProcesses /\ users \in SUBSET (1 .. size)
          /\ Sound(stacks, size, users)
        BY <1>4 DEF IInv, Stacked
    <2> HIDE DEF size
    <2>2. stack \in 1 .. size => new[1].fn = "main"
        BY <2>1, <1>10 DEF Sound, frames
    <2>3. stack < 0 => new[1].fn # "main"
        BY <2>1, <1>1, <1>5, <1>10 DEF Sound, frames, n
    <2>4. Sound([stacks EXCEPT ![stack] = new], size, users)
        BY <1>1, <1>2, <1>5, <1>7, <1>9, <2>1, <2>2, <2>3, Replaced
    <2> QED
        BY <2>4 DEF size
<1> QED
    BY <1>3, <1>5, <1>7, <1>11 DEF new

LEMMA LoadKeeps == IInv /\ Load => IInv'
<1> SUFFICES ASSUME IInv, Load PROVE IInv'
    OBVIOUS
<1> USE ShedulerAssumption
<1> DEFINE process == processList[current]
           f == [Top EXCEPT !.context = process.context,
                            !.directory = process.directory]
           frames == Append(Front(stacks[stack]), f)
<1>1. /\ status = "running" /\ pc = "load" /\ pc' = "jump"
      /\ stacks' = [stacks EXCEPT ![stack] = frames]
      /\ pageDirectory' = process.directory
      /\ UNCHANGED <<processList, current, pidCounter, cr3, stack, status, mode>>
    BY DEF Load
<1>2. users' = users /\ esp0' = esp0 /\ Positions' = Positions
    BY <1>1 DEF mode, Positions
<1>3. current \in Positions
    BY <1>1 DEF IInv, Running, Typed, Positions, Null
<1>4. process.directory = current /\ GoodContext(process.context, current)
    BY <1>3 DEF IInv, Listed
<1>5. Top \in Frame /\ Top.fn = "switchTask" /\ Top.ret = "main"
      /\ stack \in StackNames
    BY <1>1, OnTop DEF InFunction, ProgramsSwitch
<1>6. Top \in [fn : {"switchTask"}, ret : {"main", "handled"}, context : Context,
               directory : Nat]
    BY <1>5 DEF Frame
<1>7. process.context \in Context /\ process.directory \in Nat
    BY <1>3, <1>4 DEF GoodContext, Positions
<1>8. f \in Frame /\ f.fn = "switchTask" /\ f.ret = "main"
      /\ f.context = process.context /\ f.directory = process.directory
    BY <1>5, <1>6, <1>7 DEF Frame
<1> HIDE DEF f
<1>9. /\ Sound([stacks EXCEPT ![stack] = frames], Len(processList), users)
      /\ Len(frames) > 0 /\ frames[Len(frames)] = f
    BY <1>1, <1>8, FrameReplaced
<1> HIDE DEF frames
<1>10. stacks'[stack'] = frames
    BY <1>1, <1>5 DEF IInv, Stacked, Sound
<1>11. Top' = f
    BY <1>9, <1>10 DEF Top, Last
<1>12. Running'
    <2>1. GoodContext(Top.context, current)'
        BY <1>1, <1>2, <1>4, <1>8, <1>11 DEF GoodContext, Context, StackNames
    <2> QED
        BY <1>1, <1>3, <1>4, <1>8, <1>9, <1>10, <1>11, <2>1
           DEF Running, InWindow, InFunction, ProgramsSwitch, Positions, Null
<1>13. Typed'
    BY <1>1, <1>2, <1>3, <1>4 DEF IInv, Typed, Points, Positions
<1>14. Listed'
    BY <1>1, <1>2 DEF IInv, Listed, GoodContext, Context, StackNames
<1>15. Stacked' /\ Placed'
    BY <1>1, <1>2, <1>9 DEF IInv, Stacked, Placed
<1> QED
    BY <1>12, <1>13, <1>14, <1>15 DEF IInv

LEMMA JumpKeeps == IInv /\ Jump => IInv'
<1> SUFFICES ASSUME IInv, Jump PROVE IInv'
    OBVIOUS
<1> USE ShedulerAssumption
<1> DEFINE frames == Append(Front(stacks[stack]), SwitchFrame("main"))
           ss == [stacks EXCEPT ![stack] = frames]
<1>1. /\ status = "running" /\ pc = "jump"
      /\ Resume(Top.context, Top.directory, ss)
      /\ UNCHANGED <<processList, current, pidCounter, pageDirectory, mode>>
    BY DEF Jump
<1>2. /\ current \in Positions /\ Top.directory = current /\ pageDirectory = current
      /\ GoodContext(Top.context, current)
    BY <1>1 DEF IInv, Running, Typed, Positions, Null
<1>3. /\ SwitchFrame("main") \in Frame
      /\ SwitchFrame("main").fn = "switchTask" /\ SwitchFrame("main").ret = "main"
    BY DEF Frame, SwitchFrame, NoContext, Context, InitialSpace, StackNames, Null
<1>4. Sound(ss, Len(processList), users)
    BY <1>1, <1>3, FrameReplaced
<1>5. /\ processList' \in Seq(Pcb) /\ Len(processList') = Len(processList)
      /\ \A j \in Positions :
            /\ processList'[j].pid = j /\ processList'[j].directory = j
            /\ GoodContext(processList'[j].context, j)
    BY <1>1 DEF IInv, Typed, Listed
<1> HIDE DEF ss
<1> DEFINE context == Top.context
<1>6. Resume(context, current', ss) /\ GoodContext(context, current')
    BY <1>1, <1>2
<1> HIDE DEF context
<1> QED
    BY <1>1, <1>2, <1>4, <1>5, <1>6, Switched

\* A child that returns from fork has only main below.
LEMMA ForkInChildKeeps == IInv /\ ForkInChild => IInv'
<1> SUFFICES ASSUME IInv, ForkInChild PROVE IInv'
    OBVIOUS
<1> USE ShedulerAssumption
<1> DEFINE frames == stacks[stack]
           child == Returned(0)
           new == Append(Front(Front(frames)), child)
<1>1. /\ status = "running" /\ pc = "forked"
      /\ UNCHANGED <<processList, current, pidCounter, pageDirectory, cr3, stack, mode>>
    BY DEF ForkInChild
<1>2. users' = users /\ esp0' = esp0 /\ Positions' = Positions
    BY <1>1 DEF mode, Positions
<1>3. Listed' /\ Placed'
    BY <1>1, <1>2 DEF IInv, Listed, GoodContext, Context, StackNames, Placed
<1>4. CASE current = Top.parentProc
    <2>1. status' = "lost" /\ pc' = pc /\ stacks' = stacks
        BY <1>4 DEF ForkInChild
    <2>2. Typed'
        BY <1>1, <1>2, <2>1 DEF IInv, Typed, Positions
    <2>3. Stacked' /\ Running'
        BY <1>1, <1>2, <2>1 DEF IInv, Stacked, Running
    <2> QED
        BY <1>3, <2>2, <2>3 DEF IInv
<1>5. CASE current # Top.parentProc
    <2>1. pc' = "main" /\ stacks' = [stacks EXCEPT ![stack] = new] /\ status' = status
        BY <1>5 DEF ForkInChild, PopAs
    <2>2. /\ stack \in StackNames /\ frames \in Seq(Frame) /\ Shape(frames)
          /\ Len(frames) = 2
        BY <1>1, OnTop DEF InFunction, ProgramsSwitch, Laid
    <2>3. Top = frames[2] /\ Top.fn = "fork"
        BY <1>1, <2>2, OnTop DEF InFunction, ProgramsSwitch
    <2>4. frames[1] \in Frame /\ frames[1].fn = "main"
        BY <2>2, <2>3 DEF Shape, Laid
    <2>5. stack = cr3 /\ stack \in 1 .. Len(processList)
        <3>1. Len(stacks[stack]) > 0 /\ stacks[stack][1].fn = "main"
            BY <2>2, <2>4
        <3>2. ~(stack < 0)
            BY <2>2, <3>1 DEF IInv, Stacked, Sound
        <3> QED
            BY <3>2 DEF IInv, Placed, Typed, Positions
    <2>6. stack \notin users
        BY <1>1, NoUser DEF InUserMode
    <2>7. Len(processList) \in 1 .. MaxProcesses
          /\ users \in SUBSET (1 .. Len(processList))
          /\ stacks \in [StackNames -> Seq(Frame)]
        BY DEF IInv, Typed, Positions, Stacked, Sound
    <2>8. child = Main(Append(frames[1].history, 0))
        BY <2>2 DEF Returned, Depth
    <2>9. frames[1].history \in Seq(Nat)
        BY <2>4 DEF Frame
    <2>10. child \in Frame /\ child.fn = "main"
        <3> DEFINE h == Append(frames[1].history, 0)
        <3>1. h \in Seq(Nat)
            BY <2>9
        <3> HIDE DEF h
        <3>2. Main(h) \in [fn : {"main"}, history : Seq(Nat)] /\ Main(h).fn = "main"
            BY <3>1 DEF Main
        <3>3. child = Main(h)
            BY <2>8 DEF h
        <3> HIDE DEF child
        <3> QED
            BY <3>2, <3>3 DEF Frame
    <2>11. Front(Front(frames)) = <<>>
        BY <2>2 DEF Front
    <2> HIDE DEF frames, child
    <2>12. new = <<child>>
        BY <2>11
    <2>13. new \in Seq(Frame) /\ Len(new) = 1 /\ new[1] = child
        BY <2>10, <2>12
    <2> HIDE DEF new
    <2>14. Shape(new)
        BY <2>10, <2>13 DEF Shape, Laid
    <2>15. Sound(stacks', Len(processList), users)
        <3> DEFINE size == Len(processList)
        <3>1. size \in 1 .. MaxProcesses /\ users \in SUBSET (1 .. size)
              /\ Sound(stacks, size, users) /\ stack \in 1 .. size
            BY <2>5, <2>7 DEF IInv, Stacked
        <3> HIDE DEF size
        <3>2. Sound([stacks EXCEPT ![stack] = new], size, users)
            BY <2>2, <2>6, <2>10, <2>13, <2>14, <3>1, Replaced
        <3> QED
            BY <2>1, <3>2 DEF size
    <2>16. Top' = child /\ Len(stacks'[stack']) > 0
        <3>1. stacks'[stack'] = new
            BY <1>1, <2>1, <2>2, <2>7
        <3> QED
            BY <3>1, <2>13 DEF Top, Last
    <2>17. current = cr3 /\ pageDirectory = cr3
        BY <1>1 DEF IInv, Running, InWindow
    <2>18. Running'
        BY <1>1, <2>1, <2>10, <2>16, <2>17 DEF Running, InWindow, InFunction
    <2>19. Typed'
        BY <1>1, <1>2, <2>1 DEF IInv, Typed, Positions, Points
    <2>20. Stacked'
        BY <1>1, <1>2, <2>15 DEF Stacked
    <2> QED
        BY <1>3, <2>18, <2>19, <2>20 DEF IInv
<1> QED
    BY <1>4, <1>5

LEMMA FaultKeeps == IInv /\ Fault => IInv'
<1> SUFFICES ASSUME IInv, Fault PROVE IInv'
    OBVIOUS
<1>1. status' = "stopped"
      /\ UNCHANGED <<processList, current, pidCounter, pageDirectory, cr3, pc, stack,
                     stacks, mode>>
    BY DEF Fault
<1>2. users' = users /\ esp0' = esp0 /\ Positions' = Positions
    BY <1>1 DEF mode, Positions
<1>3. Typed' /\ Stacked' /\ Placed' /\ Running'
    BY <1>1, <1>2 DEF IInv, Typed, Positions, Stacked, Placed, Running
<1>4. Listed'
    BY <1>1, <1>2 DEF IInv, Listed, GoodContext, Context, StackNames
<1> QED
    BY <1>3, <1>4 DEF IInv

\* Another process in user mode has another stack for interrupts below the
\* TSS's, and only main on its own.
LEMMA SwitchToUserModeKeeps == IInv /\ SwitchToUserMode => IInv'
<1> SUFFICES ASSUME IInv, SwitchToUserMode PROVE IInv'
    OBVIOUS
<1> USE ShedulerAssumption
<1>1. /\ status = "running" /\ pc = "main" /\ cr3 \notin users
      /\ Cardinality(users) < MaxUsers
      /\ esp0' = esp0 + 1 /\ users' = users \cup {cr3}
      /\ UNCHANGED <<processList, current, pidCounter, pageDirectory, cr3, pc, stack,
                     stacks, status>>
    BY DEF SwitchToUserMode, processor
<1>2. Positions' = Positions /\ cr3 \in Positions
    BY <1>1 DEF Positions, IInv, Typed
<1>3. IsFiniteSet(users) /\ esp0 \in Nat /\ esp0 = Cardinality(users)
    BY UsersCounted DEF IInv, Typed
<1>4. esp0' = Cardinality(users') /\ esp0' <= MaxUsers
    BY <1>1, <1>3, FS_AddElement
<1>5. Typed'
    BY <1>1, <1>2, <1>4 DEF IInv, Typed, Positions
<1>6. ASSUME NEW context, NEW d, GoodContext(context, d)
      PROVE  /\ context \in Context /\ (context.eip = "none" => context.esp = 0)
             /\ context.stack # 0
             /\ context.stack < 0 => d \in users' /\ -esp0' <= context.stack
    <2>1. context.stack \in Int
        BY <1>6 DEF GoodContext, Context, StackNames
    <2> QED
        BY <1>1, <1>3, <1>6, <2>1 DEF GoodContext
<1>7. Listed'
    BY <1>1, <1>2, <1>6 DEF IInv, Listed, GoodContext, Context, StackNames
<1>8. Len(stacks[cr3]) = 1
    BY <1>1, AtMain
<1>9. Stacked'
    BY <1>1, <1>8 DEF IInv, Stacked, Sound
<1>10. Placed'
    BY <1>1, <1>3 DEF IInv, Placed
<1>11. Running'
    <2>1. Top' = Top
        BY <1>1 DEF Top
    <2> QED
        BY <1>1, <2>1 DEF IInv, Running, InWindow
<1> QED
    BY <1>5, <1>7, <1>9, <1>10, <1>11 DEF IInv

\* fork leaves main in the parent and main below fork in the child, whose stack
\* and PCB are one more of each.
LEMMA ForkKeeps == IInv /\ Fork => IInv'
<1> SUFFICES ASSUME IInv, Fork PROVE IInv'
    OBVIOUS
<1> USE ShedulerAssumption
<1> DEFINE size == Len(processList)
           child == size + 1
           frames == stacks[stack]
           f == ForkFrame
           two == Append(frames, f)
           m == Main(Append(Top.history, pidCounter))
           one == <<m>>
           pcb == [pid |-> pidCounter, directory |-> child,
                   context |-> ChildContext(2)]
<1>1. /\ status = "running" /\ pc = "main" /\ ~InUserMode /\ size < MaxProcesses
      /\ pidCounter' = pidCounter + 1
      /\ UNCHANGED <<current, pageDirectory, cr3, pc, stack, status, mode>>
    BY DEF Fork
<1>2. users' = users /\ esp0' = esp0
    BY <1>1 DEF mode
<1>3. /\ stack = cr3 /\ current = cr3 /\ pageDirectory = cr3 /\ Len(frames) = 1
      /\ frames[1] = Top /\ Top.fn = "main" /\ Top \in Frame
      /\ frames \in Seq(Frame) /\ Shape(frames) /\ stack \in StackNames
    BY <1>1, AtMain, OnTop
<1>4. /\ size \in 1 .. MaxProcesses /\ users \in SUBSET (1 .. size)
      /\ stack \in 1 .. size /\ pidCounter = child
      /\ stacks \in [StackNames -> Seq(Frame)] /\ Sound(stacks, size, users)
    BY <1>3 DEF IInv, Typed, Positions, Stacked, Sound
<1>5. stack \notin users
    BY <1>1, NoUser
<1>6. f \in Frame /\ f.fn = "fork"
    BY <1>3, <1>4 DEF ForkFrame, Frame
<1>7. two \in Seq(Frame) /\ frames \o <<f>> = two /\ Len(two) = 2
      /\ two[1] = Top /\ two[2] = f
    <2> HIDE DEF frames, f
    <2>1. /\ two \in Seq(Frame) /\ frames \o <<f>> = two /\ Len(two) = Len(frames) + 1
          /\ \A k \in 1 .. Len(frames) : two[k] = frames[k]
          /\ two[Len(frames) + 1] = f
        BY <1>3, <1>6, Appended
    <2> HIDE DEF two
    <2> QED
        BY <1>3, <2>1
<1>8. Shape(two)
    <2> HIDE DEF two
    <2>1. Laid(two, 1) /\ Laid(two, 2)
        BY <1>3, <1>6, <1>7 DEF Laid
    <2>2. \A k \in 1 .. Len(two) : k = 1 \/ k = 2
        BY <1>7
    <2> QED
        BY <2>1, <2>2 DEF Shape
<1>9. m \in Frame /\ m.fn = "main"
    <2> DEFINE h == Append(Top.history, pidCounter)
    <2>1. Top.history \in Seq(Nat)
        BY <1>3 DEF Frame
    <2>2. h \in Seq(Nat)
        BY <1>4, <2>1
    <2> HIDE DEF h
    <2>3. Main(h) \in [fn : {"main"}, history : Seq(Nat)] /\ Main(h).fn = "main"
        BY <2>2 DEF Main
    <2> QED
        BY <2>3 DEF Frame, h
<1>10. processList' = Append(processList, pcb)
       /\ stacks' = [stacks EXCEPT ![stack] = one, ![child] = two]
    <2> DEFINE inFork == Push(<<f>>)
    <2>1. /\ processList' = Append(processList,
                 [pid |-> pidCounter, directory |-> child,
                  context |-> ChildContext(Len(inFork[stack]))])
          /\ stacks' = [stacks EXCEPT ![stack] = one, ![child] = inFork[pageDirectory]]
        BY DEF Fork, ChildPid
    <2>2. inFork[stack] = two
        BY <1>3, <1>4, <1>7 DEF Push
    <2> HIDE DEF inFork, two, one
    <2> QED
        BY <1>3, <1>7, <2>1, <2>2
<1> HIDE DEF frames, f, two, m
<1>11. one \in Seq(Frame) /\ Len(one) = 1 /\ one[1] = m
    BY <1>9
<1> HIDE DEF one
<1>12. Shape(one)
    BY <1>9, <1>11 DEF Shape, Laid
<1>13. Sound(stacks', size + 1, users)
    <2> DEFINE mid == [stacks EXCEPT ![stack] = one]
               all == [mid EXCEPT ![child] = two]
    <2> HIDE DEF size
    <2>1. Sound(mid, size, users)
        <3>1. Len(one) > 0 /\ one[1].fn = "main" /\ ~(stack < 0)
            BY <1>4, <1>9, <1>11
        <3> QED
            BY <1>3, <1>4, <1>5, <1>11, <1>12, <3>1, Replaced
    <2>2. child \in StackNames /\ child \notin 1 .. size /\ child \notin users
          /\ ~(child < 0)
        BY <1>1, <1>4 DEF StackNames
    <2>3. stacks' = all
        BY <1>4, <1>10
    <2> HIDE DEF mid
    <2>4. Sound(all, size, users)
        BY <1>4, <1>7, <1>8, <2>1, <2>2, Replaced
    <2>5. all[child] = two
        BY <2>1, <2>2 DEF Sound
    <2> HIDE DEF all
    <2>6. \A d \in 1 .. size + 1 : Len(all[d]) > 0 /\ all[d][1].fn = "main"
        <3> TAKE d \in 1 .. size + 1
        <3>1. CASE d \in 1 .. size
            BY <2>4, <3>1 DEF Sound
        <3>2. CASE d = child
            BY <1>3, <1>7, <2>5, <3>2
        <3> QED
            BY <1>4, <3>1, <3>2
    <2> QED
        BY <2>3, <2>4, <2>6 DEF Sound
<1>14. pcb \in Pcb /\ GoodContext(pcb.context, child)
       /\ pcb.pid = child /\ pcb.directory = child
    <2>1. ChildContext(2) \in Context /\ ChildContext(2).stack = stack
          /\ ChildContext(2).eip = "forked"
        BY <1>3 DEF ChildContext, Context
    <2> QED
        BY <1>4, <2>1 DEF Pcb, GoodContext
<1> HIDE DEF pcb
<1>15. /\ processList' \in Seq(Pcb) /\ Len(processList') = child
       /\ \A i \in 1 .. size : processList'[i] = processList[i]
       /\ processList'[child] = pcb
    BY <1>10, <1>14 DEF IInv, Typed
<1>16. Positions' = 1 .. child /\ Positions = 1 .. size
    BY <1>15 DEF Positions
<1>17. Typed'
    BY <1>1, <1>2, <1>4, <1>15, <1>16 DEF IInv, Typed, Points
<1>18. Listed'
    <2> SUFFICES ASSUME NEW i \in 1 .. child
                 PROVE  (/\ processList[i].pid = i
                         /\ processList[i].directory = i
                         /\ GoodContext(processList[i].context, i))'
        BY <1>16 DEF Listed
    <2>1. CASE i \in 1 .. size
        <3>1. processList'[i] = processList[i]
            BY <1>15, <2>1
        <3> QED
            BY <1>2, <1>16, <2>1, <3>1
               DEF IInv, Listed, GoodContext, Context, StackNames
    <2>2. CASE i = child
        BY <1>2, <1>14, <1>15, <2>2 DEF GoodContext, Context, StackNames
    <2> QED
        BY <1>4, <2>1, <2>2
<1>19. Stacked'
    BY <1>2, <1>13, <1>15 DEF Stacked
<1>20. Placed'
    BY <1>1, <1>2 DEF IInv, Placed
<1>21. stacks'[stack'] = one
    BY <1>1, <1>3, <1>4, <1>10
<1>22. Top' = m
    BY <1>11, <1>21 DEF Top, Last
<1>23. Running'
    <2>1. pc' = "main" /\ current' = cr3' /\ pageDirectory' = cr3'
        BY <1>1, <1>3
    <2>2. Len(stacks'[stack']) > 0
        BY <1>11, <1>21
    <2>3. Top'.fn = "main"
        BY <1>9, <1>22
    <2> QED
        BY <2>1, <2>2, <2>3 DEF Running, InFunction, InWindow
<1> QED
    BY <1>17, <1>18, <1>19, <1>20, <1>23 DEF IInv

\* An interrupt's frame says whether it came from user mode.
LEMMA IrqFramed ==
    ASSUME Typed, pc \in Interruptible
    PROVE  /\ IrqFrame \in Frame /\ IrqFrame.fn = "irq" /\ IrqFrame.ret = pc
           /\ IrqFrame.user <=> InUserMode
<1> DEFINE from(user) == [fn |-> "irq", ret |-> pc, user |-> user, registers |-> cr3]
<1>1. pc \in Points /\ cr3 \in Nat
    BY DEF Typed, Positions
<1>2. ASSUME NEW user \in BOOLEAN
      PROVE  from(user) \in Frame /\ from(user).fn = "irq" /\ from(user).ret = pc
             /\ from(user).user = user
    BY <1>1 DEF Frame
<1>3. InUserMode \in BOOLEAN
    BY DEF InUserMode
<1>4. IrqFrame = from(InUserMode)
    BY DEF IrqFrame
<1> HIDE DEF from
<1> QED
    BY <1>2, <1>3, <1>4, Zenon

\* An interrupt pushes its frames on the stack of the function it interrupts,
\* or, from user mode, on an empty one of the TSS's.
LEMMA TimerPushes ==
    ASSUME IInv, status = "running", pc \in Interruptible
    PROVE  LET s == InterruptStack
               frames == (IF s = stack THEN stacks[s] ELSE <<>>)
                            \o <<IrqFrame, SwitchFrame("handled")>>
           IN  /\ s \in StackNames /\ Len(frames) > 0
               /\ s = cr3 \/ (s \in -esp0 .. -1 /\ cr3 \in users)
               /\ Sound([stacks EXCEPT ![s] = frames], Len(processList), users)
<1> USE ShedulerAssumption
<1> DEFINE s == InterruptStack
           base == IF s = stack THEN stacks[s] ELSE <<>>
           switch == SwitchFrame("handled")
           frames == base \o <<IrqFrame, switch>>
           size == Len(processList)
<1>1. switch \in Frame /\ switch.fn = "switchTask" /\ switch.ret = "handled"
    BY DEF Frame, SwitchFrame, NoContext, Context, InitialSpace, StackNames, Null
<1>2. IrqFrame \in Frame /\ IrqFrame.fn = "irq" /\ IrqFrame.ret = pc
      /\ (IrqFrame.user <=> InUserMode)
    BY IrqFramed DEF IInv
<1>3. size \in 1 .. MaxProcesses /\ users \in SUBSET (1 .. size)
      /\ Sound(stacks, size, users) /\ stacks \in [StackNames -> Seq(Frame)]
    BY DEF IInv, Typed, Positions, Stacked, Sound
<1>4. /\ base \in Seq(Frame) /\ Shape(base) /\ s \in StackNames /\ s \notin users
      /\ s = cr3 \/ (s \in -esp0 .. -1 /\ cr3 \in users)
      /\ Laid(Append(base, IrqFrame), Len(base) + 1)
      /\ s \in 1 .. size => Len(base) > 0 /\ base[1].fn = "main"
      /\ s < 0 /\ Len(base) > 0 => base[1].fn # "main"
    <2>1. CASE InUserMode
        <3>1. pc = "main" /\ cr3 \in users /\ s = -esp0
            BY <2>1 DEF InUserMode, InterruptStack
        <3>2. esp0 \in Nat /\ esp0 > 0 /\ esp0 <= MaxUsers
            BY <3>1, UsersCounted DEF IInv, Typed
        <3>3. s \in StackNames /\ s \in -esp0 .. -1
            BY <3>1, <3>2 DEF StackNames
        <3>4. stack = cr3
            BY <3>1, AtMain
        <3>5. base = <<>>
            BY <1>3, <3>1, <3>3, <3>4
        <3> HIDE DEF base, s
        <3>6. Append(base, IrqFrame)[1] = IrqFrame /\ Len(base) = 0
            BY <3>5
        <3>7. Laid(Append(base, IrqFrame), Len(base) + 1)
            BY <1>2, <2>1, <3>1, <3>6 DEF Laid, Interruptible
        <3>8. base \in Seq(Frame) /\ Shape(base)
            BY <3>5, <3>6 DEF Shape
        <3> QED
            BY <1>3, <3>1, <3>2, <3>3, <3>6, <3>7, <3>8
    <2>2. CASE ~InUserMode
        <3>1. s = stack
            BY <2>2 DEF InterruptStack
        <3>2. base = stacks[stack]
            BY <3>1
        <3> HIDE DEF base, s
        <3>3. /\ base \in Seq(Frame) /\ Shape(base) /\ s \in StackNames
              /\ Len(base) \in Nat \ {0} /\ InFunction(pc, base[Len(base)])
            BY <3>1, <3>2, OnTop
        <3>4. s \notin users
            BY <2>2, <3>1, NoUser
        <3>5. s = cr3 \/ (s \in -esp0 .. -1 /\ cr3 \in users)
            BY <3>1 DEF IInv, Placed
        <3> DEFINE more == Append(base, IrqFrame)
        <3>6. /\ Len(more) = Len(base) + 1 /\ more[Len(base) + 1] = IrqFrame
              /\ \A k \in 1 .. Len(base) : more[k] = base[k]
            BY <1>2, <3>3, Appended
        <3> HIDE DEF more
        <3>7. more[Len(base)] = base[Len(base)] /\ Len(base) + 1 - 1 = Len(base)
            BY <3>3, <3>6
        <3>8. Laid(more, Len(base) + 1)
            BY <1>2, <2>2, <3>3, <3>6, <3>7 DEF Laid
        <3>9. /\ s \in 1 .. size => Len(base) > 0 /\ base[1].fn = "main"
              /\ s < 0 /\ Len(base) > 0 => base[1].fn # "main"
            BY <1>3, <3>1, <3>2, <3>3 DEF Sound
        <3> QED
            BY <3>3, <3>4, <3>5, <3>8, <3>9 DEF more
    <2> QED
        BY <2>1, <2>2
<1> HIDE DEF base, s, switch
<1>5. /\ frames \in Seq(Frame) /\ Len(frames) = Len(base) + 2
      /\ frames[1] = IF Len(base) = 0 THEN IrqFrame ELSE base[1]
      /\ Shape(frames)
    BY <1>1, <1>2, <1>4, Interrupted
<1> HIDE DEF frames, size
<1>6. /\ s \in 1 .. size => Len(frames) > 0 /\ frames[1].fn = "main"
      /\ s < 0 /\ Len(frames) > 0 => frames[1].fn # "main"
      /\ Len(frames) > 0
    BY <1>2, <1>4, <1>5
<1>7. Sound([stacks EXCEPT ![s] = frames], size, users)
    BY <1>3, <1>4, <1>5, <1>6, Replaced
<1> QED
    BY <1>4, <1>6, <1>7 DEF frames, base, s, switch, size

\* The timer leaves the interrupted function resumable and goes on with the
\* next process.
LEMMA TimerKeeps == ASSUME Racing = FALSE, IInv, Timer PROVE IInv'
<1> USE ShedulerAssumption
<1> DEFINE s == InterruptStack
           frames == (IF s = stack THEN stacks[s] ELSE <<>>)
                        \o <<IrqFrame, SwitchFrame("handled")>>
           pushed == [stacks EXCEPT ![s] = frames]
           context == SwitchedAt(s, Len(frames))
           saved == SavedAs(current, context)
           next == Successor(current)
<1>1. /\ status = "running" /\ ~InProgramsSwitch
      /\ current' = next
      /\ UNCHANGED <<pidCounter, mode>>
    BY DEF Timer
<1>2. pc \in Interruptible
    <2>1. InFunction(pc, Top)
        BY <1>1, OnTop
    <2> QED
        BY <2>1, <1>1 DEF InFunction, ProgramsSwitch, Interruptible, InProgramsSwitch
<1>3. /\ s \in StackNames /\ Len(frames) > 0
      /\ s = cr3 \/ (s \in -esp0 .. -1 /\ cr3 \in users)
      /\ Sound(pushed, Len(processList), users)
    BY <1>1, <1>2, TimerPushes
<1>4. stacks \in [StackNames -> Seq(Frame)]
    BY DEF IInv, Stacked, Sound
<1>5. /\ processList' = saved
      /\ pageDirectory' = saved[next].directory
      /\ Resume(saved[next].context, saved[next].directory, pushed)
    <2> DEFINE full == [stacks EXCEPT ![s] = (IF s = stack THEN @ ELSE <<>>)
                                    \o <<IrqFrame, SwitchFrame("handled")>>]
    <2>1. /\ processList' = SavedAs(current, SwitchedAt(s, Len(full[s])))
          /\ pageDirectory' =
                SavedAs(current, SwitchedAt(s, Len(full[s])))[next].directory
          /\ Resume(SavedAs(current, SwitchedAt(s, Len(full[s])))[next].context,
                    SavedAs(current, SwitchedAt(s, Len(full[s])))[next].directory,
                    full)
        BY DEF Timer
    <2>2. full = pushed
        OBVIOUS
    <2>3. pushed[s] = frames
        BY <1>3, <1>4
    <2> HIDE DEF full, pushed, frames
    <2> QED
        BY <2>1, <2>2, <2>3
<1>6. /\ current = cr3 /\ current \in Positions
    <2>1. ~InWindow
        BY <1>2 DEF InWindow, Interruptible
    <2> QED
        BY <1>1, <2>1 DEF IInv, Running, Typed
<1>7. Len(frames) \in Nat
    BY <1>3, <1>4
<1> HIDE DEF s, frames, pushed
<1>8. GoodContext(context, current)
    <2>1. context \in Context /\ context.stack = s /\ context.eip = "switched"
        BY <1>3, <1>7 DEF Context, SwitchedAt
    <2>2. esp0 \in Nat /\ cr3 \in Nat \ {0}
        BY <1>6, UsersCounted DEF IInv, Positions
    <2>3. s \in Int
        BY <1>3 DEF StackNames
    <2> HIDE DEF context
    <2> QED
        BY <1>3, <1>6, <2>1, <2>2, <2>3 DEF GoodContext
<1> HIDE DEF context
<1>9. /\ saved \in Seq(Pcb) /\ Len(saved) = Len(processList)
      /\ \A j \in Positions :
            /\ saved[j].pid = j /\ saved[j].directory = j
            /\ GoodContext(saved[j].context, j)
    BY <1>6, <1>8, Saved DEF IInv
<1>10. next \in Positions
    BY <1>6 DEF Successor, Positions, IInv, Typed
<1> HIDE DEF saved, next
<1> DEFINE resumed == saved[next].context
<1>11. /\ GoodContext(resumed, current') /\ Resume(resumed, current', pushed)
       /\ pageDirectory' = current' /\ current' \in Positions
    BY <1>1, <1>5, <1>9, <1>10
<1> HIDE DEF resumed
<1> QED
    BY <1>1, <1>3, <1>5, <1>9, <1>11, Switched

-----------------------------------------------------------------------------
(* The theorems.                                                           *)

LEMMA Stutters == IInv /\ UNCHANGED vars => IInv'
<1> SUFFICES ASSUME IInv, UNCHANGED vars PROVE IInv'
    OBVIOUS
<1>1. UNCHANGED <<processList, current, pidCounter, pageDirectory, cr3, pc, stack,
                  stacks, status, users, esp0>>
    BY DEF vars, processor, mode
<1>2. Positions' = Positions /\ Top' = Top
    BY <1>1 DEF Positions, Top
<1>3. Typed' /\ Stacked' /\ Placed'
    BY <1>1, <1>2 DEF IInv, Typed, Positions, Stacked, Placed
<1>4. Listed' /\ Running'
    BY <1>1, <1>2 DEF IInv, Listed, GoodContext, Context, StackNames, Running, InWindow
<1> QED
    BY <1>3, <1>4 DEF IInv

LEMMA Invariance == ASSUME Racing = FALSE PROVE Spec => []IInv
<1>1. IInv /\ [Next]_vars => IInv'
    <2> SUFFICES ASSUME IInv, [Next]_vars PROVE IInv'
        OBVIOUS
    <2>1. CASE Timer
        BY <2>1, TimerKeeps
    <2>2. CASE Return
        BY <2>2, ReturnKeeps
    <2>3. CASE CallSwitch
        BY <2>3, CallSwitchKeeps
    <2>4. CASE Save
        BY <2>4, SaveKeeps
    <2>5. CASE Advance \/ Wrap
        BY <2>5, WindowKeeps
    <2>6. CASE Load
        BY <2>6, LoadKeeps
    <2>7. CASE Jump
        BY <2>7, JumpKeeps
    <2>8. CASE Fork
        BY <2>8, ForkKeeps
    <2>9. CASE ForkInChild
        BY <2>9, ForkInChildKeeps
    <2>10. CASE SwitchToUserMode
        BY <2>10, SwitchToUserModeKeeps
    <2>11. CASE Fault
        BY <2>11, FaultKeeps
    <2>12. CASE UNCHANGED vars
        BY <2>12, Stutters
    <2> QED
        BY <2>1, <2>2, <2>3, <2>4, <2>5, <2>6, <2>7, <2>8, <2>9, <2>10, <2>11, <2>12
           DEF Next, Proceed
<1> QED
    BY <1>1, InitHolds, PTL DEF Spec

\* Processes keep pids, directories and stacks of their own, and the processor
\* is on a stack of the process whose directory it uses, whatever programs
\* call and whenever the timer comes outside of their calls of switchTask.
THEOREM TypeCorrect == ASSUME Racing = FALSE PROVE Spec => []TypeOK
<1>1. IInv => TypeOK
    <2> SUFFICES ASSUME IInv PROVE TypeOK
        OBVIOUS
    <2> USE ShedulerAssumption
    <2>1. Len(processList) \in 1 .. MaxProcesses /\ Positions = 1 .. Len(processList)
        BY DEF IInv, Typed, Positions
    <2>2. \A i \in Positions : processList[i].pid = i /\ processList[i].directory = i
        BY DEF IInv, Listed
    <2>3. current \in Positions \cup {Null} /\ pidCounter = Len(processList) + 1
        BY <2>1 DEF IInv, Typed, Null
    <2>4. \A i \in Positions : processList[i].pid \in 1 .. pidCounter - 1
        BY <2>1, <2>2, <2>3
    <2>5. esp0 \in 0 .. MaxUsers
        BY UsersCounted DEF IInv, Typed
    <2>6. \A d \in Positions : stacks[d][1].fn = "main"
        BY DEF IInv, Stacked, Sound, Positions
    <2>7. stack \in {cr3} \cup {-k : k \in 1 .. esp0}
        <3>1. CASE stack = cr3
            BY <3>1
        <3>2. CASE stack \in -esp0 .. -1
            <4>1. -stack \in 1 .. esp0 /\ stack = -(-stack)
                BY <2>5, <3>2
            <4> QED
                BY <4>1
        <3> QED
            BY <3>1, <3>2 DEF IInv, Placed
    <2>8. {pageDirectory, cr3} \cup users \subseteq Positions /\ pc \in Points
          /\ status \in {"running", "stopped", "lost"}
        BY DEF IInv, Typed
    <2> QED
        BY <2>1, <2>2, <2>3, <2>4, <2>5, <2>6, <2>7, <2>8 DEF TypeOK
<1> QED
    BY <1>1, Invariance, PTL

\* Outside of the window in a program's switchTask the process in
\* currentProcess_ is the one that runs: what fork clones and getPage maps is
\* its own.
THEOREM RunsCurrent == ASSUME Racing = FALSE PROVE Spec => []RunningIsCurrent
<1>1. IInv => RunningIsCurrent
    <2> SUFFICES ASSUME IInv, status = "running", ~InWindow
                 PROVE  /\ current # Null /\ processList[current].directory = cr3
                        /\ pageDirectory = cr3
        BY DEF RunningIsCurrent
    <2>1. current = cr3 /\ pageDirectory = cr3
        BY DEF IInv, Running
    <2>2. current \in Positions
        BY <2>1 DEF IInv, Typed
    <2> QED
        BY <2>1, <2>2 DEF IInv, Listed, Positions, Null
<1> QED
    BY <1>1, Invariance, PTL
-----------------------------------------------------------------------------
(***************************************************************************)
(* For at most one process in user mode, whoever waits has its stacks to   *)
(* itself and finds on them what it left, so that the scheduler keeps the  *)
(* promise of module Processes.  With two, both are interrupted on one     *)
(* stack, and none of it holds.                                            *)
(***************************************************************************)

-----------------------------------------------------------------------------
(* The invariant.                                                          *)

\* The stacks a process may have frames on: its own and, from user mode, the
\* TSS's.
StacksOf(d) == {s \in StackNames : s = d \/ (s < 0 /\ d \in users)}

\* A process can be resumed with a context: it ends where the stack ends, in a
\* frame of the function that its eip belongs to.
WaitsIn(context, d, ss) ==
    LET on == StackIn(context.stack, d)
    IN  /\ context.esp = Len(ss[on]) /\ context.esp > 0
        /\ ss[on][context.esp].fn = ResumedIn(context.eip)

\* All others wait, and the running process between its save and the jump.
Waiting ==
    \A i \in Positions :
        (i # cr3 \/ InProgramsSwitch) => WaitsIn(processList[i].context, i, stacks)

\* A frame of stack s: an interrupt has left there the registers of a process
\* that the stack is for, and fork has been called by another process.
OwnFrame(frame, s, us) ==
    /\ frame.fn = "irq" =>
          (s > 0 => frame.registers = s) /\ (s < 0 => frame.registers \in us)
    /\ frame.fn = "fork" => frame.parentProc # s

Owned(ss, us) ==
    \A s \in StackNames : \A k \in 1 .. Len(ss[s]) : OwnFrame(ss[s][k], s, us)

\* What was loaded for the jump is what the PCB holds.
Loaded == pc = "jump" => Top.context = processList[current].context

OInv == Waiting /\ Owned(stacks, users) /\ Loaded /\ status # "lost"

\* What a step leaves alone: the stacks of all that do not run.
Kept == \A i \in Positions : i # cr3 => \A s \in StacksOf(i) : stacks'[s] = stacks[s]

-----------------------------------------------------------------------------
(* Whose stacks are whose.                                                 *)

LEMMA Named ==
    ASSUME IInv
    PROVE  /\ Len(processList) \in 1 .. MaxProcesses
           /\ users \in SUBSET Positions /\ cr3 \in Positions
           /\ Positions \subseteq StackNames /\ \A d \in Positions : d \in Nat \ {0}
           /\ stacks \in [StackNames -> Seq(Frame)]
           /\ stack \in StacksOf(cr3)
<1>1. Len(processList) \in 1 .. MaxProcesses
      /\ users \in SUBSET Positions /\ cr3 \in Positions
      /\ stacks \in [StackNames -> Seq(Frame)]
    BY DEF IInv, Typed, Stacked, Sound
<1>2. Positions \subseteq StackNames /\ \A d \in Positions : d \in Nat \ {0}
    BY <1>1, ShedulerAssumption DEF Positions, StackNames
<1>3. esp0 \in Nat /\ esp0 <= MaxUsers
    BY UsersCounted DEF IInv, Typed
<1>4. stack \in StacksOf(cr3)
    BY <1>1, <1>2, <1>3, ShedulerAssumption DEF IInv, Placed, StacksOf, StackNames
<1> QED
    BY <1>1, <1>2, <1>4

LEMMA OneUser ==
    ASSUME MaxUsers <= 1, Typed, NEW d \in users, NEW e \in users
    PROVE  d = e
<1>1. IsFiniteSet(users) /\ Cardinality(users) \in Nat
    BY UsersCounted, FS_CardinalityType
<1>2. Cardinality(users) <= MaxUsers /\ MaxUsers \in Nat
    BY ShedulerAssumption DEF Typed
<1>3. Cardinality(users) # 0
    BY <1>1, FS_EmptySet
<1>4. Cardinality(users) = 1
    BY <1>1, <1>2, <1>3
<1>5. PICK x : users = {x}
    BY <1>1, <1>4, FS_Singleton
<1> QED
    BY <1>5

\* No stack is for two processes.
LEMMA Apart ==
    ASSUME MaxUsers <= 1, IInv,
           NEW d \in Positions, NEW e \in Positions, d # e,
           NEW s \in StacksOf(d), NEW t \in StacksOf(e)
    PROVE  s # t
<1>1. d \in Nat \ {0} /\ e \in Nat \ {0}
    BY Named
<1>2. ~(d \in users /\ e \in users)
    BY OneUser DEF IInv
<1> QED
    BY <1>1, <1>2 DEF StacksOf

\* The stack that a good context lies on is one of the process's.
LEMMA ContextIn ==
    ASSUME IInv, NEW d \in Positions, NEW context, GoodContext(context, d)
    PROVE  StackIn(context.stack, d) \in StacksOf(d)
<1>1. context.stack \in StackNames /\ context.stack \in Int
    BY ShedulerAssumption DEF GoodContext, Context, StackNames
<1>2. d \in StackNames
    BY Named
<1> QED
    BY <1>1, <1>2 DEF GoodContext, StackIn, StacksOf

\* Those who wait go on waiting while only a stack of the running process
\* changes.
LEMMA Undisturbed ==
    ASSUME MaxUsers <= 1, IInv, Waiting,
           NEW s \in StacksOf(cr3), NEW ss,
           \A t \in StackNames : t # s => ss[t] = stacks[t],
           NEW i \in Positions, i # cr3
    PROVE  /\ WaitsIn(processList[i].context, i, ss)
           /\ \A t \in StacksOf(i) : ss[t] = stacks[t]
<1>1. ASSUME NEW t \in StacksOf(i)
      PROVE  ss[t] = stacks[t]
    <2>1. t # s
        BY Apart, Named
    <2> QED
        BY <2>1 DEF StacksOf
<1>2. StackIn(processList[i].context.stack, i) \in StacksOf(i)
    <2>1. GoodContext(processList[i].context, i)
        BY DEF IInv, Listed
    <2> QED
        BY <2>1, ContextIn
<1>3. WaitsIn(processList[i].context, i, stacks)
    BY DEF Waiting
<1>4. WaitsIn(processList[i].context, i, ss)
    BY <1>1, <1>2, <1>3 DEF WaitsIn
<1> QED
    BY <1>1, <1>4

-----------------------------------------------------------------------------
(* Steps in which the running process stays the running one.               *)

LEMMA OwnedReplaced ==
    ASSUME NEW ss \in [StackNames -> Seq(Frame)], NEW us, Owned(ss, us),
           NEW s \in StackNames, NEW new \in Seq(Frame),
           \A k \in 1 .. Len(new) : OwnFrame(new[k], s, us)
    PROVE  Owned([ss EXCEPT ![s] = new], us)
<1> DEFINE all == [ss EXCEPT ![s] = new]
<1>1. all[s] = new /\ \A t \in StackNames : t # s => all[t] = ss[t]
    OBVIOUS
<1> HIDE DEF all
<1>2. ASSUME NEW t \in StackNames, NEW k \in 1 .. Len(all[t])
      PROVE  OwnFrame(all[t][k], t, us)
    <2>1. CASE t = s
        BY <1>1, <2>1
    <2>2. CASE t # s
        BY <1>1, <2>2 DEF Owned
    <2> QED
        BY <2>1, <2>2
<1> QED
    BY <1>2 DEF Owned, all

\* The running process changes its stack and nothing of others.
LEMMA Local ==
    ASSUME MaxUsers <= 1, IInv, OInv,
           NEW new \in Seq(Frame), stacks' = [stacks EXCEPT ![stack] = new],
           \A k \in 1 .. Len(new) : OwnFrame(new[k], stack, users),
           cr3' = cr3, users' = users, Len(processList') = Len(processList),
           \A i \in Positions : i # cr3 => processList'[i] = processList[i],
           InProgramsSwitch' => WaitsIn(processList'[cr3].context, cr3, stacks')
    PROVE  Waiting' /\ Owned(stacks, users)' /\ Kept
<1>1. stack \in StacksOf(cr3) /\ stack \in StackNames
      /\ stacks \in [StackNames -> Seq(Frame)]
    BY Named DEF StacksOf
<1>2. \A t \in StackNames : t # stack => stacks'[t] = stacks[t]
    BY <1>1
<1>3. Positions' = Positions
    BY DEF Positions
<1>4. ASSUME NEW i \in Positions, i # cr3
      PROVE  /\ WaitsIn(processList[i].context, i, stacks')
             /\ \A t \in StacksOf(i) : stacks'[t] = stacks[t]
    <2> DEFINE ss == stacks'
    <2>1. \A t \in StackNames : t # stack => ss[t] = stacks[t]
        BY <1>2
    <2> HIDE DEF ss
    <2>2. /\ WaitsIn(processList[i].context, i, ss)
          /\ \A t \in StacksOf(i) : ss[t] = stacks[t]
        BY <1>1, <1>4, <2>1, Undisturbed DEF OInv
    <2> QED
        BY <2>2 DEF ss
<1>5. Kept
    BY <1>4 DEF Kept
<1>6. Waiting'
    <2> SUFFICES ASSUME NEW i \in Positions, i # cr3 \/ InProgramsSwitch'
                 PROVE  WaitsIn(processList'[i].context, i, stacks')
        BY <1>3 DEF Waiting, WaitsIn
    <2>1. CASE i = cr3
        BY <2>1
    <2>2. CASE i # cr3
        BY <1>4, <2>2
    <2> QED
        BY <2>1, <2>2
<1>7. Owned(stacks, users)'
    BY <1>1, OwnedReplaced DEF OInv, Owned
<1> QED
    BY <1>5, <1>6, <1>7

\* The running process changes no stack.
LEMMA Quiet ==
    ASSUME MaxUsers <= 1, IInv, OInv, stacks' = stacks,
           cr3' = cr3, users' = users, Len(processList') = Len(processList),
           \A i \in Positions : i # cr3 => processList'[i] = processList[i],
           InProgramsSwitch' => WaitsIn(processList'[cr3].context, cr3, stacks)
    PROVE  Waiting' /\ Owned(stacks, users)' /\ Kept
<1>1. stack \in StackNames /\ stacks \in [StackNames -> Seq(Frame)]
    BY Named DEF StacksOf
<1> DEFINE frames == stacks[stack]
<1>2. frames \in Seq(Frame) /\ stacks' = [stacks EXCEPT ![stack] = frames]
    BY <1>1
<1>3. \A k \in 1 .. Len(frames) : OwnFrame(frames[k], stack, users)
    BY <1>1 DEF OInv, Owned
<1> HIDE DEF frames
<1> QED
    BY <1>2, <1>3, Local

LEMMA InitOwned == Init => OInv
<1> SUFFICES ASSUME Init PROVE OInv
    OBVIOUS
<1>1. /\ processList = <<[pid |-> 1, directory |-> 1, context |-> NoContext]>>
      /\ cr3 = 1 /\ pc = "main" /\ status = "running"
      /\ stacks = [s \in StackNames |-> IF s = 1 THEN <<Main(<<>>)>> ELSE <<>>]
    BY DEF Init, InitialSpace
<1>2. Positions = {1}
    BY <1>1 DEF Positions
<1>3. Waiting /\ Loaded
    BY <1>1, <1>2 DEF Waiting, Loaded, InProgramsSwitch
<1>4. ASSUME NEW s \in StackNames, NEW k \in 1 .. Len(stacks[s])
      PROVE  OwnFrame(stacks[s][k], s, users)
    <2>1. stacks[s] \in {<<Main(<<>>)>>, <<>>}
        BY <1>1
    <2>2. stacks[s][k].fn = "main"
        BY <2>1 DEF Main
    <2> QED
        BY <2>2 DEF OwnFrame
<1> QED
    BY <1>1, <1>3, <1>4 DEF OInv, Owned

LEMMA ReturnOwned ==
    ASSUME MaxUsers <= 1, IInv, OInv, Return
    PROVE  OInv' /\ Kept
<1> DEFINE frames == stacks[stack]
           n == Len(frames)
           new == SubSeq(frames, 1, n - 1)
<1>1. /\ status = "running" /\ pc \in {"switched", "handled"} /\ pc' = Top.ret
      /\ stacks' = [stacks EXCEPT ![stack] = new]
      /\ UNCHANGED <<processList, current, cr3, status, users>>
    BY DEF Return, Front, mode
<1>2. /\ stack \in StackNames /\ frames \in Seq(Frame) /\ n \in Nat \ {0}
      /\ Top = frames[n] /\ Laid(frames, n) /\ InFunction(pc, Top)
    BY <1>1, OnTop
<1>3. new \in Seq(Frame) /\ Len(new) = n - 1 /\ \A k \in 1 .. n - 1 : new[k] = frames[k]
    BY <1>2
<1>4. \A k \in 1 .. n : OwnFrame(frames[k], stack, users)
    BY <1>2 DEF OInv, Owned
<1>5. Top.ret \in Interruptible
    <2>1. Top.fn \in {"switchTask", "irq"}
        BY <1>1, <1>2 DEF InFunction, ProgramsSwitch
    <2> QED
        BY <1>2, <2>1 DEF Laid, Interruptible
<1> HIDE DEF frames, n, new
<1>6. \A k \in 1 .. Len(new) : OwnFrame(new[k], stack, users)
    BY <1>2, <1>3, <1>4
<1>7. ~InProgramsSwitch' /\ pc' # "jump"
    BY <1>1, <1>5 DEF InProgramsSwitch, Interruptible
<1>8. Waiting' /\ Owned(stacks, users)' /\ Kept
    BY <1>1, <1>3, <1>6, <1>7, Local
<1> QED
    BY <1>1, <1>7, <1>8 DEF OInv, Loaded

LEMMA CallSwitchOwned ==
    ASSUME MaxUsers <= 1, IInv, OInv, CallSwitch
    PROVE  OInv' /\ Kept
<1> DEFINE frames == stacks[stack]
           f == SwitchFrame("main")
           new == Append(frames, f)
<1>1. /\ status = "running" /\ pc = "main" /\ pc' = "save"
      /\ stacks' = [stacks EXCEPT ![stack] = frames \o <<f>>]
      /\ UNCHANGED <<processList, current, cr3, status, users>>
    BY DEF CallSwitch, Push, mode
<1>2. stack \in StackNames /\ frames \in Seq(Frame)
    BY <1>1, OnTop
<1>3. f \in Frame /\ f.fn = "switchTask"
    BY ShedulerAssumption
       DEF Frame, SwitchFrame, NoContext, Context, InitialSpace, StackNames, Null
<1>4. \A k \in 1 .. Len(frames) : OwnFrame(frames[k], stack, users)
    BY <1>2 DEF OInv, Owned
<1> HIDE DEF frames, f
<1>5. /\ new \in Seq(Frame) /\ frames \o <<f>> = new /\ Len(new) = Len(frames) + 1
      /\ \A k \in 1 .. Len(frames) : new[k] = frames[k]
      /\ new[Len(frames) + 1] = f
    BY <1>2, <1>3, Appended
<1> HIDE DEF new
<1>6. ASSUME NEW k \in 1 .. Len(new)
      PROVE  OwnFrame(new[k], stack, users)
    <2>1. CASE k \in 1 .. Len(frames)
        BY <1>4, <1>5, <2>1
    <2>2. CASE k = Len(frames) + 1
        BY <1>3, <1>5, <2>2 DEF OwnFrame
    <2> QED
        BY <1>2, <1>5, <2>1, <2>2
<1>7. ~InProgramsSwitch' /\ pc' # "jump"
    BY <1>1 DEF InProgramsSwitch
<1>8. Waiting' /\ Owned(stacks, users)' /\ Kept
    BY <1>1, <1>5, <1>6, <1>7, Local
<1> QED
    BY <1>1, <1>7, <1>8 DEF OInv, Loaded

\* A saved context names the end of the stack it was saved on.
LEMMA SavedHere ==
    ASSUME IInv, NEW s \in StacksOf(cr3), NEW ss,
           Len(ss[s]) > 0, ss[s][Len(ss[s])].fn = "switchTask"
    PROVE  WaitsIn(SwitchedAt(s, Len(ss[s])), cr3, ss)
<1> DEFINE context == SwitchedAt(s, Len(ss[s]))
<1>1. context.stack = s /\ context.esp = Len(ss[s]) /\ context.eip = "switched"
    BY DEF SwitchedAt
<1>2. StackIn(s, cr3) = s
    <2>1. s \in Int
        BY ShedulerAssumption DEF StacksOf, StackNames
    <2> QED
        BY <2>1, Named DEF StackIn, StacksOf
<1> HIDE DEF context
<1>3. WaitsIn(context, cr3, ss)
    BY <1>1, <1>2 DEF WaitsIn, ResumedIn
<1> QED
    BY <1>3 DEF context

\* Saving a context leaves those of other processes.
LEMMA SavedOnce ==
    ASSUME IInv, current = cr3, NEW context
    PROVE  /\ Len(SavedAs(current, context)) = Len(processList)
           /\ SavedAs(current, context)[cr3].context = context
           /\ \A i \in Positions : i # cr3 =>
                 SavedAs(current, context)[i] = processList[i]
<1>1. cr3 \in Positions /\ processList \in Seq(Pcb)
    BY DEF IInv, Typed
<1>2. processList[cr3] \in Pcb
    BY <1>1 DEF Positions
<1> DEFINE pcb == [processList[cr3] EXCEPT !.context = context]
<1>3. pcb.context = context
    BY <1>2 DEF Pcb
<1>4. SavedAs(current, context) = [processList EXCEPT ![cr3] = pcb]
    BY DEF SavedAs
<1> HIDE DEF pcb
<1> QED
    BY <1>1, <1>3, <1>4 DEF Positions

LEMMA SaveOwned ==
    ASSUME MaxUsers <= 1, IInv, OInv, Save
    PROVE  OInv' /\ Kept
<1> DEFINE context == SwitchedAt(stack, Depth(stack))
<1>1. /\ status = "running" /\ pc = "save" /\ pc' = "advance"
      /\ processList' = SavedAs(current, context)
      /\ UNCHANGED <<current, cr3, stack, stacks, status, users>>
    BY DEF Save, mode
<1>2. current = cr3
    BY <1>1 DEF IInv, Running, InWindow
<1>3. Len(stacks[stack]) > 0 /\ stacks[stack][Len(stacks[stack])].fn = "switchTask"
    BY <1>1, OnTop DEF InFunction
<1>4. WaitsIn(context, cr3, stacks)
    BY <1>3, SavedHere, Named DEF Depth
<1> HIDE DEF context
<1>5. /\ Len(processList') = Len(processList) /\ processList'[cr3].context = context
      /\ \A i \in Positions : i # cr3 => processList'[i] = processList[i]
    BY <1>1, <1>2, SavedOnce
<1>6. Waiting' /\ Owned(stacks, users)' /\ Kept
    BY <1>1, <1>4, <1>5, Quiet
<1> QED
    BY <1>1, <1>6 DEF OInv, Loaded

LEMMA WindowOwned ==
    ASSUME MaxUsers <= 1, IInv, OInv, Advance \/ Wrap
    PROVE  OInv' /\ Kept
<1>1. /\ status = "running" /\ pc \in {"advance", "wrap"} /\ pc' \in {"wrap", "load"}
      /\ UNCHANGED <<processList, cr3, stack, stacks, status, users>>
    BY DEF Advance, Wrap, mode
<1>2. WaitsIn(processList[cr3].context, cr3, stacks)
    BY <1>1, Named DEF OInv, Waiting, InProgramsSwitch
<1>3. Waiting' /\ Owned(stacks, users)' /\ Kept
    BY <1>1, <1>2, Quiet
<1> QED
    BY <1>1, <1>3 DEF OInv, Loaded

LEMMA FaultOwned ==
    ASSUME MaxUsers <= 1, IInv, OInv, Fault
    PROVE  OInv' /\ Kept
<1>1. /\ pc = "main" /\ pc' = pc /\ status' = "stopped"
      /\ UNCHANGED <<processList, cr3, stack, stacks, users>>
    BY DEF Fault, mode
<1>2. ~InProgramsSwitch'
    BY <1>1 DEF InProgramsSwitch
<1>3. Waiting' /\ Owned(stacks, users)' /\ Kept
    BY <1>1, <1>2, Quiet
<1> QED
    BY <1>1, <1>3 DEF OInv, Loaded

\* Writing to the frame of a program's switchTask leaves the stack as it was
\* saved.
LEMMA TopWritten ==
    ASSUME IInv, OInv, status = "running", pc \in {"load", "jump"},
           NEW f \in Frame, f.fn = "switchTask"
    PROVE  LET new == Append(Front(stacks[stack]), f)
           IN  /\ new \in Seq(Frame) /\ Len(new) > 0 /\ new[Len(new)] = f
               /\ \A k \in 1 .. Len(new) : OwnFrame(new[k], stack, users)
               /\ WaitsIn(processList[cr3].context, cr3,
                          [stacks EXCEPT ![stack] = new])
<1> DEFINE frames == stacks[stack]
           n == Len(frames)
           below == SubSeq(frames, 1, n - 1)
           new == Append(below, f)
           ss == [stacks EXCEPT ![stack] = new]
<1>1. /\ stack \in StackNames /\ frames \in Seq(Frame) /\ n \in Nat \ {0}
      /\ frames[n].fn = "switchTask"
    BY OnTop DEF InFunction, ProgramsSwitch
<1>2. Front(stacks[stack]) = below
    BY DEF Front
<1>3. \A k \in 1 .. n : OwnFrame(frames[k], stack, users)
    BY <1>1 DEF OInv, Owned
<1>4. ss[stack] = new /\ \A t \in StackNames : t # stack => ss[t] = stacks[t]
    BY <1>1, Named
<1>5. below \in Seq(Frame) /\ Len(below) = n - 1
      /\ \A k \in 1 .. n - 1 : below[k] = frames[k]
    BY <1>1
<1> HIDE DEF frames, n, below
<1>6. new \in Seq(Frame) /\ Len(new) = n /\ new[n] = f
      /\ \A k \in 1 .. n - 1 : new[k] = frames[k]
    BY <1>1, <1>5, Appended
<1> HIDE DEF new, ss
<1>7. ASSUME NEW k \in 1 .. n
      PROVE  OwnFrame(new[k], stack, users)
    <2>1. CASE k = n
        BY <1>6, <2>1 DEF OwnFrame
    <2>2. CASE k # n
        BY <1>1, <1>3, <1>6, <2>2
    <2> QED
        BY <2>1, <2>2
<1> DEFINE context == processList[cr3].context
           on == StackIn(context.stack, cr3)
<1>8. WaitsIn(context, cr3, stacks)
    BY Named DEF OInv, Waiting, InProgramsSwitch
<1>9. on \in StackNames
    <2>1. GoodContext(context, cr3)
        BY Named DEF IInv, Listed
    <2> HIDE DEF context
    <2> QED
        BY <2>1, ContextIn, Named DEF StacksOf
<1> HIDE DEF context
<1>10. /\ context.esp = Len(stacks[on]) /\ context.esp > 0
       /\ stacks[on][context.esp].fn = ResumedIn(context.eip)
    BY <1>8 DEF WaitsIn
<1>11. context.esp = Len(ss[on]) /\ ss[on][context.esp].fn = ResumedIn(context.eip)
    <2>1. CASE on = stack
        BY <1>1, <1>4, <1>6, <1>10, <2>1 DEF frames, n
    <2>2. CASE on # stack
        BY <1>4, <1>9, <1>10, <2>2
    <2> QED
        BY <2>1, <2>2
<1>12. WaitsIn(context, cr3, ss)
    BY <1>10, <1>11 DEF WaitsIn
<1> QED
    BY <1>1, <1>2, <1>6, <1>7, <1>12 DEF ss, new, context

LEMMA LoadOwned ==
    ASSUME MaxUsers <= 1, IInv, IInv', OInv, Load
    PROVE  OInv' /\ Kept
<1> DEFINE process == processList[current]
           f == [Top EXCEPT !.context = process.context,
                            !.directory = process.directory]
           new == Append(Front(stacks[stack]), f)
<1>1. /\ status = "running" /\ pc = "load" /\ pc' = "jump"
      /\ stacks' = [stacks EXCEPT ![stack] = new]
      /\ UNCHANGED <<processList, current, cr3, stack, status, users>>
    BY DEF Load, mode
<1>2. Top \in Frame /\ Top.fn = "switchTask" /\ stack \in StackNames
    BY <1>1, OnTop DEF InFunction, ProgramsSwitch
<1>3. process.context \in Context /\ process.directory \in Nat
    BY <1>1 DEF IInv, Listed, Running, Typed, Positions, Null, GoodContext
<1>4. f \in Frame /\ f.fn = "switchTask" /\ f.context = process.context
    <2>1. Top \in [fn : {"switchTask"}, ret : {"main", "handled"},
                   context : Context, directory : Nat]
        BY <1>2 DEF Frame
    <2> QED
        BY <1>3, <2>1 DEF Frame
<1> HIDE DEF f
<1>5. /\ new \in Seq(Frame) /\ Len(new) > 0 /\ new[Len(new)] = f
      /\ \A k \in 1 .. Len(new) : OwnFrame(new[k], stack, users)
      /\ WaitsIn(processList[cr3].context, cr3, [stacks EXCEPT ![stack] = new])
    BY <1>1, <1>4, TopWritten
<1> HIDE DEF new
<1>6. Waiting' /\ Owned(stacks, users)' /\ Kept
    BY <1>1, <1>5, Local
<1>7. stacks'[stack'] = new
    BY <1>1, <1>2, Named
<1>8. Top' = f
    BY <1>5, <1>7 DEF Top, Last
<1>9. Loaded'
    BY <1>1, <1>4, <1>8 DEF Loaded
<1> QED
    BY <1>1, <1>6, <1>9 DEF OInv

-----------------------------------------------------------------------------
(* Steps to another process.                                               *)

\* Whoever waits goes on where it was, and no stack changes.
LEMMA ResumedWhole ==
    ASSUME IInv, NEW ss \in [StackNames -> Seq(Frame)], NEW d \in Positions,
           NEW context, GoodContext(context, d), WaitsIn(context, d, ss),
           Resume(context, d, ss)
    PROVE  /\ cr3' = d /\ stacks' = ss /\ status' = "running"
           /\ ~InProgramsSwitch' /\ pc' # "jump"
<1> DEFINE on == StackIn(context.stack, d)
           esp == context.esp
<1>1. on \in StackNames
    BY ContextIn DEF StacksOf
<1> HIDE DEF on
<1>2. /\ esp = Len(ss[on]) /\ esp \in 1 .. Len(ss[on])
      /\ ss[on][esp].fn = ResumedIn(context.eip)
    BY <1>1 DEF WaitsIn, on
<1>3. /\ cr3' = d /\ pc' = context.eip /\ status' = "running"
      /\ stacks' = [ss EXCEPT ![on] = SubSeq(@, 1, esp)]
    BY <1>2 DEF Resume, on
<1>4. SubSeq(ss[on], 1, esp) = ss[on]
    BY <1>1, <1>2
<1>5. stacks' = ss
    BY <1>1, <1>3, <1>4
<1>6. context.eip \in {"none", "switched", "forked"}
    BY DEF GoodContext, Context
<1> QED
    BY <1>3, <1>5, <1>6 DEF InProgramsSwitch

\* Everyone waits in ss, and one of them goes on.
LEMMA GoesOn ==
    ASSUME IInv, NEW ss \in [StackNames -> Seq(Frame)], Owned(ss, users),
           users' = users, Len(processList') = Len(processList),
           \A i \in Positions : WaitsIn(processList'[i].context, i, ss),
           NEW d \in Positions, GoodContext(processList'[d].context, d),
           Resume(processList'[d].context, d, ss),
           \A i \in Positions : i # cr3 =>
              \A t \in StacksOf(i) : ss[t] = stacks[t]
    PROVE  OInv' /\ Kept /\ cr3' = d /\ stacks' = ss
<1> DEFINE context == processList'[d].context
<1>1. GoodContext(context, d) /\ WaitsIn(context, d, ss) /\ Resume(context, d, ss)
    OBVIOUS
<1> HIDE DEF context
<1>2. /\ cr3' = d /\ stacks' = ss /\ status' = "running"
      /\ ~InProgramsSwitch' /\ pc' # "jump"
    BY <1>1, ResumedWhole
<1>3. Positions' = Positions
    BY DEF Positions
<1>4. Waiting'
    BY <1>2, <1>3 DEF Waiting, WaitsIn
<1>5. Owned(stacks, users)'
    BY <1>2 DEF Owned
<1>6. Kept
    BY <1>2 DEF Kept
<1> QED
    BY <1>2, <1>4, <1>5, <1>6 DEF OInv, Loaded

LEMMA JumpOwned ==
    ASSUME MaxUsers <= 1, IInv, OInv, Jump
    PROVE  /\ OInv' /\ Kept /\ cr3' \in Positions
           /\ stacks' = [stacks EXCEPT ![stack] =
                            Append(Front(stacks[stack]), SwitchFrame("main"))]
<1> DEFINE f == SwitchFrame("main")
           new == Append(Front(stacks[stack]), f)
           ss == [stacks EXCEPT ![stack] = new]
<1>1. /\ status = "running" /\ pc = "jump"
      /\ Resume(Top.context, Top.directory, ss)
      /\ UNCHANGED <<processList, current, users>>
    BY DEF Jump, mode
<1>2. current \in Positions /\ Top.directory = current
      /\ Top.context = processList[current].context
      /\ GoodContext(processList[current].context, current)
    BY <1>1 DEF IInv, Running, Typed, Positions, Null, OInv, Loaded, Listed
<1>3. f \in Frame /\ f.fn = "switchTask"
    BY ShedulerAssumption
       DEF Frame, SwitchFrame, NoContext, Context, InitialSpace, StackNames, Null
<1> HIDE DEF f
<1>4. /\ new \in Seq(Frame)
      /\ \A k \in 1 .. Len(new) : OwnFrame(new[k], stack, users)
      /\ WaitsIn(processList[cr3].context, cr3, ss)
    BY <1>1, <1>3, TopWritten
<1> HIDE DEF new
<1>5. stack \in StacksOf(cr3) /\ stack \in StackNames
      /\ stacks \in [StackNames -> Seq(Frame)]
    BY Named DEF StacksOf
<1>6. ss \in [StackNames -> Seq(Frame)]
      /\ \A t \in StackNames : t # stack => ss[t] = stacks[t]
    BY <1>4, <1>5
<1>7. Owned(ss, users)
    BY <1>4, <1>5, OwnedReplaced DEF OInv
<1> HIDE DEF ss
<1>8. ASSUME NEW i \in Positions, i # cr3
      PROVE  /\ WaitsIn(processList[i].context, i, ss)
             /\ \A t \in StacksOf(i) : ss[t] = stacks[t]
    BY <1>5, <1>6, <1>8, Undisturbed DEF OInv
<1>9. ASSUME NEW i \in Positions
      PROVE  WaitsIn(processList'[i].context, i, ss)
    <2>1. CASE i = cr3
        BY <1>1, <1>4, <2>1
    <2>2. CASE i # cr3
        BY <1>1, <1>8, <2>2
    <2> QED
        BY <2>1, <2>2
<1>10. Resume(processList'[current].context, current, ss)
       /\ GoodContext(processList'[current].context, current)
    BY <1>1, <1>2
<1>11. OInv' /\ Kept /\ cr3' = current /\ stacks' = ss
    BY <1>1, <1>2, <1>6, <1>7, <1>8, <1>9, <1>10, GoesOn
<1> QED
    BY <1>2, <1>11 DEF ss, new, f

\* A timer interrupt saves the running process where it is.
LEMMA TimerOwned ==
    ASSUME Racing = FALSE, MaxUsers <= 1, IInv, OInv, Timer
    PROVE  /\ OInv' /\ Kept /\ cr3' \in Positions
           /\ stacks' = [stacks EXCEPT ![InterruptStack] =
                            (IF InterruptStack = stack
                             THEN stacks[InterruptStack] ELSE <<>>)
                            \o <<IrqFrame, SwitchFrame("handled")>>]
<1> DEFINE s == InterruptStack
           base == IF s = stack THEN stacks[s] ELSE <<>>
           switch == SwitchFrame("handled")
           frames == base \o <<IrqFrame, switch>>
           pushed == [stacks EXCEPT ![s] = frames]
           context == SwitchedAt(s, Len(frames))
           saved == SavedAs(current, context)
           next == Successor(current)
<1>1. /\ status = "running" /\ ~InProgramsSwitch
      /\ current' = next /\ users' = users
    BY DEF Timer, mode
<1>2. pc \in Interruptible
    <2>1. InFunction(pc, Top)
        BY <1>1, OnTop
    <2> QED
        BY <2>1, <1>1 DEF InFunction, ProgramsSwitch, Interruptible, InProgramsSwitch
<1>3. /\ s \in StackNames /\ s \in StacksOf(cr3)
      /\ Sound(pushed, Len(processList), users)
    <2>1. /\ s \in StackNames /\ (s = cr3 \/ (s \in -esp0 .. -1 /\ cr3 \in users))
          /\ Sound(pushed, Len(processList), users)
        BY <1>1, <1>2, TimerPushes
    <2> HIDE DEF s
    <2>2. s \in StacksOf(cr3)
        BY <2>1 DEF StacksOf
    <2> QED
        BY <2>1, <2>2
<1>4. stacks \in [StackNames -> Seq(Frame)]
    BY Named
<1>5. pushed \in [StackNames -> Seq(Frame)]
    BY <1>3 DEF Sound
<1>6. pushed[s] = frames /\ \A t \in StackNames : t # s => pushed[t] = stacks[t]
    BY <1>3, <1>4
<1>7. /\ processList' = saved
      /\ Resume(saved[next].context, saved[next].directory, pushed)
    <2> DEFINE full == [stacks EXCEPT ![s] = (IF s = stack THEN @ ELSE <<>>)
                                    \o <<IrqFrame, SwitchFrame("handled")>>]
    <2>1. /\ processList' = SavedAs(current, SwitchedAt(s, Len(full[s])))
          /\ Resume(SavedAs(current, SwitchedAt(s, Len(full[s])))[next].context,
                    SavedAs(current, SwitchedAt(s, Len(full[s])))[next].directory,
                    full)
        BY DEF Timer
    <2>2. full = pushed
        OBVIOUS
    <2> HIDE DEF full, pushed, frames
    <2> QED
        BY <2>1, <2>2, <1>6
<1>8. current = cr3 /\ current \in Positions
    <2>1. ~InWindow
        BY <1>2 DEF InWindow, Interruptible
    <2> QED
        BY <1>1, <2>1, Named DEF IInv, Running
<1>9. base \in Seq(Frame) /\ \A k \in 1 .. Len(base) : OwnFrame(base[k], s, users)
    BY <1>3, <1>4 DEF OInv, Owned
<1>10. switch \in Frame /\ switch.fn = "switchTask"
    BY ShedulerAssumption
       DEF Frame, SwitchFrame, NoContext, Context, InitialSpace, StackNames, Null
<1>11. IrqFrame \in Frame /\ IrqFrame.fn = "irq" /\ IrqFrame.registers = cr3
    BY <1>2, IrqFramed DEF IInv, IrqFrame
<1> HIDE DEF base, switch, s
<1>12. /\ frames \in Seq(Frame) /\ Len(frames) = Len(base) + 2
       /\ \A k \in 1 .. Len(base) : frames[k] = base[k]
       /\ frames[Len(base) + 1] = IrqFrame /\ frames[Len(base) + 2] = switch
    <2> DEFINE irq == IrqFrame
    <2>1. irq \in Frame
        BY <1>11
    <2> HIDE DEF irq
    <2>2. /\ base \o <<irq, switch>> \in Seq(Frame)
          /\ Len(base \o <<irq, switch>>) = Len(base) + 2
          /\ \A k \in 1 .. Len(base) : (base \o <<irq, switch>>)[k] = base[k]
          /\ (base \o <<irq, switch>>)[Len(base) + 1] = irq
          /\ (base \o <<irq, switch>>)[Len(base) + 2] = switch
        BY <1>9, <1>10, <2>1
    <2> QED
        BY <2>2 DEF irq
<1> HIDE DEF frames, pushed
<1>13. \A k \in 1 .. Len(frames) : OwnFrame(frames[k], s, users)
    <2> TAKE k \in 1 .. Len(frames)
    <2>1. CASE k \in 1 .. Len(base)
        BY <1>9, <1>12, <2>1
    <2>2. CASE k = Len(base) + 1
        <3>1. frames[k] = IrqFrame
            BY <1>12, <2>2
        <3>2. s \in Int /\ cr3 \in Nat \ {0}
            BY <1>3, Named, ShedulerAssumption DEF StackNames
        <3>3. (s > 0 => cr3 = s) /\ (s < 0 => cr3 \in users)
            BY <1>3, <3>2 DEF StacksOf
        <3>4. frames[k].fn = "irq" /\ frames[k].registers = cr3
            BY <1>11, <3>1
        <3> HIDE DEF frames
        <3> QED
            BY <3>3, <3>4 DEF OwnFrame
    <2>3. CASE k = Len(base) + 2
        BY <1>10, <1>12, <2>3 DEF OwnFrame
    <2> QED
        BY <1>9, <1>12, <2>1, <2>2, <2>3
<1>14. Owned(pushed, users)
    <2>1. Owned([stacks EXCEPT ![s] = frames], users)
        BY <1>3, <1>4, <1>12, <1>13, OwnedReplaced DEF OInv
    <2> QED
        BY <2>1 DEF pushed
<1>15. ASSUME NEW i \in Positions, i # cr3
       PROVE  /\ WaitsIn(processList[i].context, i, pushed)
              /\ \A t \in StacksOf(i) : pushed[t] = stacks[t]
    BY <1>3, <1>6, <1>15, Undisturbed DEF OInv
<1>16. WaitsIn(context, cr3, pushed)
    <2>1. Len(pushed[s]) > 0 /\ pushed[s][Len(pushed[s])].fn = "switchTask"
        BY <1>6, <1>9, <1>10, <1>12
    <2>2. WaitsIn(SwitchedAt(s, Len(pushed[s])), cr3, pushed)
        BY <1>3, <2>1, SavedHere
    <2> QED
        BY <1>6, <2>2
<1> HIDE DEF context
<1>17. /\ Len(saved) = Len(processList) /\ saved[cr3].context = context
       /\ \A i \in Positions : i # cr3 => saved[i] = processList[i]
    BY <1>8, SavedOnce
<1>18. ASSUME NEW i \in Positions
       PROVE  WaitsIn(processList'[i].context, i, pushed)
    <2>1. CASE i = cr3
        BY <1>7, <1>16, <1>17, <2>1
    <2>2. CASE i # cr3
        BY <1>7, <1>15, <1>17, <2>2
    <2> QED
        BY <2>1, <2>2
<1>19. next \in Positions
    BY <1>8 DEF Successor, Positions, IInv, Typed
<1>20. IInv'
    BY TimerKeeps
<1>21. Positions' = Positions
    BY <1>7, <1>17 DEF Positions
<1>22. processList'[next].directory = next
    BY <1>19, <1>20, <1>21 DEF IInv, Listed
<1>23. GoodContext(processList'[next].context, next)
    <2>1. \A j \in Positions' : GoodContext(processList[j].context, j)'
        BY <1>20 DEF IInv, Listed
    <2>2. esp0' = esp0
        BY DEF Timer, mode
    <2>3. \A j \in Positions' : GoodContext(processList'[j].context, j)
        BY <1>1, <2>1, <2>2 DEF GoodContext, Context, StackNames
    <2> QED
        BY <1>19, <1>21, <2>3
<1> HIDE DEF saved, next
<1>24. Resume(processList'[next].context, next, pushed)
    BY <1>7, <1>22
<1>25. OInv' /\ Kept /\ cr3' = next /\ stacks' = pushed
    BY <1>1, <1>5, <1>7, <1>14, <1>15, <1>17, <1>18, <1>19, <1>23, <1>24, GoesOn
<1> QED
    BY <1>19, <1>25 DEF pushed, frames, switch, base, s

-----------------------------------------------------------------------------
(* Forks and user mode.                                                    *)

\* In fork a child is on its own stack, above main.
LEMMA InChild ==
    ASSUME IInv, status = "running", pc = "forked"
    PROVE  /\ stack = cr3 /\ current = cr3
           /\ stacks[cr3] \in Seq(Frame) /\ Len(stacks[cr3]) = 2
           /\ stacks[cr3][1] \in Frame /\ stacks[cr3][1].fn = "main"
           /\ stacks[cr3][2] = Top /\ Top.fn = "fork"
<1> DEFINE frames == stacks[stack]
<1>1. /\ stack \in StackNames /\ frames \in Seq(Frame) /\ Shape(frames)
      /\ Len(frames) > 0 /\ Top = frames[Len(frames)] /\ Laid(frames, Len(frames))
      /\ InFunction(pc, Top)
    BY OnTop
<1>2. Top.fn = "fork" /\ Len(frames) = 2 /\ Top = frames[2]
    BY <1>1 DEF InFunction, ProgramsSwitch, Laid
<1>3. frames[1] \in Frame /\ frames[1].fn = "main"
    BY <1>1, <1>2 DEF Laid
<1>4. stack = cr3
    <2>1. ~(stack < 0)
        BY <1>1, <1>2, <1>3 DEF IInv, Stacked, Sound
    <2> QED
        BY <2>1 DEF IInv, Placed
<1>5. current = cr3
    BY DEF IInv, Running, InWindow
<1> QED
    BY <1>1, <1>2, <1>3, <1>4, <1>5

\* A child is not who called fork, so it returns 0.
LEMMA NotTheParent ==
    ASSUME IInv, OInv, ForkInChild
    PROVE  /\ current # Top.parentProc
           /\ pc' = "main" /\ status' = status
           /\ stacks' = [stacks EXCEPT ![cr3] =
                            <<Main(Append(stacks[cr3][1].history, 0))>>]
           /\ UNCHANGED <<processList, cr3, stack, users>>
<1>1. /\ status = "running" /\ pc = "forked"
      /\ UNCHANGED <<processList, cr3, stack, users>>
    BY DEF ForkInChild, mode
<1>2. /\ stack = cr3 /\ current = cr3 /\ Len(stacks[cr3]) = 2
      /\ stacks[cr3] \in Seq(Frame)
      /\ stacks[cr3][2] = Top /\ Top.fn = "fork"
    BY <1>1, InChild
<1>3. OwnFrame(Top, cr3, users)
    <2>1. cr3 \in StackNames /\ 2 \in 1 .. Len(stacks[cr3])
        BY <1>2, Named
    <2> QED
        BY <1>2, <2>1 DEF OInv, Owned
<1>4. current # Top.parentProc
    BY <1>2, <1>3 DEF OwnFrame
<1>5. /\ pc' = "main" /\ status' = status
      /\ stacks' = [stacks EXCEPT ![stack] =
                       Append(Front(Front(stacks[stack])), Returned(0))]
    BY <1>4 DEF ForkInChild, PopAs
<1>6. Front(Front(stacks[cr3])) = <<>>
    BY <1>2 DEF Front
<1>7. Returned(0) = Main(Append(stacks[cr3][1].history, 0))
    BY <1>2 DEF Returned, Depth
<1>8. Append(<<>>, Returned(0)) = <<Returned(0)>>
    OBVIOUS
<1> QED
    BY <1>1, <1>2, <1>4, <1>5, <1>6, <1>7, <1>8

\* The frame of main after fork has returned.
LEMMA MainFrame ==
    ASSUME NEW history \in Seq(Nat), NEW result \in Nat
    PROVE  /\ Main(Append(history, result)) \in Frame
           /\ Main(Append(history, result)).fn = "main"
           /\ Main(Append(history, result)).history = Append(history, result)
<1> DEFINE h == Append(history, result)
<1>1. h \in Seq(Nat)
    OBVIOUS
<1> HIDE DEF h
<1>2. Main(h) \in [fn : {"main"}, history : Seq(Nat)]
      /\ Main(h).fn = "main" /\ Main(h).history = h
    BY <1>1 DEF Main
<1>3. Main(h) \in Frame
    BY <1>2 DEF Frame
<1> QED
    BY <1>2, <1>3 DEF h

LEMMA ForkInChildOwned ==
    ASSUME MaxUsers <= 1, IInv, OInv, ForkInChild
    PROVE  OInv' /\ Kept
<1> DEFINE m == Main(Append(stacks[cr3][1].history, 0))
           new == <<m>>
<1>1. /\ pc' = "main" /\ status' = status
      /\ stacks' = [stacks EXCEPT ![cr3] = new]
      /\ UNCHANGED <<processList, cr3, stack, users>>
    BY NotTheParent
<1>2. stack = cr3 /\ stacks[cr3][1] \in Frame /\ stacks[cr3][1].fn = "main"
    BY InChild DEF ForkInChild
<1>3. stacks[cr3][1].history \in Seq(Nat)
    BY <1>2 DEF Frame
<1>4. m \in Frame /\ m.fn = "main"
    BY <1>3, MainFrame
<1> HIDE DEF m
<1>5. new \in Seq(Frame) /\ Len(new) = 1 /\ new[1] = m
    BY <1>4
<1>6. \A k \in 1 .. Len(new) : OwnFrame(new[k], stack, users)
    BY <1>4, <1>5 DEF OwnFrame
<1>7. ~InProgramsSwitch' /\ pc' # "jump"
    BY <1>1 DEF InProgramsSwitch
<1> HIDE DEF new
<1>8. Waiting' /\ Owned(stacks, users)' /\ Kept
    BY <1>1, <1>2, <1>5, <1>6, <1>7, Local
<1> QED
    BY <1>1, <1>7, <1>8 DEF OInv, Loaded

LEMMA SwitchToUserModeOwned ==
    ASSUME IInv, OInv, SwitchToUserMode
    PROVE  OInv' /\ Kept
<1>1. /\ pc = "main" /\ users' = users \cup {cr3}
      /\ UNCHANGED <<processList, current, cr3, pc, stack, stacks, status>>
    BY DEF SwitchToUserMode, processor
<1>2. Positions' = Positions
    BY <1>1 DEF Positions
<1>3. Waiting'
    BY <1>1, <1>2 DEF OInv, Waiting, WaitsIn, InProgramsSwitch
<1>4. Owned(stacks, users)'
    BY <1>1 DEF OInv, Owned, OwnFrame
<1>5. Kept
    BY <1>1 DEF Kept
<1> QED
    BY <1>1, <1>3, <1>4, <1>5 DEF OInv, Loaded

\* A frame on a stack of one.
LEMMA OnOne ==
    ASSUME NEW frames \in Seq(Frame), Len(frames) = 1, NEW f \in Frame
    PROVE  frames \o <<f>> = <<frames[1], f>>
<1> DEFINE two == Append(frames, f)
           e == frames[1]
<1>1. /\ two \in Seq(Frame) /\ Len(two) = Len(frames) + 1
      /\ frames \o <<f>> = two
      /\ \A k \in 1 .. Len(frames) : two[k] = frames[k]
      /\ two[Len(frames) + 1] = f
    BY Appended
<1> HIDE DEF two
<1>2. Len(two) = 2 /\ two[1] = e /\ two[2] = f
    BY <1>1
<1>3. two = <<e, f>>
    <2> HIDE DEF e
    <2> QED
        BY <1>1, <1>2
<1> QED
    BY <1>1, <1>3

\* What a fork makes: the child's PCB and stack, which is the parent's with
\* fork above main.
LEMMA ForkMakes ==
    ASSUME IInv, Fork, NEW child, child = Len(processList) + 1
    PROVE  /\ Len(processList) < MaxProcesses
           /\ stack = cr3 /\ current = cr3 /\ Len(stacks[cr3]) = 1
           /\ stacks[cr3][1] \in Frame /\ stacks[cr3][1].fn = "main"
           /\ pc = "main" /\ pc' = "main"
           /\ processList' = Append(processList,
                 [pid |-> child, directory |-> child, context |-> ChildContext(2)])
           /\ stacks' = [stacks EXCEPT
                 ![cr3] = <<Main(Append(stacks[cr3][1].history, child))>>,
                 ![child] = <<stacks[cr3][1], ForkFrame>>]
           /\ UNCHANGED <<cr3, status, users>>
<1>1. /\ status = "running" /\ pc = "main" /\ pc' = pc
      /\ Len(processList) < MaxProcesses
      /\ UNCHANGED <<cr3, status, users>>
    BY DEF Fork, mode
<1>2. /\ stack = cr3 /\ current = cr3 /\ pageDirectory = cr3
      /\ Len(stacks[cr3]) = 1 /\ stacks[cr3][1] = Top /\ Top.fn = "main"
      /\ Top \in Frame /\ stacks[cr3] \in Seq(Frame)
    BY <1>1, AtMain, OnTop
<1>3. pidCounter = child
    BY DEF IInv, Typed
<1>4. stacks \in [StackNames -> Seq(Frame)] /\ cr3 \in StackNames
    BY Named
<1> DEFINE frames == stacks[cr3]
           f == ForkFrame
           inFork == Push(<<f>>)
<1>5. frames \o <<f>> = <<Top, f>>
    <2>1. f \in Frame
        BY <1>2, Named DEF ForkFrame, Frame
    <2>2. frames \in Seq(Frame) /\ Len(frames) = 1 /\ frames[1] = Top
        BY <1>2
    <2> HIDE DEF frames, f
    <2>3. frames \o <<f>> = <<frames[1], f>>
        BY <2>1, <2>2, OnOne
    <2> QED
        BY <2>2, <2>3
<1>6. inFork[cr3] = <<Top, f>>
    BY <1>2, <1>4, <1>5 DEF Push
<1>7. /\ processList' = Append(processList,
             [pid |-> child, directory |-> child,
              context |-> ChildContext(Len(inFork[cr3]))])
      /\ stacks' = [stacks EXCEPT ![cr3] = <<Main(Append(Top.history, child))>>,
                                  ![child] = inFork[cr3]]
    BY <1>2, <1>3 DEF Fork, ChildPid
<1> HIDE DEF inFork, f
<1>8. Len(inFork[cr3]) = 2
    BY <1>6
<1> QED
    BY <1>1, <1>2, <1>6, <1>7, <1>8 DEF f

LEMMA ForkOwned ==
    ASSUME MaxUsers <= 1, IInv, OInv, Fork
    PROVE  OInv' /\ Kept
<1> DEFINE size == Len(processList)
           child == size + 1
           before == stacks[cr3][1]
           f == ForkFrame
           m == Main(Append(before.history, child))
           pcb == [pid |-> child, directory |-> child, context |-> ChildContext(2)]
<1>1. /\ size < MaxProcesses /\ stack = cr3 /\ current = cr3
      /\ before \in Frame /\ before.fn = "main" /\ pc' = "main"
      /\ processList' = Append(processList, pcb)
      /\ stacks' = [stacks EXCEPT ![cr3] = <<m>>, ![child] = <<before, f>>]
      /\ UNCHANGED <<cr3, status, users>>
    BY ForkMakes
<1>2. /\ size \in 1 .. MaxProcesses /\ cr3 \in 1 .. size /\ users \in SUBSET (1 .. size)
      /\ stacks \in [StackNames -> Seq(Frame)] /\ processList \in Seq(Pcb)
      /\ Positions = 1 .. size
    BY Named DEF Positions, IInv, Typed
<1>3. child \in StackNames /\ child # cr3 /\ cr3 \in StackNames /\ child > 0
      /\ StackNames \subseteq Int
    BY <1>1, <1>2, ShedulerAssumption DEF StackNames
<1>4. m \in Frame /\ m.fn = "main"
    <2>1. before.history \in Seq(Nat)
        BY <1>1 DEF Frame
    <2> HIDE DEF before
    <2> QED
        BY <1>2, <2>1, MainFrame
<1>5. f.fn = "fork" /\ f.parentProc = cr3
    BY <1>1 DEF ForkFrame
<1> HIDE DEF m, f, before
<1>6. /\ stacks'[cr3] = <<m>> /\ stacks'[child] = <<before, f>>
      /\ \A s \in StackNames : s # cr3 /\ s # child => stacks'[s] = stacks[s]
    BY <1>1, <1>2, <1>3
<1>7. /\ Len(processList') = child /\ processList'[child] = pcb
      /\ \A i \in 1 .. size : processList'[i] = processList[i]
    BY <1>1, <1>2
<1>8. pcb.context = ChildContext(2)
    OBVIOUS
<1> HIDE DEF pcb
<1>9. Positions' = 1 .. child
    BY <1>7 DEF Positions
<1>10. ASSUME NEW i \in 1 .. size, i # cr3, NEW s \in StacksOf(i)
       PROVE  stacks'[s] = stacks[s]
    <2>1. s \in StackNames /\ s # cr3 /\ s # child
        BY <1>2, <1>3, <1>10 DEF StacksOf
    <2> QED
        BY <1>6, <2>1
<1>11. Kept
    BY <1>2, <1>10 DEF Kept
<1>12. ASSUME NEW i \in 1 .. child, i # cr3
       PROVE  WaitsIn(processList'[i].context, i, stacks')
    <2>1. CASE i = child
        <3> DEFINE context == ChildContext(2)
        <3>1. context.stack = cr3 /\ context.esp = 2 /\ context.eip = "forked"
            BY <1>1 DEF ChildContext
        <3>2. StackIn(cr3, child) = child
            BY <1>2 DEF StackIn
        <3>3. Len(stacks'[child]) = 2 /\ stacks'[child][2] = f
            BY <1>6
        <3> HIDE DEF context
        <3>4. WaitsIn(context, child, stacks')
            BY <1>5, <3>1, <3>2, <3>3 DEF WaitsIn, ResumedIn
        <3> QED
            BY <1>7, <1>8, <2>1, <3>4 DEF context
    <2>2. CASE i \in 1 .. size
        <3> DEFINE context == processList[i].context
                   on == StackIn(context.stack, i)
        <3>1. i \in Positions
            BY <1>2, <2>2
        <3>2. WaitsIn(context, i, stacks) /\ GoodContext(context, i)
            BY <1>12, <3>1 DEF OInv, Waiting, IInv, Listed
        <3> HIDE DEF context
        <3>3. on \in StacksOf(i)
            BY <3>1, <3>2, ContextIn
        <3>4. stacks'[on] = stacks[on]
            BY <1>10, <1>12, <2>2, <3>3
        <3>5. WaitsIn(context, i, stacks')
            BY <3>2, <3>4 DEF WaitsIn
        <3> QED
            BY <1>7, <2>2, <3>5 DEF context
    <2> QED
        BY <1>2, <2>1, <2>2
<1>13. Waiting'
    BY <1>1, <1>9, <1>12 DEF Waiting, InProgramsSwitch, WaitsIn
<1>14. Owned(stacks, users)'
    <2> SUFFICES ASSUME NEW s \in StackNames, NEW k \in 1 .. Len(stacks'[s])
                 PROVE  OwnFrame(stacks'[s][k], s, users)
        BY <1>1 DEF Owned
    <2>1. CASE s = cr3
        <3>1. stacks'[s][k] = m
            BY <1>6, <2>1
        <3> QED
            BY <1>4, <3>1 DEF OwnFrame
    <2>2. CASE s = child
        <3>1. stacks'[s][k] \in {before, f}
            BY <1>6, <2>2
        <3> QED
            BY <1>1, <1>3, <1>5, <2>2, <3>1 DEF OwnFrame
    <2>3. CASE s # cr3 /\ s # child
        BY <1>6, <2>3 DEF OInv, Owned
    <2> QED
        BY <2>1, <2>2, <2>3
<1> QED
    BY <1>1, <1>11, <1>13, <1>14 DEF OInv, Loaded

-----------------------------------------------------------------------------
(* The theorems.                                                           *)

LEMMA StepOwned ==
    ASSUME Racing = FALSE, MaxUsers <= 1, IInv, IInv', OInv, [Next]_vars
    PROVE  OInv' /\ Kept
<1>1. CASE Timer
    BY <1>1, TimerOwned
<1>2. CASE Return
    BY <1>2, ReturnOwned
<1>3. CASE CallSwitch
    BY <1>3, CallSwitchOwned
<1>4. CASE Save
    BY <1>4, SaveOwned
<1>5. CASE Advance \/ Wrap
    BY <1>5, WindowOwned
<1>6. CASE Load
    BY <1>6, LoadOwned
<1>7. CASE Jump
    BY <1>7, JumpOwned
<1>8. CASE Fork
    BY <1>8, ForkOwned
<1>9. CASE ForkInChild
    BY <1>9, ForkInChildOwned
<1>10. CASE SwitchToUserMode
    BY <1>10, SwitchToUserModeOwned
<1>11. CASE Fault
    BY <1>11, FaultOwned
<1>12. CASE UNCHANGED vars
    <2>1. UNCHANGED <<processList, current, cr3, pc, stack, stacks, status, users>>
        BY <1>12 DEF vars, processor, mode
    <2>2. Positions' = Positions /\ Top' = Top
        BY <2>1 DEF Positions, Top
    <2>3. Waiting' /\ Loaded'
        BY <2>1, <2>2 DEF OInv, Waiting, WaitsIn, InProgramsSwitch, Loaded
    <2>4. Owned(stacks, users)' /\ Kept /\ status' # "lost"
        BY <2>1 DEF OInv, Owned, OwnFrame, Kept
    <2> QED
        BY <2>3, <2>4 DEF OInv
<1> QED
    BY <1>1, <1>2, <1>3, <1>4, <1>5, <1>6, <1>7, <1>8, <1>9, <1>10, <1>11, <1>12
       DEF Next, Proceed

LEMMA OwnedInvariance ==
    ASSUME Racing = FALSE, MaxUsers <= 1
    PROVE  Spec => []OInv
<1>1. IInv /\ IInv' /\ OInv /\ [Next]_vars => OInv'
    BY StepOwned
<1>2. Spec => []IInv
    BY Invariance
<1> QED
    BY <1>1, <1>2, InitOwned, PTL DEF Spec

\* Whenever a process does not run, its PCB and its stacks agree, and the
\* registers on them are its own: with the timer and with programs' own calls
\* of switchTask, from user mode, nested, and in a child that has not left
\* fork.
THEOREM AlwaysResumable ==
    ASSUME Racing = FALSE, MaxUsers <= 1
    PROVE  Spec => []Resumable
<1>1. IInv /\ OInv => Resumable
    <2> SUFFICES ASSUME IInv, OInv, NEW i \in Positions,
                        processList[i].directory # cr3
                 PROVE  LET p == processList[i]
                            frames == stacks[StackIn(p.context.stack, p.directory)]
                        IN  /\ p.context.esp = Len(frames)
                            /\ Last(frames).fn = ResumedIn(p.context.eip)
                            /\ \A k \in DOMAIN frames :
                                  frames[k].fn = "irq" =>
                                      frames[k].registers = p.directory
        BY DEF Resumable
    <2> DEFINE context == processList[i].context
               on == StackIn(context.stack, i)
               frames == stacks[on]
    <2>1. processList[i].directory = i /\ GoodContext(context, i)
        BY DEF IInv, Listed
    <2>2. WaitsIn(context, i, stacks)
        BY <2>1 DEF OInv, Waiting
    <2> HIDE DEF context
    <2>3. on \in StacksOf(i)
        BY <2>1, ContextIn
    <2>4. on \in StackNames /\ (on = i \/ (on < 0 /\ i \in users))
        BY <2>3 DEF StacksOf
    <2> HIDE DEF on
    <2>5. /\ context.esp = Len(frames)
          /\ frames[Len(frames)].fn = ResumedIn(context.eip)
        BY <2>2 DEF WaitsIn, on
    <2>6. frames \in Seq(Frame)
        BY <2>4, Named
    <2>7. ASSUME NEW k \in DOMAIN frames, frames[k].fn = "irq"
          PROVE  frames[k].registers = i
        <3>1. OwnFrame(frames[k], on, users)
            <4>1. k \in 1 .. Len(frames)
                BY <2>6
            <4> QED
                BY <2>4, <4>1 DEF OInv, Owned
        <3>2. CASE on = i
            <4>1. i > 0
                BY Named
            <4> QED
                BY <2>7, <3>1, <3>2, <4>1 DEF OwnFrame
        <3>3. CASE on < 0 /\ i \in users
            <4>1. frames[k].registers \in users
                BY <2>7, <3>1, <3>3 DEF OwnFrame
            <4> QED
                BY <3>3, <4>1, OneUser DEF IInv
        <3> QED
            BY <2>4, <3>2, <3>3
    <2>8. Last(frames) = frames[Len(frames)]
        BY DEF Last
    <2> HIDE DEF frames
    <2> QED
        BY <2>1, <2>5, <2>7, <2>8 DEF context, on, frames
<1> QED
    BY <1>1, Invariance, OwnedInvariance, PTL

\* No step writes to a stack of a process that does not run.
THEOREM StacksStayPrivate ==
    ASSUME Racing = FALSE, MaxUsers <= 1
    PROVE  Spec => StacksPrivate
<1>1. IInv /\ IInv' /\ OInv /\ [Next]_vars
      => [\A i \in Positions :
             LET p == processList[i]
             IN  p.directory # cr3 =>
                    \A s \in {p.directory, StackIn(p.context.stack, p.directory)} :
                       stacks'[s] = stacks[s]]_vars
    <2> SUFFICES ASSUME IInv, IInv', OInv, [Next]_vars, NEW i \in Positions,
                        processList[i].directory # cr3,
                        NEW s \in {processList[i].directory,
                                   StackIn(processList[i].context.stack,
                                           processList[i].directory)}
                 PROVE  stacks'[s] = stacks[s]
        OBVIOUS
    <2> DEFINE context == processList[i].context
    <2>1. processList[i].directory = i /\ GoodContext(context, i)
        BY DEF IInv, Listed
    <2> HIDE DEF context
    <2>2. StackIn(context.stack, i) \in StacksOf(i)
        BY <2>1, ContextIn
    <2>3. i \in StacksOf(i)
        BY Named DEF StacksOf
    <2>4. s \in StacksOf(i)
        BY <2>1, <2>2, <2>3 DEF context
    <2> QED
        BY <2>1, <2>4, StepOwned DEF Kept
<1>2. Spec => []IInv /\ []OInv
    BY Invariance, OwnedInvariance
<1> QED
    BY <1>1, <1>2, PTL DEF Spec, StacksPrivate
-----------------------------------------------------------------------------
(***************************************************************************)
(* The scheduler keeps the promise of module Processes, for at most one    *)
(* process in user mode.  A process's line of execution is the frame of    *)
(* main on its own stack, and whether a frame of fork lies above it: no    *)
(* step but fork's changes either of any process, whoever runs, so all     *)
(* others are switches of the abstract specification.                      *)
(***************************************************************************)

-----------------------------------------------------------------------------
(* The mapping.                                                            *)

Forked(frames) == \E k \in DOMAIN frames : frames[k].fn = "fork"

\* To a program the stack is what it was.
Onward(frames, new) ==
    /\ new[1].history = frames[1].history
    /\ Forked(new) <=> Forked(frames)

\* What the mapping substitutes for history and running.
Histories ==
    [pid \in {processList[i].pid : i \in Positions} |-> HistoryOf(DirectoryOf(pid))]
Runner == processList[PositionOf(cr3)].pid

\* pids, directories and positions are the same numbers.
LEMMA Mapped ==
    ASSUME IInv
    PROVE  /\ Histories = [i \in Positions |-> HistoryOf(i)]
           /\ Runner = cr3
<1>1. \A i \in Positions : processList[i].pid = i /\ processList[i].directory = i
    BY DEF IInv, Listed
<1>2. {processList[i].pid : i \in Positions} = Positions
    BY <1>1
<1>3. ASSUME NEW i \in Positions
      PROVE  DirectoryOf(i) = i
    BY <1>1 DEF DirectoryOf
<1>4. cr3 \in Positions
    BY Named
<1>5. PositionOf(cr3) = cr3
    BY <1>1, <1>4 DEF PositionOf
<1> QED
    BY <1>1, <1>2, <1>3, <1>4, <1>5 DEF Histories, Runner

\* So they are after a step.
LEMMA MappedNext ==
    (IInv => Histories = [i \in Positions |-> HistoryOf(i)] /\ Runner = cr3)'
<1>1. IInv => Histories = [i \in Positions |-> HistoryOf(i)] /\ Runner = cr3
    BY Mapped
<1> QED
    BY <1>1, PTL

-----------------------------------------------------------------------------
(* The running process's own stack.                                        *)

\* It has main at the bottom, and fork's frame is the second if there is one.
LEMMA OwnStack ==
    ASSUME IInv, NEW d \in Positions
    PROVE  /\ stacks[d] \in Seq(Frame) /\ Len(stacks[d]) > 0
           /\ stacks[d][1].fn = "main"
<1>1. d \in StackNames
    BY Named
<1> QED
    BY <1>1 DEF IInv, Stacked, Sound, Positions

\* Frames above the bottom come and go, and none of them is fork's.
LEMMA OnwardAbove ==
    ASSUME NEW frames \in Seq(Frame), NEW new \in Seq(Frame),
           NEW m \in Nat \ {0}, m <= Len(frames), m <= Len(new),
           \A k \in 1 .. m : new[k] = frames[k],
           \A k \in m + 1 .. Len(frames) : frames[k].fn # "fork",
           \A k \in m + 1 .. Len(new) : new[k].fn # "fork"
    PROVE  Onward(frames, new)
<1>1. new[1] = frames[1]
    OBVIOUS
<1>2. ASSUME NEW k \in DOMAIN frames, frames[k].fn = "fork"
      PROVE  \E j \in DOMAIN new : new[j].fn = "fork"
    <2>1. k \in 1 .. m
        BY <1>2
    <2> QED
        BY <1>2, <2>1
<1>3. ASSUME NEW k \in DOMAIN new, new[k].fn = "fork"
      PROVE  \E j \in DOMAIN frames : frames[j].fn = "fork"
    <2>1. k \in 1 .. m
        BY <1>3
    <2> QED
        BY <1>3, <2>1
<1> QED
    BY <1>1, <1>2, <1>3 DEF Onward, Forked

\* A step that leaves the stack in use as it was to the program.
LEMMA OnwardInUse ==
    ASSUME IInv, NEW s \in StackNames, NEW new, stacks' = [stacks EXCEPT ![s] = new],
           s = cr3 => Onward(stacks[s], new)
    PROVE  Onward(stacks[cr3], stacks'[cr3])
<1>1. cr3 \in StackNames /\ stacks \in [StackNames -> Seq(Frame)]
    BY Named
<1>2. CASE s = cr3
    BY <1>1, <1>2
<1>3. CASE s # cr3
    <2>1. stacks'[cr3] = stacks[cr3]
        BY <1>1, <1>3
    <2> QED
        BY <2>1 DEF Onward
<1> QED
    BY <1>2, <1>3

LEMMA ReturnOnward ==
    ASSUME IInv, Return
    PROVE  Onward(stacks[cr3], stacks'[cr3])
<1> DEFINE frames == stacks[stack]
           n == Len(frames)
           new == SubSeq(frames, 1, n - 1)
<1>1. /\ status = "running" /\ pc \in {"switched", "handled"}
      /\ stacks' = [stacks EXCEPT ![stack] = new]
    BY DEF Return, Front
<1>2. /\ stack \in StackNames /\ frames \in Seq(Frame) /\ n \in Nat \ {0}
      /\ frames[n].fn \in {"switchTask", "irq"}
    BY <1>1, OnTop DEF InFunction, ProgramsSwitch
<1>3. new \in Seq(Frame) /\ Len(new) = n - 1 /\ \A k \in 1 .. n - 1 : new[k] = frames[k]
    BY <1>2
<1>4. stack = cr3 => n > 1
    <2>1. stack = cr3 => frames[1].fn = "main"
        BY OwnStack, Named
    <2> HIDE DEF frames
    <2> QED
        BY <1>2, <2>1
<1>5. ASSUME stack = cr3
      PROVE  Onward(frames, new)
    <2>1. n - 1 \in Nat \ {0}
        BY <1>2, <1>4, <1>5
    <2>2. \A k \in n .. Len(frames) : frames[k].fn # "fork"
        BY <1>2
    <2> HIDE DEF frames, n, new
    <2>3. \A k \in n - 1 + 1 .. Len(frames) : frames[k].fn # "fork"
        BY <1>2, <2>2
    <2>4. \A k \in n - 1 + 1 .. Len(new) : new[k].fn # "fork"
        BY <1>2, <1>3
    <2>5. n - 1 <= Len(frames) /\ n - 1 <= Len(new)
        BY <1>2, <1>3 DEF n
    <2> QED
        BY <1>2, <1>3, <2>1, <2>3, <2>4, <2>5, OnwardAbove
<1> QED
    BY <1>1, <1>2, <1>5, OnwardInUse

\* A frame of switchTask, or of an interrupt and of switchTask, is pushed.
LEMMA CallSwitchOnward ==
    ASSUME IInv, CallSwitch
    PROVE  Onward(stacks[cr3], stacks'[cr3])
<1> DEFINE frames == stacks[stack]
           f == SwitchFrame("main")
           new == frames \o <<f>>
<1>1. status = "running" /\ pc = "main" /\ stacks' = [stacks EXCEPT ![stack] = new]
    BY DEF CallSwitch, Push
<1>2. stack \in StackNames /\ frames \in Seq(Frame) /\ Len(frames) > 0
    BY <1>1, OnTop
<1>3. f \in Frame /\ f.fn = "switchTask"
    BY ShedulerAssumption
       DEF Frame, SwitchFrame, NoContext, Context, InitialSpace, StackNames, Null
<1> HIDE DEF frames, f
<1>4. /\ new \in Seq(Frame) /\ Len(new) = Len(frames) + 1
      /\ \A k \in 1 .. Len(frames) : new[k] = frames[k]
      /\ new[Len(frames) + 1] = f
    BY <1>2, <1>3, Appended
<1> HIDE DEF new
<1>5. Onward(frames, new)
    <2>1. \A k \in Len(frames) + 1 .. Len(new) : new[k].fn # "fork"
        BY <1>2, <1>3, <1>4
    <2>2. Len(frames) \in Nat \ {0} /\ Len(frames) <= Len(new)
        BY <1>2, <1>4
    <2> QED
        BY <1>2, <1>4, <2>1, <2>2, OnwardAbove
<1> QED
    BY <1>1, <1>2, <1>5, OnwardInUse DEF frames

\* What Load and Jump write lies at the top, where switchTask's frame was.
LEMMA TopOnward ==
    ASSUME IInv, status = "running", pc \in {"load", "jump"},
           NEW f \in Frame, f.fn = "switchTask",
           stacks' = [stacks EXCEPT ![stack] = Append(Front(stacks[stack]), f)]
    PROVE  Onward(stacks[cr3], stacks'[cr3])
<1> DEFINE frames == stacks[stack]
           n == Len(frames)
           below == SubSeq(frames, 1, n - 1)
           new == Append(below, f)
<1>1. /\ stack \in StackNames /\ frames \in Seq(Frame) /\ n \in Nat \ {0}
      /\ frames[n].fn = "switchTask"
    BY OnTop DEF InFunction, ProgramsSwitch
<1>2. stacks' = [stacks EXCEPT ![stack] = new]
    BY DEF Front
<1>3. stack = cr3 => n > 1
    <2>1. stack = cr3 => frames[1].fn = "main"
        BY OwnStack, Named
    <2> HIDE DEF frames
    <2> QED
        BY <1>1, <2>1
<1>4. below \in Seq(Frame) /\ Len(below) = n - 1
      /\ \A k \in 1 .. n - 1 : below[k] = frames[k]
    BY <1>1
<1> HIDE DEF frames, below
<1>5. new \in Seq(Frame) /\ Len(new) = n /\ new[n] = f
      /\ \A k \in 1 .. n - 1 : new[k] = frames[k]
    BY <1>1, <1>4, Appended
<1> HIDE DEF new
<1>6. ASSUME stack = cr3
      PROVE  Onward(frames, new)
    <2>1. n - 1 \in Nat \ {0} /\ n - 1 <= Len(frames) /\ n - 1 <= Len(new)
        BY <1>1, <1>3, <1>5, <1>6
    <2>2. \A k \in n - 1 + 1 .. Len(frames) : frames[k].fn # "fork"
        BY <1>1
    <2>3. \A k \in n - 1 + 1 .. Len(new) : new[k].fn # "fork"
        BY <1>1, <1>5
    <2> HIDE DEF n
    <2> QED
        BY <1>1, <1>5, <2>1, <2>2, <2>3, OnwardAbove
<1> QED
    BY <1>1, <1>2, <1>6, OnwardInUse DEF frames

LEMMA LoadOnward ==
    ASSUME IInv, Load
    PROVE  Onward(stacks[cr3], stacks'[cr3])
<1> DEFINE process == processList[current]
           f == [Top EXCEPT !.context = process.context,
                            !.directory = process.directory]
<1>1. /\ status = "running" /\ pc = "load"
      /\ stacks' = [stacks EXCEPT ![stack] = Append(Front(stacks[stack]), f)]
    BY DEF Load
<1>2. Top \in Frame /\ Top.fn = "switchTask"
    BY <1>1, OnTop DEF InFunction, ProgramsSwitch
<1>3. process.context \in Context /\ process.directory \in Nat
    BY <1>1 DEF IInv, Listed, Running, Typed, Positions, Null, GoodContext
<1>4. f \in Frame /\ f.fn = "switchTask"
    <2>1. Top \in [fn : {"switchTask"}, ret : {"main", "handled"},
                   context : Context, directory : Nat]
        BY <1>2 DEF Frame
    <2> QED
        BY <1>3, <2>1 DEF Frame
<1> HIDE DEF f
<1> QED
    BY <1>1, <1>4, TopOnward

LEMMA JumpOnward ==
    ASSUME MaxUsers <= 1, IInv, OInv, Jump
    PROVE  Onward(stacks[cr3], stacks'[cr3])
<1> DEFINE f == SwitchFrame("main")
<1>1. status = "running" /\ pc = "jump"
    BY DEF Jump
<1>2. stacks' = [stacks EXCEPT ![stack] = Append(Front(stacks[stack]), f)]
    BY JumpOwned
<1>3. f \in Frame /\ f.fn = "switchTask"
    BY ShedulerAssumption
       DEF Frame, SwitchFrame, NoContext, Context, InitialSpace, StackNames, Null
<1> HIDE DEF f
<1> QED
    BY <1>1, <1>2, <1>3, TopOnward

LEMMA TimerOnward ==
    ASSUME Racing = FALSE, MaxUsers <= 1, IInv, OInv, Timer
    PROVE  Onward(stacks[cr3], stacks'[cr3])
<1> DEFINE s == InterruptStack
           base == IF s = stack THEN stacks[s] ELSE <<>>
           irq == IrqFrame
           switch == SwitchFrame("handled")
           new == base \o <<irq, switch>>
<1>1. status = "running" /\ ~InProgramsSwitch
    BY DEF Timer
<1>2. pc \in Interruptible
    <2>1. InFunction(pc, Top)
        BY <1>1, OnTop
    <2> QED
        BY <2>1, <1>1 DEF InFunction, ProgramsSwitch, Interruptible, InProgramsSwitch
<1>3. stacks' = [stacks EXCEPT ![s] = new]
    BY TimerOwned
<1>4. s \in StackNames /\ s = cr3 => s = stack
    <2>1. cr3 > 0 /\ esp0 \in Nat
        BY Named, UsersCounted DEF IInv, Typed
    <2>2. s = -esp0 \/ s = stack
        BY DEF InterruptStack
    <2> QED
        BY <2>1, <2>2
<1>5. s \in StackNames
    BY <1>1, <1>2, TimerPushes
<1>6. switch \in Frame /\ switch.fn = "switchTask"
    BY ShedulerAssumption
       DEF Frame, SwitchFrame, NoContext, Context, InitialSpace, StackNames, Null
<1>7. irq \in Frame /\ irq.fn = "irq"
    BY <1>2, IrqFramed DEF IInv, IrqFrame
<1> HIDE DEF s, irq, switch
<1>8. ASSUME s = cr3
      PROVE  Onward(stacks[s], new)
    <2>1. base = stacks[s] /\ base \in Seq(Frame) /\ Len(base) > 0
        BY <1>4, <1>5, <1>8, OwnStack, Named
    <2> HIDE DEF base
    <2>2. /\ new \in Seq(Frame) /\ Len(new) = Len(base) + 2
          /\ \A k \in 1 .. Len(base) : new[k] = base[k]
          /\ new[Len(base) + 1] = irq /\ new[Len(base) + 2] = switch
        BY <1>6, <1>7, <2>1
    <2> HIDE DEF new
    <2>3. \A k \in Len(base) + 1 .. Len(new) : new[k].fn # "fork"
        <3> TAKE k \in Len(base) + 1 .. Len(new)
        <3>1. k = Len(base) + 1 \/ k = Len(base) + 2
            BY <2>1, <2>2
        <3> QED
            BY <1>6, <1>7, <2>2, <3>1
    <2>4. /\ Len(base) \in Nat \ {0} /\ Len(base) <= Len(base)
          /\ Len(base) <= Len(new)
          /\ \A k \in Len(base) + 1 .. Len(base) : base[k].fn # "fork"
        BY <2>1, <2>2
    <2> DEFINE m == Len(base)
    <2>5. /\ m \in Nat \ {0} /\ m <= Len(base) /\ m <= Len(new)
          /\ \A k \in 1 .. m : new[k] = base[k]
          /\ \A k \in m + 1 .. Len(base) : base[k].fn # "fork"
          /\ \A k \in m + 1 .. Len(new) : new[k].fn # "fork"
        BY <2>2, <2>3, <2>4
    <2> HIDE DEF m
    <2>6. Onward(base, new)
        BY <2>1, <2>2, <2>5, OnwardAbove
    <2> QED
        BY <2>1, <2>6
<1> HIDE DEF new
<1> QED
    BY <1>3, <1>5, <1>8, OnwardInUse

\* A child's 0 is in its history before it returns from fork.
LEMMA ForkInChildSeen ==
    ASSUME IInv, OInv, ForkInChild
    PROVE  HistoryOf(cr3)' = HistoryOf(cr3)
<1> DEFINE frames == stacks[cr3]
           m == Main(Append(frames[1].history, 0))
<1>1. cr3' = cr3 /\ stacks' = [stacks EXCEPT ![cr3] = <<m>>]
    BY NotTheParent
<1>2. frames \in Seq(Frame) /\ Len(frames) = 2 /\ frames[2].fn = "fork"
    BY InChild DEF ForkInChild
<1>3. stacks'[cr3] = <<m>>
    BY <1>1, Named
<1>4. m.fn = "main" /\ m.history = Append(frames[1].history, 0)
    BY DEF Main
<1>5. HistoryOf(cr3) = Append(frames[1].history, 0)
    <2>1. 2 \in DOMAIN frames
        BY <1>2
    <2> QED
        BY <1>2, <2>1 DEF HistoryOf
<1> HIDE DEF m, frames
<1>6. HistoryOf(cr3)' = m.history
    <2>1. DOMAIN stacks'[cr3] = {1} /\ stacks'[cr3][1] = m
        BY <1>3
    <2> QED
        BY <1>1, <1>4, <2>1 DEF HistoryOf
<1> QED
    BY <1>4, <1>5, <1>6

-----------------------------------------------------------------------------
(* Steps of the abstract specification.                                    *)

\* Every step but fork's leaves all histories, and the list of processes.
LEMMA HistoriesStay ==
    ASSUME Racing = FALSE, MaxUsers <= 1, IInv, IInv', OInv, OInv', [Next]_vars, ~Fork
    PROVE  /\ Positions' = Positions /\ cr3' \in Positions
           /\ \A i \in Positions : HistoryOf(i)' = HistoryOf(i)
<1>1. Positions' = Positions
    <2>1. CASE Timer \/ Save
        <3> DEFINE saved(context) == SavedAs(current, context)
        <3>1. \A context : Len(saved(context)) = Len(processList)
            BY Named DEF SavedAs, IInv, Typed
        <3>2. PICK context : processList' = saved(context)
            BY <2>1 DEF Timer, Save
        <3> QED
            BY <3>1, <3>2 DEF Positions
    <2>2. CASE ~(Timer \/ Save)
        BY <2>2 DEF Positions, Next, Proceed, vars, Return, CallSwitch, Advance, Wrap,
                    Load, Jump, ForkInChild, SwitchToUserMode, Fault, processor
    <2> QED
        BY <2>1, <2>2
<1>2. cr3' \in Positions
    BY <1>1 DEF IInv, Typed
<1>3. cr3 \in Positions
    BY Named
<1>4. ASSUME NEW i \in Positions, Onward(stacks[i], stacks'[i])
      PROVE  HistoryOf(i)' = HistoryOf(i)
    BY <1>4 DEF Onward, Forked, HistoryOf
<1>5. ASSUME NEW i \in Positions, i # cr3
      PROVE  Onward(stacks[i], stacks'[i])
    <2>1. i \in StacksOf(i)
        BY Named DEF StacksOf
    <2>2. stacks'[i] = stacks[i]
        BY <1>5, <2>1, StepOwned DEF Kept
    <2> QED
        BY <2>2 DEF Onward
<1>6. Onward(stacks[cr3], stacks'[cr3]) \/ ForkInChild
    <2>1. CASE UNCHANGED stacks
        BY <2>1 DEF Onward
    <2>2. CASE Timer \/ Jump
        BY <2>2, TimerOnward, JumpOnward
    <2>3. CASE Return \/ CallSwitch \/ Load
        BY <2>3, ReturnOnward, CallSwitchOnward, LoadOnward
    <2>4. CASE ~(Timer \/ Jump \/ Return \/ CallSwitch \/ Load \/ ForkInChild)
        <3>1. UNCHANGED stacks
            BY <2>4 DEF Next, Proceed, Save, Advance, Wrap, Fault, SwitchToUserMode,
                        processor, vars
        <3> QED
            BY <3>1, <2>1
    <2> QED
        BY <2>2, <2>3, <2>4
<1>7. ASSUME NEW i \in Positions
      PROVE  HistoryOf(i)' = HistoryOf(i)
    <2>1. CASE i # cr3
        BY <1>4, <1>5, <2>1
    <2>2. CASE i = cr3 /\ ~ForkInChild
        BY <1>4, <1>6, <2>2
    <2>3. CASE i = cr3 /\ ForkInChild
        <3>1. HistoryOf(cr3)' = HistoryOf(cr3) /\ cr3' = cr3
            BY <2>3, ForkInChildSeen, NotTheParent
        <3> QED
            BY <2>3, <3>1 DEF HistoryOf
    <2> QED
        BY <2>1, <2>2, <2>3
<1> QED
    BY <1>1, <1>2, <1>7

\* fork goes on in two processes.
LEMMA ForkForks ==
    ASSUME MaxUsers <= 1, IInv, IInv', OInv, Fork,
           NEW child, child = Len(processList) + 1
    PROVE  child \in 1 .. MaxProcesses /\ Abstract!Fork(child)
<1> DEFINE size == Len(processList)
           before == stacks[cr3][1]
           f == ForkFrame
           m == Main(Append(before.history, child))
           pcb == [pid |-> child, directory |-> child, context |-> ChildContext(2)]
<1>1. /\ size < MaxProcesses /\ Len(stacks[cr3]) = 1 /\ before.fn = "main"
      /\ processList' = Append(processList, pcb)
      /\ stacks' = [stacks EXCEPT ![cr3] = <<m>>, ![child] = <<before, f>>]
      /\ cr3' = cr3
    BY ForkMakes
<1>2. /\ size \in 1 .. MaxProcesses /\ cr3 \in 1 .. size
      /\ stacks \in [StackNames -> Seq(Frame)] /\ processList \in Seq(Pcb)
      /\ Positions = 1 .. size /\ MaxProcesses \in Nat
    BY Named, ShedulerAssumption DEF Positions, IInv, Typed
<1>3. child \in StackNames /\ child # cr3 /\ cr3 \in StackNames
      /\ child \in 1 .. MaxProcesses /\ child \notin Positions
    BY <1>1, <1>2, ShedulerAssumption DEF StackNames
<1>4. m.fn = "main" /\ m.history = Append(before.history, child) /\ f.fn = "fork"
    BY DEF Main, ForkFrame
<1>5. Len(processList') = child
    BY <1>1, <1>2
<1> HIDE DEF m, f, pcb
<1>6. /\ stacks'[cr3] = <<m>> /\ stacks'[child] = <<before, f>>
      /\ \A s \in StackNames : s # cr3 /\ s # child => stacks'[s] = stacks[s]
    BY <1>1, <1>2, <1>3
<1>7. Positions' = Positions \cup {child}
    BY <1>2, <1>5 DEF Positions
<1>8. HistoryOf(cr3) = before.history
    <2>1. stacks[cr3] \in Seq(Frame)
        BY <1>2, <1>3
    <2>2. \A k \in DOMAIN stacks[cr3] : stacks[cr3][k].fn = "main"
        BY <1>1, <2>1
    <2> HIDE DEF before
    <2>3. before = stacks[cr3][1]
        BY DEF before
    <2> QED
        BY <2>2, <2>3 DEF HistoryOf
<1> HIDE DEF before
<1>9. HistoryOf(cr3)' = Append(before.history, child)
    <2>1. DOMAIN stacks'[cr3] = {1} /\ stacks'[cr3][1] = m
        BY <1>6
    <2> QED
        BY <1>1, <1>4, <2>1 DEF HistoryOf
<1>10. HistoryOf(child)' = Append(before.history, 0)
    <2>1. /\ 2 \in DOMAIN stacks'[child] /\ stacks'[child][2] = f
          /\ stacks'[child][1] = before
        BY <1>6
    <2> QED
        BY <1>4, <2>1 DEF HistoryOf
<1>11. ASSUME NEW i \in Positions, i # cr3
       PROVE  HistoryOf(i)' = HistoryOf(i)
    <2>1. stacks'[i] = stacks[i]
        BY <1>2, <1>3, <1>6, <1>11, Named
    <2> QED
        BY <2>1 DEF HistoryOf
<1>12. Histories = [i \in Positions |-> HistoryOf(i)] /\ Runner = cr3
    BY Mapped
<1>13. Histories' = [i \in Positions' |-> HistoryOf(i)'] /\ Runner' = cr3'
    BY MappedNext
<1>14. Histories' = [p \in Positions \cup {child} |->
                       CASE p = cr3 -> Append(HistoryOf(cr3), child)
                         [] p = child -> Append(HistoryOf(cr3), 0)
                         [] OTHER -> HistoryOf(p)]
    <2>1. ASSUME NEW p \in Positions \cup {child}
          PROVE  HistoryOf(p)' = CASE p = cr3 -> Append(HistoryOf(cr3), child)
                                   [] p = child -> Append(HistoryOf(cr3), 0)
                                   [] OTHER -> HistoryOf(p)
        <3>1. CASE p = cr3
            <4>1. HistoryOf(p)' = HistoryOf(cr3)'
                BY <1>1, <3>1 DEF HistoryOf
            <4> QED
                BY <1>3, <1>8, <1>9, <3>1, <4>1
        <3>2. CASE p = child
            BY <1>3, <1>8, <1>10, <3>2
        <3>3. CASE p # cr3 /\ p # child
            BY <1>11, <3>3
        <3> QED
            BY <3>1, <3>2, <3>3
    <2> QED
        BY <1>7, <1>13, <2>1
<1>15. child \notin DOMAIN Histories /\ DOMAIN Histories = Positions
    BY <1>3, <1>12
<1>16. Runner' = Runner /\ Runner = cr3
    BY <1>1, <1>12, <1>13
<1>17. \A p \in Positions : Histories[p] = HistoryOf(p)
    BY <1>12
<1> DEFINE next == [p \in DOMAIN Histories \cup {child} |->
                       CASE p = Runner -> Append(Histories[Runner], child)
                         [] p = child -> Append(Histories[Runner], 0)
                         [] OTHER -> Histories[p]]
<1>18. Histories' = next
    <2>1. ASSUME NEW p \in Positions \cup {child}
          PROVE  Histories'[p] = next[p]
        <3>1. cr3 \in Positions
            BY <1>2
        <3> QED
            BY <1>3, <1>14, <1>15, <1>16, <1>17, <3>1
    <2> QED
        BY <1>14, <1>15, <2>1
<1> QED
    BY <1>3, <1>15, <1>16, <1>18 DEF Abstract!Fork, Histories, Runner

\* All other steps are switches, or nothing to the programs.
LEMMA OthersSwitch ==
    ASSUME Racing = FALSE, MaxUsers <= 1, IInv, IInv', OInv, OInv', [Next]_vars, ~Fork
    PROVE  cr3' \in 1 .. MaxProcesses /\ Abstract!Switch(cr3')
<1>1. /\ Positions' = Positions /\ cr3' \in Positions
      /\ \A i \in Positions : HistoryOf(i)' = HistoryOf(i)
    BY HistoriesStay
<1>2. Histories = [i \in Positions |-> HistoryOf(i)] /\ Runner = cr3
    BY Mapped
<1>3. Histories' = [i \in Positions' |-> HistoryOf(i)'] /\ Runner' = cr3'
    BY MappedNext
<1>4. Histories' = Histories /\ cr3' \in DOMAIN Histories
    BY <1>1, <1>2, <1>3
<1>5. cr3' \in 1 .. MaxProcesses
    BY <1>1, Named, ShedulerAssumption DEF Positions
<1> QED
    BY <1>3, <1>4, <1>5 DEF Abstract!Switch, Histories, Runner

LEMMA InitMapped == Init => Abstract!Init
<1> SUFFICES ASSUME Init PROVE Abstract!Init
    OBVIOUS
<1>1. IInv
    BY InitHolds
<1>2. Histories = [i \in Positions |-> HistoryOf(i)] /\ Runner = cr3
    BY <1>1, Mapped
<1>3. /\ processList = <<[pid |-> 1, directory |-> 1, context |-> NoContext]>>
      /\ cr3 = 1
      /\ stacks = [s \in StackNames |-> IF s = 1 THEN <<Main(<<>>)>> ELSE <<>>]
    BY DEF Init, InitialSpace
<1>4. Positions = {1} /\ 1 \in StackNames
    BY <1>1, <1>3, Named DEF Positions
<1>5. HistoryOf(1) = <<>>
    <2>1. stacks[1] = <<Main(<<>>)>>
        BY <1>3, <1>4
    <2>2. DOMAIN stacks[1] = {1} /\ stacks[1][1].fn = "main"
          /\ stacks[1][1].history = <<>>
        BY <2>1 DEF Main
    <2> QED
        BY <2>2 DEF HistoryOf
<1>6. Histories = [p \in {1} |-> <<>>]
    BY <1>2, <1>4, <1>5
<1> QED
    BY <1>2, <1>3, <1>6 DEF Abstract!Init, Histories, Runner

\* To its programs the scheduler is the abstract specification: fork returns
\* the child's pid in the parent and 0 in the child, and being interrupted and
\* resumed, wherever that is, changes nothing a program can see.
THEOREM KeepsPromise ==
    ASSUME Racing = FALSE, MaxUsers <= 1
    PROVE  Spec => ImplementsProcesses
<1>1. IInv /\ IInv' /\ OInv /\ OInv' /\ [Next]_vars => [Abstract!Next]_(Abstract!vars)
    <2> SUFFICES ASSUME IInv, IInv', OInv, OInv', [Next]_vars
                 PROVE  Abstract!Next
        OBVIOUS
    <2>1. CASE Fork
        <3>1. PICK child : child = Len(processList) + 1
            OBVIOUS
        <3>2. child \in 1 .. MaxProcesses /\ Abstract!Fork(child)
            BY <2>1, <3>1, ForkForks
        <3> QED
            BY <3>2 DEF Abstract!Next
    <2>2. CASE ~Fork
        BY <2>2, OthersSwitch DEF Abstract!Next
    <2> QED
        BY <2>1, <2>2
<1> QED
    BY <1>1, Invariance, OwnedInvariance, InitMapped, PTL
       DEF Spec, ImplementsProcesses, Abstract!Spec
=============================================================================
