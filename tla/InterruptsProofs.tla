-------------------------- MODULE InterruptsProofs --------------------------
(***************************************************************************)
(* Proofs about Interrupts, for any number of processes, any devices and   *)
(* any addresses of the stubs.  That the master has nothing in service     *)
(* while interrupts are enabled rests on one line at most being in service *)
(* at any time: then even an end of interrupt that names no line ends the  *)
(* right one.  That handlers nest no deeper than ticks come early is a     *)
(* count, over the stacks of all processes.                                *)
(***************************************************************************)
EXTENDS InterruptsProperties, SequenceTheorems, TLAPS

\* idt_install has made the writes before boot.
Programmed ==
    /\ pic.master.expects = CASE boot \in {2, 3} -> "icw2"
                              [] boot \in {4, 5} -> "icw3"
                              [] boot \in {6, 7} -> "icw4"
                              [] OTHER -> "nothing"
    /\ pic.slave.expects = CASE boot \in {3, 4} -> "icw2"
                             [] boot \in {5, 6} -> "icw3"
                             [] boot \in {7, 8} -> "icw4"
                             [] OTHER -> "nothing"
    /\ boot > 3 => pic.master.offset = 32
    /\ boot > 4 => pic.slave.offset = 40
    /\ boot > 1 /\ status = "booting" => pic.master.isr = {}

Booting ==
    IF status = "booting"
    THEN ~interruptFlag /\ \A p \in Process : frames[p] = <<>>
    ELSE boot = 11

\* Nothing asks on the line of the slave but the slave.
CascadeFree == 2 \notin pic.master.irr

OneInService ==
    status # "booting" => \E line \in Line : pic.master.isr \subseteq {line}

\* Who is behind the end of interrupt has ended it.
Ended ==
    status = "running" /\ frames[current] # <<>>
            /\ frames[current][Len(frames[current])].at \in {"acknowledged", "leaving"}
        => pic.master.isr = {}

EnabledRunning == interruptFlag => status = "running"

IInv ==
    /\ TypeOK
    /\ Programmed /\ Booting /\ EnabledRunning
    /\ CascadeFree /\ OneInService /\ Ended
    /\ MasterAcknowledged
    /\ NumberIsVector

-----------------------------------------------------------------------------
(* Controllers, gates and frames.                                          *)

LEMMA RankType ==
    ASSUME NEW c \in Controller, NEW line \in Line
    PROVE  Rank(c, line) \in 0 .. 7
  BY DEF Controller, Line, Rank

\* There is a line of highest priority.
LEMMA FirstAmong ==
    ASSUME NEW c \in Controller, NEW lines \in SUBSET Line, lines # {}
    PROVE  First(c, lines) \in lines
<1> DEFINE Least(l) == \A k \in lines : Rank(c, l) <= Rank(c, k)
<1>1. SUFFICES ASSUME \A l \in lines : ~Least(l) PROVE FALSE
  BY DEF First
<1>2. \A l \in lines : Rank(c, l) \in 0 .. 7
  BY RankType
<1> HIDE DEF Least
<1> DEFINE Above(n) == \A l \in lines : Rank(c, l) > n
<1>3. ASSUME NEW n \in 0 .. 7, \A l \in lines : Rank(c, l) >= n
      PROVE  Above(n)
  <2>1. SUFFICES ASSUME NEW l \in lines, Rank(c, l) = n PROVE FALSE
    BY <1>2, <1>3
  <2>2. Least(l)
    BY <1>3, <2>1 DEF Least
  <2> QED
    BY <1>1, <2>2
<1>10. Above(0)
  BY <1>2, <1>3
<1>11. Above(1)
  BY <1>2, <1>3, <1>10
<1>12. Above(2)
  BY <1>2, <1>3, <1>11
<1>13. Above(3)
  BY <1>2, <1>3, <1>12
<1>14. Above(4)
  BY <1>2, <1>3, <1>13
<1>15. Above(5)
  BY <1>2, <1>3, <1>14
<1>16. Above(6)
  BY <1>2, <1>3, <1>15
<1>17. Above(7)
  BY <1>2, <1>3, <1>16
<1> QED
  BY <1>2, <1>17

LEMMA FirstInLine ==
    ASSUME NEW c \in Controller, NEW lines \in SUBSET Line, lines # {}
    PROVE  First(c, lines) \in Line
  BY FirstAmong

\* What is written to a controller's first port.
LEMMA CommandType ==
    ASSUME NEW c \in Controller
    PROVE  /\ EndOfInterrupt(c) \in Controller
           /\ Rotate(c) \in Controller
           /\ Reset(c) \in Controller
<1>1. c.isr # {} => First(c, c.isr) \in Line
  BY FirstInLine DEF Controller
<1>2. EndOfInterrupt(c) \in Controller
  BY DEF Controller, EndOfInterrupt
<1>3. Rotate(c) \in Controller
  <2>1. CASE c.isr = {}
    BY <2>1 DEF Rotate
  <2>2. CASE c.isr # {}
    <3> DEFINE first == First(c, c.isr)
    <3>1. first \in Line /\ c.isr \ {first} \in SUBSET Line
      BY <1>1, <2>2 DEF Controller
    <3>2. Rotate(c) = [c EXCEPT !.isr = c.isr \ {first}, !.lowest = first]
      BY <2>2 DEF Rotate
    <3> HIDE DEF first
    <3> QED
      BY <3>1, <3>2 DEF Controller
  <2> QED
    BY <2>1, <2>2
<1>4. Reset(c) \in Controller
  <2>1. 7 \in Line /\ {} \in SUBSET Line
    BY DEF Line
  <2> QED
    BY <2>1 DEF Controller, Reset
<1> QED
  BY <1>2, <1>3, <1>4

LEMMA CommandKeeps ==
    ASSUME NEW c \in Controller, NEW d \in {EndOfInterrupt(c), Rotate(c)}
    PROVE  d.irr = c.irr /\ d.expects = c.expects /\ d.offset = c.offset
  BY DEF Controller, EndOfInterrupt, Rotate

\* The end of the only interrupt in service leaves none; rotating adds none.
LEMMA EndsTheOne ==
    ASSUME NEW c \in Controller, NEW line \in Line, c.isr \subseteq {line}
    PROVE  /\ EndOfInterrupt(c).isr = {}
           /\ Rotate(c).isr = {}
<1>1. CASE c.isr = {}
  BY <1>1 DEF EndOfInterrupt, Rotate
<1>2. CASE c.isr = {line}
  <2>1. First(c, c.isr) = line
    BY <1>2, FirstAmong DEF Controller
  <2> QED
    BY <1>2, <2>1 DEF EndOfInterrupt, Rotate, Controller
<1> QED
  BY <1>1, <1>2

LEMMA SecondWordType ==
    ASSUME NEW c \in Controller, NEW value \in 0 .. 255
    PROVE  LET d == [c EXCEPT !.offset = value, !.expects = "icw3"]
           IN  /\ d \in Controller
               /\ d.expects = "icw3" /\ d.offset = value
               /\ d.isr = c.isr /\ d.irr = c.irr
<1> DEFINE d == [c EXCEPT !.offset = value, !.expects = "icw3"]
<1>1. d \in Controller
  BY DEF Controller
<1>2. d.expects = "icw3" /\ d.offset = value /\ d.isr = c.isr /\ d.irr = c.irr
  BY DEF Controller
<1> QED
  BY <1>1, <1>2

LEMMA ServeType ==
    ASSUME NEW c \in Controller, NEW line \in Line
    PROVE  Serve(c, line) \in Controller /\ Serve(c, line).isr = c.isr \cup {line}
  BY DEF Controller, Serve

\* The processor goes through a gate to the stub it was made for, and the stub
\* pushes the vector's own number.
LEMMA GateLeadsToStub ==
    ASSUME NEW v \in Installed
    PROVE  Number[v] = v
<1>1. Stub[v] \in Nat /\ Stub[v] \div 65536 < 65536
  BY InterruptsAssumption
<1>2. Offset(Idt(v)) = Stub[v]
  <2>1. Offset(Idt(v)) = (Stub[v] % 65536) + ((Stub[v] \div 65536) % 256) * 65536
                            + ((Stub[v] \div 16777216) % 256) * 16777216
    BY <1>1 DEF Offset, Idt, Descriptor
  <2>2. Stub[v] < 4294967296
    BY <1>1, SMT
  <2>3. (Stub[v] % 65536) + ((Stub[v] \div 65536) % 256) * 65536
            + ((Stub[v] \div 16777216) % 256) * 16777216 = Stub[v]
    <3> DEFINE a == Stub[v]
    <3>1. a \in Nat /\ a < 4294967296
      BY <1>1, <2>2
    <3> HIDE DEF a
    <3>2. (a % 65536) + ((a \div 65536) % 256) * 65536
              + ((a \div 16777216) % 256) * 16777216 = a
      BY <3>1, SMT
    <3> QED
      BY <3>2 DEF a
  <2> QED
    BY <2>1, <2>3
<1>3. \A n \in Installed : Stub[n] = Offset(Idt(v)) <=> n = v
  BY <1>2, InterruptsAssumption
<1> QED
  BY <1>3 DEF Number

Ats == {"entered", "slave", "acknowledged", "leaving", "fault"}
FramesType == frames \in [Process -> Seq(FrameType)]

LEMMA PushKeeps ==
    ASSUME TypeOK, NumberIsVector, NEW f \in FrameType, f.number = f.vector, Push(f)
    PROVE  /\ FramesType'
           /\ NumberIsVector'
           /\ frames'[current] = Append(frames[current], f)
           /\ frames'[current][Len(frames'[current])] = f
<1> DEFINE s == frames[current]
           t == Append(s, f)
<1>1. s \in Seq(FrameType) /\ frames \in [Process -> Seq(FrameType)] /\ current \in Process
  BY DEF TypeOK
<1>2. /\ t \in Seq(FrameType)
      /\ Len(t) = Len(s) + 1
      /\ \A i \in 1 .. Len(s) : t[i] = s[i]
      /\ t[Len(s) + 1] = f
  BY <1>1, AppendProperties
<1>3. \A i \in DOMAIN t : t[i].number = t[i].vector
  <2>1. DOMAIN t = 1 .. Len(s) + 1 /\ DOMAIN s = 1 .. Len(s) /\ Len(s) \in Nat
    BY <1>1, <1>2, LenProperties
  <2>2. \A i \in DOMAIN s : s[i].number = s[i].vector
    BY <1>1 DEF NumberIsVector
  <2> QED
    BY <1>2, <2>1, <2>2
<1> HIDE DEF t
<1>4. frames' = [frames EXCEPT ![current] = t]
  BY DEF Push, t
<1> QED
  BY <1>1, <1>2, <1>3, <1>4 DEF NumberIsVector, FramesType, t

LEMMA GoOnKeeps ==
    ASSUME TypeOK, NumberIsVector, frames[current] # <<>>, NEW at \in Ats, GoOn(at)
    PROVE  /\ FramesType'
           /\ NumberIsVector'
           /\ frames'[current] # <<>>
           /\ frames'[current][Len(frames'[current])].at = at
           /\ \A p \in Process \ {current} : frames'[p] = frames[p]
<1> DEFINE s == frames[current]
           f == [Top EXCEPT !.at = at]
           t == [s EXCEPT ![Len(s)] = f]
<1>1. s \in Seq(FrameType) /\ frames \in [Process -> Seq(FrameType)] /\ current \in Process
  BY DEF TypeOK
<1>2. Len(s) \in 1 .. Len(s) /\ DOMAIN s = 1 .. Len(s) /\ Len(s) \in Nat
  BY <1>1, EmptySeq, LenProperties
<1>3. Top = s[Len(s)] /\ Top \in FrameType
  BY <1>1, <1>2, ElementOfSeq DEF Top, Last
<1>4. f \in FrameType /\ f.at = at /\ f.number = f.vector
  BY <1>1, <1>2, <1>3 DEF FrameType, Ats, NumberIsVector
<1> HIDE DEF f
<1>5. /\ t \in Seq(FrameType)
      /\ Len(t) = Len(s)
      /\ \A j \in 1 .. Len(s) : t[j] = IF j = Len(s) THEN f ELSE s[j]
  BY <1>1, <1>2, <1>4, ExceptSeq
<1>6. \A i \in DOMAIN t : t[i].number = t[i].vector
  <2>1. DOMAIN t = 1 .. Len(s)
    BY <1>5, LenProperties
  <2>2. \A i \in DOMAIN s : s[i].number = s[i].vector
    BY <1>1 DEF NumberIsVector
  <2> QED
    BY <1>2, <1>4, <1>5, <2>1, <2>2
<1>7. frames' = [frames EXCEPT ![current] = t]
  BY DEF GoOn, f
<1> HIDE DEF t
<1>8. t # <<>> /\ t[Len(t)].at = at
  BY <1>2, <1>4, <1>5, EmptySeq
<1> QED
  BY <1>1, <1>5, <1>6, <1>7, <1>8 DEF NumberIsVector, FramesType

LEMMA LeaveKeeps ==
    ASSUME TypeOK, NumberIsVector, frames[current] # <<>>,
           frames' = [frames EXCEPT ![current] = Front(@)]
    PROVE  FramesType' /\ NumberIsVector'
<1> DEFINE s == frames[current]
           t == SubSeq(s, 1, Len(s) - 1)
<1>1. s \in Seq(FrameType) /\ frames \in [Process -> Seq(FrameType)] /\ current \in Process
  BY DEF TypeOK
<1>2. Len(s) \in Nat \ {0} /\ DOMAIN s = 1 .. Len(s)
  BY <1>1, EmptySeq, LenProperties
<1>3. \A i \in 1 .. Len(s) - 1 : s[i] \in FrameType
  BY <1>1, <1>2, ElementOfSeq
<1>4. /\ t \in Seq(FrameType)
      /\ Len(t) = Len(s) - 1
      /\ \A i \in 1 .. Len(s) - 1 : t[i] = s[i]
  <2>1. /\ t \in Seq(FrameType)
        /\ Len(t) = IF 1 <= Len(s) - 1 THEN Len(s) - 1 - 1 + 1 ELSE 0
        /\ \A i \in 1 .. Len(s) - 1 - 1 + 1 : t[i] = s[1 + i - 1]
    BY <1>2, <1>3, SubSeqProperties
  <2> QED
    BY <1>2, <2>1
<1>5. \A i \in DOMAIN t : t[i].number = t[i].vector
  <2>1. DOMAIN t = 1 .. Len(s) - 1
    BY <1>4, LenProperties
  <2>2. \A i \in DOMAIN s : s[i].number = s[i].vector
    BY <1>1 DEF NumberIsVector
  <2> QED
    BY <1>2, <1>4, <2>1, <2>2
<1>6. frames' = [frames EXCEPT ![current] = t]
  BY DEF Front
<1> HIDE DEF t
<1> QED
  BY <1>1, <1>4, <1>5, <1>6 DEF NumberIsVector, FramesType

-----------------------------------------------------------------------------
LEMMA InitIInv == Init => IInv
<1> SUFFICES ASSUME Init PROVE IInv
  OBVIOUS
<1>1. pic.master \in LeftByBios /\ pic.slave \in LeftByBios
  BY DEF Init
<1>2. LeftByBios \subseteq Controller
  BY DEF LeftByBios, Controller, Line
<1>3. 0 \in Process
  BY InterruptsAssumption DEF Process
<1>4. 1 \in 1 .. Len(IcwWrites) + 1
  BY DEF IcwWrites
<1>5. TypeOK
  <2>1. pic \in [master : Controller, slave : Controller]
    BY <1>2 DEF Init
  <2>2. frames \in [Process -> Seq(FrameType)]
    BY EmptySeq DEF Init
  <2>3. raises \in [Devices -> 0 .. MaxRaises] /\ early \in 0 .. MaxEarly
    BY InterruptsAssumption DEF Init
  <2> QED
    BY <1>3, <1>4, <2>1, <2>2, <2>3 DEF Init, TypeOK
<1>6. Programmed /\ Booting /\ EnabledRunning /\ MasterAcknowledged
  BY <1>1 DEF Init, LeftByBios, Programmed, Booting, EnabledRunning, MasterAcknowledged
<1>7. CascadeFree
  BY <1>1 DEF LeftByBios, CascadeFree
<1>8. OneInService /\ Ended /\ NumberIsVector
  BY <1>3 DEF Init, OneInService, Ended, NumberIsVector
<1> QED
  BY <1>5, <1>6, <1>7, <1>8 DEF IInv
LEMMA InstallIInv == IInv /\ Install => IInv'
<1> SUFFICES ASSUME IInv, Install PROVE IInv'
  OBVIOUS
<1> DEFINE m == pic.master
           s == pic.slave
<1>1. /\ pic \in [master : Controller, slave : Controller]
      /\ m \in Controller /\ s \in Controller
      /\ boot \in 1 .. 10 /\ boot' = boot + 1
  BY DEF IInv, TypeOK, Install, IcwWrites
<1>2. /\ status = "booting" /\ status' = "booting"
      /\ UNCHANGED <<interruptFlag, current, frames, raises, early>>
  BY <1>1 DEF IInv, Booting, Install
<1>3. m.expects = CASE boot \in {2, 3} -> "icw2" [] boot \in {4, 5} -> "icw3"
                    [] boot \in {6, 7} -> "icw4" [] OTHER -> "nothing"
  BY DEF IInv, Programmed
<1>4. s.expects = CASE boot \in {3, 4} -> "icw2" [] boot \in {5, 6} -> "icw3"
                    [] boot \in {7, 8} -> "icw4" [] OTHER -> "nothing"
  BY DEF IInv, Programmed
<1>5. pic' = Written(IcwWrites[boot][1], IcwWrites[boot][2])
  BY DEF Install
<1>6. /\ boot > 3 => m.offset = 32
      /\ boot > 4 => s.offset = 40
      /\ boot > 1 => m.isr = {}
      /\ 2 \notin m.irr
  BY <1>2 DEF IInv, Programmed, CascadeFree
<1>7. /\ pic' \in [master : Controller, slave : Controller]
      /\ Programmed'
      /\ 2 \notin pic'.master.irr
  <2>1. CASE boot = 1
    <3>1. pic' = [pic EXCEPT !.master = Reset(m)]
      BY <1>5, <2>1 DEF IcwWrites, Written, Command
    <3>2. Reset(m) \in Controller
      BY <1>1, CommandType
    <3>3. pic'.master = Reset(m) /\ pic'.slave = s
      BY <1>1, <3>1
    <3>4. pic' \in [master : Controller, slave : Controller]
      BY <1>1, <3>1, <3>2
    <3>5. /\ Reset(m).expects = "icw2" /\ Reset(m).isr = {}
          /\ 2 \notin Reset(m).irr
      BY <1>1 DEF Reset, Controller
    <3> QED
      BY <1>1, <1>2, <1>3, <1>4, <1>6, <2>1, <3>3, <3>4, <3>5 DEF Programmed
  <2>2. CASE boot = 2
    <3>1. pic' = [pic EXCEPT !.slave = Reset(s)]
      BY <1>5, <2>2 DEF IcwWrites, Written, Command
    <3>2. Reset(s) \in Controller
      BY <1>1, CommandType
    <3>3. pic'.slave = Reset(s) /\ pic'.master = m
      BY <1>1, <3>1
    <3>4. pic' \in [master : Controller, slave : Controller]
      BY <1>1, <3>1, <3>2
    <3>5. /\ Reset(s).expects = "icw2" /\ Reset(s).isr = {}
          /\ 2 \notin Reset(s).irr
      BY <1>1 DEF Reset, Controller
    <3> QED
      BY <1>1, <1>2, <1>3, <1>4, <1>6, <2>2, <3>3, <3>4, <3>5 DEF Programmed
  <2>3. CASE boot = 3
    <3> DEFINE d == [m EXCEPT !.offset = 32, !.expects = "icw3"]
    <3>1. m.expects = "icw2"
      BY <1>3, <1>4, <2>3
    <3>2. pic' = [pic EXCEPT !.master = d]
      BY <1>5, <2>3, <3>1 DEF IcwWrites, Written, Data
    <3>3. /\ d \in Controller
          /\ d.expects = "icw3" /\ d.offset = 32
          /\ d.isr = m.isr /\ d.irr = m.irr
      <4>1. 32 \in 0 .. 255
        OBVIOUS
      <4> QED
        BY <1>1, <4>1, SecondWordType
    <3> HIDE DEF d
    <3>4. /\ pic' \in [master : Controller, slave : Controller]
          /\ pic'.master = d /\ pic'.slave = s
      BY <1>1, <3>2, <3>3
    <3> QED
      BY <1>1, <1>2, <1>3, <1>4, <1>6, <2>3, <3>3, <3>4 DEF Programmed
  <2>4. CASE boot = 4
    <3> DEFINE d == [s EXCEPT !.offset = 40, !.expects = "icw3"]
    <3>1. s.expects = "icw2"
      BY <1>3, <1>4, <2>4
    <3>2. pic' = [pic EXCEPT !.slave = d]
      BY <1>5, <2>4, <3>1 DEF IcwWrites, Written, Data
    <3>3. /\ d \in Controller
          /\ d.expects = "icw3" /\ d.offset = 40
          /\ d.isr = s.isr /\ d.irr = s.irr
      <4>1. 40 \in 0 .. 255
        OBVIOUS
      <4> QED
        BY <1>1, <4>1, SecondWordType
    <3> HIDE DEF d
    <3>4. /\ pic' \in [master : Controller, slave : Controller]
          /\ pic'.slave = d /\ pic'.master = m
      BY <1>1, <3>2, <3>3
    <3> QED
      BY <1>1, <1>2, <1>3, <1>4, <1>6, <2>4, <3>3, <3>4 DEF Programmed
  <2>5. CASE boot = 5
    <3>1. m.expects = "icw3"
      BY <1>3, <1>4, <2>5
    <3>2. pic' = [pic EXCEPT !.master = [m EXCEPT !.expects = "icw4"]]
      BY <1>5, <2>5, <3>1 DEF IcwWrites, Written, Data
    <3> QED
      BY <1>1, <1>2, <1>3, <1>4, <1>6, <2>5, <3>2 DEF Programmed, Controller
  <2>6. CASE boot = 6
    <3>1. s.expects = "icw3"
      BY <1>3, <1>4, <2>6
    <3>2. pic' = [pic EXCEPT !.slave = [s EXCEPT !.expects = "icw4"]]
      BY <1>5, <2>6, <3>1 DEF IcwWrites, Written, Data
    <3> QED
      BY <1>1, <1>2, <1>3, <1>4, <1>6, <2>6, <3>2 DEF Programmed, Controller
  <2>7. CASE boot = 7
    <3>1. m.expects = "icw4"
      BY <1>3, <1>4, <2>7
    <3>2. pic' = [pic EXCEPT !.master = [m EXCEPT !.expects = "nothing"]]
      BY <1>5, <2>7, <3>1 DEF IcwWrites, Written, Data
    <3> QED
      BY <1>1, <1>2, <1>3, <1>4, <1>6, <2>7, <3>2 DEF Programmed, Controller
  <2>8. CASE boot = 8
    <3>1. s.expects = "icw4"
      BY <1>3, <1>4, <2>8
    <3>2. pic' = [pic EXCEPT !.slave = [s EXCEPT !.expects = "nothing"]]
      BY <1>5, <2>8, <3>1 DEF IcwWrites, Written, Data
    <3> QED
      BY <1>1, <1>2, <1>3, <1>4, <1>6, <2>8, <3>2 DEF Programmed, Controller
  <2>9. CASE boot = 9
    <3>1. m.expects = "nothing"
      BY <1>3, <1>4, <2>9
    <3>2. pic' = [pic EXCEPT !.master = [m EXCEPT !.mask = {l \in Line : (\h00 \div 2 ^ l) % 2 = 1}]]
      BY <1>5, <2>9, <3>1 DEF IcwWrites, Written, Data
    <3> QED
      BY <1>1, <1>2, <1>3, <1>4, <1>6, <2>9, <3>2 DEF Programmed, Controller
  <2>10. CASE boot = 10
    <3>1. s.expects = "nothing"
      BY <1>3, <1>4, <2>10
    <3>2. pic' = [pic EXCEPT !.slave = [s EXCEPT !.mask = {l \in Line : (\h00 \div 2 ^ l) % 2 = 1}]]
      BY <1>5, <2>10, <3>1 DEF IcwWrites, Written, Data
    <3> QED
      BY <1>1, <1>2, <1>3, <1>4, <1>6, <2>10, <3>2 DEF Programmed, Controller
  <2> QED
    BY <1>1, <2>1, <2>2, <2>3, <2>4, <2>5, <2>6, <2>7, <2>8, <2>9, <2>10
<1>8. TypeOK'
  BY <1>1, <1>2, <1>7 DEF IInv, TypeOK, IcwWrites
<1> QED
  BY <1>2, <1>7, <1>8 DEF IInv, Booting, EnabledRunning, CascadeFree, OneInService,
      Ended, MasterAcknowledged, NumberIsVector
LEMMA StiIInv == IInv /\ Sti => IInv'
<1> SUFFICES ASSUME IInv, Sti PROVE IInv'
  OBVIOUS
<1>1. /\ boot = 11 /\ status = "booting" /\ status' = "running" /\ interruptFlag' = TRUE
      /\ UNCHANGED <<pic, boot, current, frames, raises, early>>
  BY DEF IInv, TypeOK, Sti, IcwWrites
<1>2. pic.master.isr = {} /\ current \in Process /\ frames[current] = <<>>
  BY <1>1 DEF IInv, TypeOK, Programmed, Booting
<1>3. 0 \in Line
  BY DEF Line
<1> QED
  BY <1>1, <1>2, <1>3 DEF IInv, TypeOK, Programmed, Booting, EnabledRunning,
      CascadeFree, OneInService, Ended, MasterAcknowledged, NumberIsVector

LEMMA RaiseIInv ==
    ASSUME IInv, NEW line \in {0} \cup Devices, Raise(line)
    PROVE  IInv'
<1>1. /\ pic \in [master : Controller, slave : Controller]
      /\ line \in 0 .. 15 /\ line # 2
      /\ UNCHANGED <<boot, interruptFlag, current, frames, status>>
  BY InterruptsAssumption DEF IInv, TypeOK, Raise
<1>2. raises' \in [Devices -> 0 .. MaxRaises] /\ early' \in 0 .. MaxEarly
  <2>1. raises \in [Devices -> 0 .. MaxRaises] /\ early \in 0 .. MaxEarly /\ MaxEarly \in Nat /\ MaxRaises \in Nat
    BY InterruptsAssumption DEF IInv, TypeOK
  <2>2. CASE line = 0
    BY <2>1, <2>2 DEF Raise
  <2>3. CASE line # 0
    BY <2>1, <2>3 DEF Raise
  <2> QED
    BY <2>2, <2>3
<1>3. /\ pic' \in [master : Controller, slave : Controller]
      /\ pic'.master.isr = pic.master.isr
      /\ pic'.master.expects = pic.master.expects /\ pic'.slave.expects = pic.slave.expects
      /\ pic'.master.offset = pic.master.offset /\ pic'.slave.offset = pic.slave.offset
      /\ 2 \notin pic'.master.irr
  <2> DEFINE m == [pic.master EXCEPT !.irr = @ \cup {line}]
             s == [pic.slave EXCEPT !.irr = @ \cup {line - 8}]
  <2>1. CASE line < 8
    <3>1. line \in Line
      BY <1>1, <2>1 DEF Line
    <3>2. /\ m \in Controller /\ m.irr = pic.master.irr \cup {line}
          /\ m.isr = pic.master.isr /\ m.expects = pic.master.expects
          /\ m.offset = pic.master.offset
      BY <1>1, <3>1 DEF Controller
    <3>3. pic' = [pic EXCEPT !.master = m]
      BY <1>1, <2>1 DEF Raise
    <3> HIDE DEF m
    <3> QED
      BY <1>1, <3>2, <3>3 DEF IInv, CascadeFree
  <2>2. CASE ~(line < 8)
    <3>1. line - 8 \in Line
      BY <1>1, <2>2 DEF Line
    <3>2. /\ s \in Controller
          /\ s.expects = pic.slave.expects /\ s.offset = pic.slave.offset
      BY <1>1, <3>1 DEF Controller
    <3>3. pic' = [pic EXCEPT !.slave = s]
      BY <1>1, <2>2 DEF Raise
    <3> HIDE DEF s
    <3> QED
      BY <1>1, <3>2, <3>3 DEF IInv, CascadeFree
  <2> QED
    BY <2>1, <2>2
<1>4. TypeOK'
  BY <1>1, <1>2, <1>3 DEF IInv, TypeOK
<1>5. Programmed'
  BY <1>1, <1>3 DEF IInv, Programmed
<1> QED
  BY <1>1, <1>3, <1>4, <1>5 DEF IInv, Booting, EnabledRunning,
      CascadeFree, OneInService, Ended, MasterAcknowledged, NumberIsVector

\* What the processor is asked to serve.
LEMMA ChosenLines ==
    ASSUME IInv, Requests(Master) # {}
    PROVE  /\ Chosen \in Line
           /\ Chosen = 2 => ChosenOfSlave \in Line
<1>1. pic.master \in Controller /\ pic.slave \in Controller
  BY DEF IInv, TypeOK
<1>2. Master \in Controller /\ Master.irr = pic.master.irr \cup {l \in {2} : Requests(pic.slave) # {}}
  BY <1>1 DEF Master, Controller, Line
<1>3. Requests(Master) \in SUBSET Line /\ Requests(pic.slave) \in SUBSET Line
  BY <1>1, <1>2 DEF Requests, Controller
<1>4. Chosen \in Requests(Master)
  BY <1>2, <1>3, FirstAmong DEF Chosen
<1>5. ASSUME Chosen = 2 PROVE Requests(pic.slave) # {}
  <2>1. 2 \in Master.irr
    BY <1>4, <1>5 DEF Requests
  <2> QED
    BY <1>2, <2>1 DEF IInv, CascadeFree
<1>6. Chosen = 2 => ChosenOfSlave \in Line
  BY <1>1, <1>3, <1>5, FirstAmong DEF ChosenOfSlave
<1> QED
  BY <1>3, <1>4, <1>6

LEMMA AcceptIInv == IInv /\ Accept => IInv'
<1> SUFFICES ASSUME IInv, Accept PROVE IInv'
  OBVIOUS
<1>1. /\ interruptFlag /\ status = "running" /\ boot = 11 /\ pic.master.isr = {}
      /\ pic.master \in Controller /\ pic.slave \in Controller
      /\ pic.master.offset = 32 /\ pic.slave.offset = 40
      /\ interruptFlag' = FALSE /\ UNCHANGED <<boot, current, raises, early, status>>
  BY DEF IInv, TypeOK, Accept, EnabledRunning, Booting, MasterAcknowledged, Programmed
<1>2. Chosen \in Line /\ (Chosen = 2 => ChosenOfSlave \in Line)
  BY ChosenLines DEF Accept
<1> DEFINE vector == IF Chosen = 2 THEN pic.slave.offset + ChosenOfSlave
                     ELSE pic.master.offset + Chosen
           line == IF Chosen = 2 THEN 8 + ChosenOfSlave ELSE Chosen
           f == Frame(32 + line, Number[vector], "entered")
<1>3. vector \in Installed /\ vector = 32 + line
  BY <1>1, <1>2 DEF Line, Installed
<1>4. f \in FrameType /\ f.number = f.vector /\ f.at = "entered"
  BY <1>3, GateLeadsToStub DEF Frame, FrameType
<1>5. Push(f)
  BY DEF Accept
<1> HIDE DEF f
<1>6. /\ frames' \in [Process -> Seq(FrameType)]
      /\ NumberIsVector'
      /\ frames'[current][Len(frames'[current])].at = "entered"
  BY <1>4, <1>5, PushKeeps DEF IInv, FramesType
<1> DEFINE m == Serve(pic.master, Chosen)
           s == IF Chosen = 2 THEN Serve(pic.slave, ChosenOfSlave) ELSE pic.slave
<1>7. /\ m \in Controller /\ m.isr = {Chosen}
      /\ m.expects = pic.master.expects /\ m.offset = pic.master.offset
      /\ 2 \notin m.irr
  BY <1>1, <1>2, ServeType DEF Serve, Controller, IInv, CascadeFree
<1>8. s \in Controller /\ s.expects = pic.slave.expects /\ s.offset = pic.slave.offset
  BY <1>1, <1>2, ServeType DEF Serve, Controller
<1>9. pic' = [master |-> m, slave |-> s]
  BY DEF Accept
<1> HIDE DEF m, s
<1>10. TypeOK'
  BY <1>1, <1>6, <1>7, <1>8, <1>9 DEF IInv, TypeOK
<1>11. Programmed'
  BY <1>1, <1>7, <1>8, <1>9 DEF IInv, Programmed
<1>12. OneInService' /\ Ended' /\ CascadeFree'
  BY <1>1, <1>2, <1>6, <1>7, <1>9 DEF OneInService, Ended, CascadeFree
<1> QED
  BY <1>1, <1>6, <1>10, <1>11, <1>12 DEF IInv, Booting, EnabledRunning, MasterAcknowledged
LEMMA AcknowledgeSlaveIInv == IInv /\ AcknowledgeSlave => IInv'
<1> SUFFICES ASSUME IInv, AcknowledgeSlave PROVE IInv'
  OBVIOUS
<1> DEFINE m == Rotate(pic.master)
<1>1. /\ status = "running" /\ boot = 11 /\ current \in Process
      /\ pic \in [master : Controller, slave : Controller]
      /\ UNCHANGED <<boot, interruptFlag, current, raises, early, status>>
  BY DEF IInv, TypeOK, AcknowledgeSlave, InHandler, Booting
<1>2. /\ FramesType' /\ NumberIsVector'
      /\ frames'[current][Len(frames'[current])].at = "slave"
  BY GoOnKeeps DEF IInv, AcknowledgeSlave, InHandler, Ats
<1>3. /\ m \in Controller /\ m.isr = {} /\ m.irr = pic.master.irr
      /\ m.expects = pic.master.expects /\ m.offset = pic.master.offset
  <2>1. PICK line \in Line : pic.master.isr \subseteq {line}
    BY <1>1 DEF IInv, OneInService
  <2> QED
    BY <1>1, <2>1, CommandType, CommandKeeps, EndsTheOne
<1>4. pic' = [pic EXCEPT !.master = m] \/ pic' = pic
  BY DEF AcknowledgeSlave, Written, Command
<1> HIDE DEF m
<1>5. /\ pic' \in [master : Controller, slave : Controller]
      /\ Programmed' /\ CascadeFree' /\ OneInService' /\ MasterAcknowledged'
  <2>1. CASE pic' = [pic EXCEPT !.master = m]
    <3>1. pic'.master = m /\ pic'.slave = pic.slave /\ 0 \in Line
      BY <1>1, <2>1 DEF Line
    <3> QED
      BY <1>1, <1>3, <2>1, <3>1 DEF IInv, Programmed, CascadeFree, OneInService,
          MasterAcknowledged
  <2>2. CASE pic' = pic
    BY <1>1, <2>2 DEF IInv, Programmed, CascadeFree, OneInService, MasterAcknowledged
  <2> QED
    BY <1>4, <2>1, <2>2
<1>6. TypeOK'
  BY <1>1, <1>2, <1>5 DEF IInv, TypeOK, FramesType
<1> QED
  BY <1>1, <1>2, <1>5, <1>6 DEF IInv, Booting, EnabledRunning, Ended

LEMMA AcknowledgeMasterIInv == IInv /\ AcknowledgeMaster => IInv'
<1> SUFFICES ASSUME IInv, AcknowledgeMaster PROVE IInv'
  OBVIOUS
<1> DEFINE m == EndOfInterrupt(pic.master)
<1>1. /\ status = "running" /\ boot = 11 /\ current \in Process
      /\ pic \in [master : Controller, slave : Controller]
      /\ UNCHANGED <<boot, interruptFlag, current, raises, early, status>>
  BY DEF IInv, TypeOK, AcknowledgeMaster, InHandler, Booting
<1>2. /\ FramesType' /\ NumberIsVector'
      /\ frames'[current][Len(frames'[current])].at = "acknowledged"
  BY GoOnKeeps DEF IInv, AcknowledgeMaster, InHandler, Ats
<1>3. /\ m \in Controller /\ m.isr = {} /\ m.irr = pic.master.irr
      /\ m.expects = pic.master.expects /\ m.offset = pic.master.offset
  <2>1. PICK line \in Line : pic.master.isr \subseteq {line}
    BY <1>1 DEF IInv, OneInService
  <2> QED
    BY <1>1, <2>1, CommandType, CommandKeeps, EndsTheOne
<1>4. pic' = [pic EXCEPT !.master = m]
  BY DEF AcknowledgeMaster, Written, Command
<1> HIDE DEF m
<1>5. pic'.master = m /\ pic'.slave = pic.slave /\ 0 \in Line
  BY <1>1, <1>4 DEF Line
<1>6. /\ pic' \in [master : Controller, slave : Controller]
      /\ Programmed' /\ CascadeFree' /\ OneInService' /\ MasterAcknowledged'
  BY <1>1, <1>3, <1>4, <1>5 DEF IInv, Programmed, CascadeFree, OneInService,
      MasterAcknowledged
<1>7. TypeOK'
  BY <1>1, <1>2, <1>6 DEF IInv, TypeOK, FramesType
<1>8. Ended'
  BY <1>3, <1>5 DEF Ended
<1> QED
  BY <1>1, <1>2, <1>6, <1>7, <1>8 DEF IInv, Booting, EnabledRunning

\* Behind the end of interrupt the master has nothing in service; so it does
\* not matter whose stack is looked at.
LEMMA HandlerIInv == IInv /\ (NoCallback \/ Callback \/ Leave) => IInv'
<1> SUFFICES ASSUME IInv, NoCallback \/ Callback \/ Leave PROVE IInv'
  OBVIOUS
<1>1. /\ status = "running" /\ boot = 11 /\ current \in Process /\ frames[current] # <<>>
      /\ UNCHANGED <<pic, boot, raises, early, status>>
  BY DEF IInv, TypeOK, NoCallback, Callback, Leave, InHandler, Booting
<1>2. pic.master.isr = {}
  BY <1>1 DEF IInv, Ended, NoCallback, Callback, Leave, InHandler, Last
<1>3. FramesType' /\ NumberIsVector'
  <2>1. CASE NoCallback \/ Callback
    BY <1>1, <2>1, GoOnKeeps DEF IInv, NoCallback, Callback, Ats
  <2>2. CASE Leave
    BY <1>1, <2>2, LeaveKeeps DEF IInv, Leave
  <2> QED
    BY <2>1, <2>2
<1>4. current' \in Process /\ interruptFlag' \in BOOLEAN
  <2>1. CASE NoCallback \/ Leave
    BY <1>1, <2>1 DEF IInv, TypeOK, NoCallback, Leave
  <2>2. CASE Callback
    <3>1. current' = (current + 1) % N
      BY <2>2 DEF Callback, Successor
    <3> QED
      BY <1>1, <2>2, <3>1, InterruptsAssumption DEF Process, Callback
  <2> QED
    BY <2>1, <2>2
<1>5. TypeOK'
  BY <1>1, <1>3, <1>4 DEF IInv, TypeOK, FramesType
<1> QED
  BY <1>1, <1>2, <1>3, <1>5 DEF IInv, Programmed, Booting, EnabledRunning,
      CascadeFree, OneInService, Ended, MasterAcknowledged

LEMMA FaultHandlerIInv ==
    ASSUME IInv, NEW v \in Faults, FaultHandler(v)
    PROVE  IInv'
<1>1. v \in Installed
  BY InterruptsAssumption DEF Installed
<1>2. Frame(v, Number[v], "fault") \in FrameType /\ Number[v] = v
  BY <1>1, GateLeadsToStub DEF Frame, FrameType
<1>3. FramesType' /\ NumberIsVector'
  BY <1>2, PushKeeps DEF IInv, FaultHandler, Frame
<1>4. /\ status = "running" /\ status' = "halted" /\ interruptFlag' = FALSE
      /\ UNCHANGED <<pic, boot, current, raises, early>>
  BY DEF FaultHandler
<1>5. TypeOK'
  BY <1>3, <1>4 DEF IInv, TypeOK, FramesType
<1> QED
  BY <1>3, <1>4, <1>5 DEF IInv, Programmed, Booting, EnabledRunning,
      CascadeFree, OneInService, Ended, MasterAcknowledged

LEMMA NextIInv == IInv /\ [Next]_vars => IInv'
<1> SUFFICES ASSUME IInv, [Next]_vars PROVE IInv'
  OBVIOUS
<1>1. CASE UNCHANGED vars
  BY <1>1 DEF vars, IInv, TypeOK, Programmed, Booting, EnabledRunning, CascadeFree,
      OneInService, Ended, MasterAcknowledged, NumberIsVector
<1>2. CASE Install \/ Sti \/ Accept
  BY <1>2, InstallIInv, StiIInv, AcceptIInv
<1>3. CASE \E line \in {0} \cup Devices : Raise(line)
  BY <1>3, RaiseIInv
<1>4. CASE Handle
  BY <1>4, AcknowledgeSlaveIInv, AcknowledgeMasterIInv, HandlerIInv DEF Handle
<1>5. CASE \E v \in Faults : FaultHandler(v)
  BY <1>5, FaultHandlerIInv
<1> QED
  BY <1>1, <1>2, <1>3, <1>4, <1>5 DEF Next

LEMMA Invariance == Spec => []IInv
  BY InitIInv, NextIInv, PTL DEF Spec

\* Every variable stays in its range, for any number of processes and nested
\* interrupts.
THEOREM TypeCorrect == Spec => []TypeOK
<1>1. IInv => TypeOK
  BY DEF IInv
<1> QED
  BY <1>1, Invariance, PTL

\* Wherever the linker puts the stubs, handlers are told the right number.
THEOREM Dispatched == Spec => []NumberIsVector
<1>1. IInv => NumberIsVector
  BY DEF IInv
<1> QED
  BY <1>1, Invariance, PTL

\* Whatever interrupts come, in whatever order and however they nest, no line
\* of the master is locked out while interrupts are enabled.
THEOREM NoLineLocked == Spec => []MasterAcknowledged
<1>1. IInv => MasterAcknowledged
  BY DEF IInv
<1> QED
  BY <1>1, Invariance, PTL

-----------------------------------------------------------------------------
(* How deep ticks nest.  A tick can find the frames of others on the stack *)
(* of its process only if it was raised when they were there: processes    *)
(* are switched by ticks, and a tick is not raised while another waits to  *)
(* be taken.  So it was counted as one that came early; and until it is    *)
(* taken no stack is as deep as the count allows.                          *)

Stack == frames[current]

\* The first n frames of s are the timer's on their way back.
Back(s, n) == \A i \in 1 .. n : s[i].number = 32 /\ s[i].at = "leaving"

\* How many frames a stack may have.
Room == IF 0 \in pic.master.irr THEN early ELSE early + 1

Waiting ==
    \A p \in Process \ {current} :
        Back(frames[p], Len(frames[p])) /\ Len(frames[p]) <= early + 1

Uninterrupted == interruptFlag => Back(Stack, Len(Stack)) /\ Len(Stack) <= Room

Handling ==
    ~interruptFlag /\ status = "running" =>
        /\ Stack # <<>>
        /\ Back(Stack, Len(Stack) - 1) /\ Len(Stack) - 1 <= Room
        /\ Stack[Len(Stack)].number = 32 =>
              /\ Stack[Len(Stack)].at # "leaving"
              /\ Len(Stack) <= Room
              /\ \A p \in Process \ {current} : Len(frames[p]) <= Room

Stopped == status = "halted" => ~interruptFlag /\ Len(Stack) = 1

NestInv == Waiting /\ Uninterrupted /\ Handling /\ Stopped

LEMMA StackType ==
    ASSUME TypeOK
    PROVE  /\ current \in Process /\ Stack \in Seq(FrameType)
           /\ \A p \in Process : frames[p] \in Seq(FrameType) /\ Len(frames[p]) \in Nat
           /\ Stack # <<>> => Len(Stack) \in Nat \ {0}
           /\ early \in Nat /\ Room \in Nat /\ early <= Room /\ Room <= early + 1
<1>1. early \in Nat
  BY InterruptsAssumption DEF TypeOK
<1>2. current \in Process /\ \A p \in Process : frames[p] \in Seq(FrameType)
  BY DEF TypeOK
<1>3. Stack \in Seq(FrameType)
  BY <1>2 DEF Stack
<1>4. Stack # <<>> => Len(Stack) \in Nat \ {0}
  BY <1>3, EmptySeq, LenProperties
<1> QED
  BY <1>1, <1>2, <1>3, <1>4, LenProperties DEF Room

\* What GoOn and leaving do to the stack.
LEMMA GoOnStack ==
    ASSUME TypeOK, Stack # <<>>, NEW at \in Ats, GoOn(at),
           NEW s, s = Stack, NEW t, t = frames'[current]
    PROVE  /\ Len(t) = Len(s) /\ t # <<>>
           /\ \A i \in 1 .. Len(s) - 1 : t[i] = s[i]
           /\ t[Len(s)].number = s[Len(s)].number /\ t[Len(s)].at = at
           /\ \A p \in Process \ {current} : frames'[p] = frames[p]
<1>1. /\ s \in Seq(FrameType) /\ Len(s) \in Nat \ {0} /\ current \in Process
      /\ frames \in [Process -> Seq(FrameType)]
  BY StackType DEF TypeOK
<1> DEFINE f == [Top EXCEPT !.at = at]
<1>2. Top = s[Len(s)] /\ Top \in FrameType
  BY <1>1, ElementOfSeq DEF Top, Last, Stack
<1>3. f \in FrameType /\ f.at = at /\ f.number = s[Len(s)].number
  BY <1>2 DEF FrameType, Ats
<1>4. frames' = [frames EXCEPT ![current] = [s EXCEPT ![Len(s)] = f]]
  BY DEF GoOn, Stack
<1> HIDE DEF f
<1>5. t = [s EXCEPT ![Len(s)] = f] /\ Len(s) \in 1 .. Len(s)
  BY <1>1, <1>4
<1>6. /\ t \in Seq(FrameType) /\ Len(t) = Len(s)
      /\ \A j \in 1 .. Len(s) : t[j] = IF j = Len(s) THEN f ELSE s[j]
  BY <1>1, <1>3, <1>5, ExceptSeq
<1>7. t # <<>>
  BY <1>1, <1>6, EmptySeq
<1> QED
  BY <1>1, <1>3, <1>4, <1>6, <1>7

\* Leaving out the last frame.
LEMMA FrontOfSeq ==
    ASSUME NEW s \in Seq(FrameType), Len(s) \in Nat \ {0}
    PROVE  /\ Len(SubSeq(s, 1, Len(s) - 1)) = Len(s) - 1
           /\ \A i \in 1 .. Len(s) - 1 : SubSeq(s, 1, Len(s) - 1)[i] = s[i]
<1>1. \A i \in 1 .. Len(s) - 1 : s[i] \in FrameType
  BY ElementOfSeq
<1>2. PICK n \in Int : n = Len(s) - 1 /\ n >= 0
  OBVIOUS
<1>3. /\ Len(SubSeq(s, 1, n)) = IF 1 <= n THEN n - 1 + 1 ELSE 0
      /\ \A i \in 1 .. n - 1 + 1 : SubSeq(s, 1, n)[i] = s[1 + i - 1]
  BY <1>1, <1>2, SubSeqProperties
<1> QED
  BY <1>2, <1>3

LEMMA LeaveStack ==
    ASSUME TypeOK, Stack # <<>>, frames' = [frames EXCEPT ![current] = Front(@)],
           NEW s, s = Stack, NEW t, t = frames'[current]
    PROVE  /\ Len(t) = Len(s) - 1
           /\ \A i \in 1 .. Len(s) - 1 : t[i] = s[i]
           /\ \A p \in Process \ {current} : frames'[p] = frames[p]
<1>1. /\ s \in Seq(FrameType) /\ Len(s) \in Nat \ {0} /\ current \in Process
      /\ frames \in [Process -> Seq(FrameType)]
  BY StackType DEF TypeOK
<1>2. t = SubSeq(s, 1, Len(s) - 1) /\ \A p \in Process \ {current} : frames'[p] = frames[p]
  BY <1>1 DEF Front, Stack
<1> QED
  BY <1>1, <1>2, FrontOfSeq

\* A line that is served is one that was raised.
LEMMA TickRaised ==
    ASSUME IInv, Requests(Master) # {}, Chosen = 0
    PROVE  0 \in pic.master.irr
<1>1. pic.master \in Controller /\ pic.slave \in Controller
  BY DEF IInv, TypeOK
<1>2. /\ Master \in Controller
      /\ Master.irr = pic.master.irr \cup {l \in {2} : Requests(pic.slave) # {}}
  BY <1>1 DEF Master, Controller, Line
<1>3. Requests(Master) \in SUBSET Line
  BY <1>1, <1>2 DEF Requests, Controller
<1>4. Chosen \in Requests(Master)
  BY <1>2, <1>3, FirstAmong DEF Chosen
<1>5. 0 \in Master.irr
  BY <1>4 DEF Requests
<1> QED
  BY <1>2, <1>5

\* An end of interrupt leaves what is raised.
LEMMA RaisedKept ==
    ASSUME IInv, Handle
    PROVE  pic'.master.irr = pic.master.irr
<1>1. pic \in [master : Controller, slave : Controller]
  BY DEF IInv, TypeOK
<1> DEFINE r == Rotate(pic.master)
           e == EndOfInterrupt(pic.master)
<1>2. r.irr = pic.master.irr /\ e.irr = pic.master.irr
  BY <1>1, CommandKeeps
<1>3. pic' = pic \/ pic' = [pic EXCEPT !.master = r] \/ pic' = [pic EXCEPT !.master = e]
  BY DEF Handle, AcknowledgeSlave, AcknowledgeMaster, NoCallback, Callback, Leave,
     Written, Command
<1> HIDE DEF r, e
<1> QED
  BY <1>1, <1>2, <1>3

\* In a handler that has not ended, irq_handler goes on.
LEMMA GoOnNests ==
    ASSUME IInv, NestInv, AcknowledgeSlave \/ AcknowledgeMaster \/ NoCallback
    PROVE  NestInv'
<1>1. /\ status = "running" /\ Stack # <<>> /\ TypeOK
      /\ UNCHANGED <<interruptFlag, current, early, status>>
  BY DEF IInv, AcknowledgeSlave, AcknowledgeMaster, NoCallback, InHandler, Stack
<1>2. Stack[Len(Stack)].at # "leaving"
  BY DEF AcknowledgeSlave, AcknowledgeMaster, NoCallback, InHandler, Stack, Last
<1>3. Len(Stack) \in Nat \ {0}
  BY <1>1, StackType
<1>4. ~interruptFlag
  BY <1>2, <1>3 DEF NestInv, Uninterrupted, Back
<1>5. PICK at \in Ats :
         GoOn(at) /\ (at = "leaving" => Stack[Len(Stack)].number # 32)
  BY DEF AcknowledgeSlave, AcknowledgeMaster, NoCallback, HasHandler, Top, Last,
     Stack, Ats
<1>6. PICK s, t : s = Stack /\ t = frames'[current]
  OBVIOUS
<1>7. /\ Len(t) = Len(s) /\ t # <<>>
      /\ \A i \in 1 .. Len(s) - 1 : t[i] = s[i]
      /\ t[Len(s)].number = s[Len(s)].number /\ t[Len(s)].at = at
      /\ \A p \in Process \ {current} : frames'[p] = frames[p]
  BY <1>1, <1>5, <1>6, GoOnStack
<1>8. Room' = Room
  BY <1>1, RaisedKept DEF Room, Handle
<1>9. Stack' = t
  BY <1>1, <1>6 DEF Stack
<1>10. Waiting'
  BY <1>1, <1>7 DEF NestInv, Waiting, Back
<1>11. Handling'
  <2>1. /\ Back(s, Len(s) - 1) /\ Len(s) - 1 <= Room
        /\ s[Len(s)].number = 32 =>
              /\ Len(s) <= Room
              /\ \A p \in Process \ {current} : Len(frames[p]) <= Room
    BY <1>1, <1>4, <1>6 DEF NestInv, Handling
  <2>2. Back(t, Len(t) - 1)
    BY <1>7, <2>1 DEF Back
  <2> QED
    BY <1>1, <1>5, <1>6, <1>7, <1>8, <1>9, <2>1, <2>2 DEF Handling
<1> QED
  BY <1>1, <1>4, <1>10, <1>11 DEF NestInv, Uninterrupted, Stopped

\* The timer's handler switches to another process.
LEMMA CallbackNests ==
    ASSUME IInv, NestInv, Callback
    PROVE  NestInv'
<1>1. /\ status = "running" /\ Stack # <<>> /\ TypeOK /\ GoOn("leaving")
      /\ current' = Successor(current) /\ interruptFlag' = TRUE
      /\ UNCHANGED <<early, status>>
  BY DEF IInv, Callback, InHandler, Stack
<1>2. Stack[Len(Stack)].at # "leaving" /\ Stack[Len(Stack)].number = 32
  BY DEF Callback, InHandler, Stack, Last, Top, HasHandler
<1>3. Len(Stack) \in Nat \ {0} /\ current \in Process
  BY <1>1, StackType
<1>4. ~interruptFlag
  BY <1>2, <1>3 DEF NestInv, Uninterrupted, Back
<1>5. PICK s, t : s = Stack /\ t = frames'[current]
  OBVIOUS
<1>6. /\ Len(t) = Len(s) /\ t # <<>>
      /\ \A i \in 1 .. Len(s) - 1 : t[i] = s[i]
      /\ t[Len(s)].number = s[Len(s)].number /\ t[Len(s)].at = "leaving"
      /\ \A p \in Process \ {current} : frames'[p] = frames[p]
  BY <1>1, <1>5, GoOnStack DEF Ats
<1>7. Room' = Room
  BY <1>1, RaisedKept DEF Room, Handle, Callback
<1>8. /\ Back(s, Len(s) - 1) /\ Len(s) <= Room
      /\ \A p \in Process \ {current} :
            Back(frames[p], Len(frames[p])) /\ Len(frames[p]) <= Room
  BY <1>1, <1>2, <1>4, <1>5 DEF NestInv, Handling, Waiting
<1>9. Back(t, Len(t))
  BY <1>2, <1>3, <1>5, <1>6, <1>8 DEF Back
<1>10. \A p \in Process : Back(frames'[p], Len(frames'[p])) /\ Len(frames'[p]) <= Room
  BY <1>5, <1>6, <1>8, <1>9
<1>11. current' \in Process
  BY <1>1, <1>3, InterruptsAssumption DEF Process, Successor
<1>12. Room <= early + 1 /\ early \in Nat /\ Room \in Nat
  BY <1>1, StackType
<1>13. \A p \in Process : Len(frames'[p]) \in Nat
  BY <1>1, <1>5, <1>6, <1>3, StackType
<1>14. Waiting'
  BY <1>1, <1>10, <1>12, <1>13 DEF Waiting, Back
<1>15. Uninterrupted'
  BY <1>1, <1>7, <1>10, <1>11 DEF Uninterrupted, Stack, Back
<1> QED
  BY <1>1, <1>14, <1>15 DEF NestInv, Handling, Stopped

\* A handler returns.
LEMMA LeaveNests ==
    ASSUME IInv, NestInv, Leave
    PROVE  NestInv'
<1>1. /\ status = "running" /\ Stack # <<>> /\ TypeOK
      /\ frames' = [frames EXCEPT ![current] = Front(@)] /\ interruptFlag' = TRUE
      /\ UNCHANGED <<current, early, status>>
  BY DEF IInv, Leave, InHandler, Stack
<1>2. PICK s, t : s = Stack /\ t = frames'[current]
  OBVIOUS
<1>3. /\ Len(t) = Len(s) - 1
      /\ \A i \in 1 .. Len(s) - 1 : t[i] = s[i]
      /\ \A p \in Process \ {current} : frames'[p] = frames[p]
  BY <1>1, <1>2, LeaveStack
<1>4. Room' = Room /\ Room \in Nat /\ Len(s) \in Nat
  BY <1>1, <1>2, RaisedKept, StackType DEF Room, Handle
<1>5. Back(s, Len(s) - 1) /\ Len(s) - 1 <= Room
  <2>1. CASE interruptFlag
    BY <1>2, <1>4, <2>1 DEF NestInv, Uninterrupted, Back
  <2>2. CASE ~interruptFlag
    BY <1>1, <1>2, <2>2 DEF NestInv, Handling
  <2> QED
    BY <2>1, <2>2
<1>6. Stack' = t
  BY <1>1, <1>2 DEF Stack
<1>7. Uninterrupted'
  BY <1>3, <1>4, <1>5, <1>6 DEF Uninterrupted, Back
<1>8. Waiting'
  BY <1>1, <1>3 DEF NestInv, Waiting, Back
<1> QED
  BY <1>1, <1>7, <1>8 DEF NestInv, Handling, Stopped

\* A device raises its line.
LEMMA RaiseNests ==
    ASSUME IInv, NestInv, NEW line \in {0} \cup Devices, Raise(line)
    PROVE  NestInv'
<1>1. UNCHANGED <<interruptFlag, current, frames, status>> /\ TypeOK
  BY DEF IInv, Raise
<1>2. early \in Nat /\ Room \in Nat /\ Room <= early + 1
  BY <1>1, StackType
<1>3. /\ early' = early \/ early' = early + 1
      /\ Room' = Room \/ (line = 0 /\ Room' = early' /\ Room = early + 1)
  <2>1. pic \in [master : Controller, slave : Controller]
    BY <1>1 DEF TypeOK
  <2>2. CASE line = 0
    <3>1. /\ 0 \notin pic.master.irr
          /\ pic' = [pic EXCEPT !.master.irr = @ \cup {0}]
          /\ early' = early \/ early' = early + 1
      BY <2>2 DEF Raise
    <3>2. 0 \in pic'.master.irr
      BY <2>1, <3>1 DEF Controller
    <3> QED
      BY <2>2, <3>1, <3>2 DEF Room
  <2>3. CASE line # 0
    <3>1. pic' = [pic EXCEPT !.master.irr = @ \cup {line}]
             \/ pic' = [pic EXCEPT !.slave.irr = @ \cup {line - 8}]
      BY <2>3 DEF Raise
    <3>2. 0 \in pic'.master.irr <=> 0 \in pic.master.irr
      BY <2>1, <2>3, <3>1 DEF Controller
    <3>3. early' = early
      BY <2>3 DEF Raise
    <3> QED
      BY <3>2, <3>3 DEF Room
  <2> QED
    BY <2>2, <2>3
<1>4. line = 0 /\ Stack # <<>> => early' = early + 1
  BY DEF Raise, Stack
<1>5. Room <= Room' \/ (Stack = <<>> /\ Room' = early')
  BY <1>2, <1>3, <1>4
<1>6. Len(Stack) \in Nat /\ (Stack = <<>> => Len(Stack) = 0)
  BY <1>1, StackType, LenProperties DEF TypeOK
<1>7. \A p \in Process : Len(frames[p]) \in Nat
  BY <1>1, StackType
<1>8. early' \in Nat /\ early <= early' /\ Room' \in Nat
  BY <1>2, <1>3
<1>9. Stack' = Stack
  BY <1>1 DEF Stack
<1>10. Waiting'
  BY <1>1, <1>2, <1>7, <1>8 DEF NestInv, Waiting, Back
<1>11. Uninterrupted'
  BY <1>1, <1>2, <1>5, <1>6, <1>8, <1>9 DEF NestInv, Uninterrupted, Back
<1>12. Handling'
  <2> SUFFICES ASSUME ~interruptFlag, status = "running" PROVE Handling'
    BY <1>1 DEF Handling
  <2>1. Stack # <<>> /\ Room <= Room'
    BY <1>5, <1>2, <1>3, <1>4 DEF NestInv, Handling
  <2> QED
    BY <1>1, <1>2, <1>6, <1>7, <1>8, <1>9, <2>1 DEF NestInv, Handling, Back
<1> QED
  BY <1>1, <1>9, <1>10, <1>11, <1>12 DEF NestInv, Stopped

\* An interrupt is taken.
LEMMA AcceptNests ==
    ASSUME IInv, NestInv, Accept
    PROVE  NestInv'
<1>1. /\ interruptFlag /\ status = "running" /\ TypeOK /\ interruptFlag' = FALSE
      /\ pic.master.offset = 32 /\ pic.slave.offset = 40
      /\ pic.master \in Controller /\ pic.slave \in Controller
      /\ UNCHANGED <<current, early, status>>
  BY DEF IInv, TypeOK, Accept, EnabledRunning, Booting, Programmed
<1>2. Chosen \in Line /\ (Chosen = 2 => ChosenOfSlave \in Line)
  BY ChosenLines DEF Accept
<1> DEFINE vector == IF Chosen = 2 THEN pic.slave.offset + ChosenOfSlave
                     ELSE pic.master.offset + Chosen
           line == IF Chosen = 2 THEN 8 + ChosenOfSlave ELSE Chosen
           f == Frame(32 + line, Number[vector], "entered")
<1>3. vector \in Installed /\ vector = 32 + line
  BY <1>1, <1>2 DEF Line, Installed
<1>4. /\ f \in FrameType /\ f.number = f.vector /\ f.at = "entered"
      /\ f.number = 32 => Chosen = 0
  BY <1>2, <1>3, GateLeadsToStub DEF Frame, FrameType, Line
<1>5. Push(f)
  BY DEF Accept
<1> HIDE DEF f
<1>6. PICK s, t : s = Stack /\ t = frames'[current]
  OBVIOUS
<1>7. t = Append(s, f) /\ \A p \in Process \ {current} : frames'[p] = frames[p]
  <2>1. frames \in [Process -> Seq(FrameType)] /\ current \in Process
    BY <1>1 DEF TypeOK
  <2> QED
    BY <1>5, <1>6, <2>1 DEF Push, Stack
<1>8. /\ Len(t) = Len(s) + 1 /\ Len(s) \in Nat /\ t # <<>>
      /\ \A i \in 1 .. Len(s) : t[i] = s[i]
      /\ t[Len(s) + 1] = f
  <2>1. s \in Seq(FrameType)
    BY <1>1, <1>6, StackType
  <2>2. /\ t \in Seq(FrameType) /\ Len(t) = Len(s) + 1 /\ t[Len(s) + 1] = f
        /\ \A i \in 1 .. Len(s) : t[i] = s[i]
    BY <1>4, <1>7, <2>1, AppendProperties
  <2> QED
    BY <2>1, <2>2, EmptySeq, LenProperties
<1>9. Back(s, Len(s)) /\ Len(s) <= Room
  BY <1>1, <1>6 DEF NestInv, Uninterrupted
<1>10. /\ Room \in Nat /\ Room' \in Nat /\ early \in Nat /\ Room <= Room'
       /\ Chosen = 0 => Room' = early + 1
  <2>1. pic'.master = Serve(pic.master, Chosen)
    BY DEF Accept
  <2>2. pic'.master.irr = pic.master.irr \ {Chosen}
    BY <1>1, <2>1 DEF Serve, Controller
  <2>3. Room \in Nat /\ early \in Nat
    BY <1>1, StackType
  <2> QED
    BY <1>1, <2>2, <2>3 DEF Room
<1>11. Stack' = t
  BY <1>1, <1>6 DEF Stack
<1>12. Waiting'
  BY <1>1, <1>7 DEF NestInv, Waiting, Back
<1>13. Handling'
  <2>1. Back(t, Len(t) - 1) /\ Len(t) - 1 <= Room'
    BY <1>8, <1>9, <1>10 DEF Back
  <2>2. t[Len(t)] = f
    BY <1>8
  <2>3. f.number = 32 => Len(t) <= Room'
    <3>1. SUFFICES ASSUME Chosen = 0 PROVE Len(t) <= early + 1
      BY <1>4, <1>10
    <3>2. 0 \in pic.master.irr
      BY <3>1, TickRaised DEF Accept
    <3>3. Len(s) <= early
      BY <1>9, <3>2 DEF Room
    <3> QED
      BY <1>8, <1>10, <3>3
  <2>4. f.number = 32 => \A p \in Process \ {current} : Len(frames'[p]) <= Room'
    BY <1>4, <1>7, <1>10 DEF NestInv, Waiting
  <2> QED
    BY <1>1, <1>4, <1>8, <1>11, <2>1, <2>2, <2>3, <2>4 DEF Handling
<1> QED
  BY <1>1, <1>12, <1>13 DEF NestInv, Uninterrupted, Stopped

\* Boot and exceptions: no frames but one.
LEMMA OthersNest ==
    ASSUME IInv, NestInv, Install \/ Sti \/ \E v \in Faults : FaultHandler(v)
    PROVE  NestInv'
<1>0. TypeOK /\ current \in Process /\ early \in Nat
  BY StackType DEF IInv
<1>1. CASE Install
  <2>1. /\ status # "halted" /\ ~interruptFlag
        /\ UNCHANGED <<interruptFlag, current, frames, early, status>>
        /\ status # "running"
    BY <1>1 DEF IInv, Install, Booting, TypeOK, IcwWrites
  <2> QED
    BY <2>1 DEF NestInv, Waiting, Uninterrupted, Handling, Stopped, Back
<1>2. CASE Sti
  <2>1. /\ status' = "running" /\ interruptFlag' = TRUE
        /\ \A p \in Process : frames[p] = <<>>
        /\ UNCHANGED <<pic, current, frames, early>>
    BY <1>2 DEF IInv, Sti, Booting
  <2>2. Len(<<>>) = 0
    BY EmptySeq
  <2>3. Room' = Room /\ Room \in Nat
    BY <1>0, <2>1, StackType DEF Room
  <2>4. Stack' = <<>>
    BY <1>0, <2>1 DEF Stack
  <2> QED
    BY <1>0, <2>1, <2>2, <2>3, <2>4
       DEF NestInv, Waiting, Uninterrupted, Handling, Stopped, Back
<1>3. ASSUME NEW v \in Faults, FaultHandler(v)
      PROVE  NestInv'
  <2>1. /\ status' = "halted" /\ interruptFlag' = FALSE /\ frames[current] = <<>>
        /\ UNCHANGED <<current, early>>
        /\ frames' = [frames EXCEPT ![current] = Append(<<>>, Frame(v, Number[v], "fault"))]
    BY <1>3 DEF FaultHandler, Push
  <2>2. frames \in [Process -> Seq(FrameType)]
    BY <1>0 DEF TypeOK
  <2>3. Stack' = <<Frame(v, Number[v], "fault")>>
        /\ \A p \in Process \ {current} : frames'[p] = frames[p]
    BY <1>0, <2>1, <2>2 DEF Stack
  <2>4. Len(Stack') = 1
    BY <2>3
  <2> QED
    BY <2>1, <2>3, <2>4
       DEF NestInv, Waiting, Uninterrupted, Handling, Stopped, Back
<1> QED
  BY <1>1, <1>2, <1>3

LEMMA InitNests == Init => NestInv
<1> SUFFICES ASSUME Init PROVE NestInv
  OBVIOUS
<1>1. /\ \A p \in Process : frames[p] = <<>>
      /\ early = 0 /\ interruptFlag = FALSE /\ status = "booting"
  BY DEF Init
<1>2. Len(<<>>) = 0
  BY EmptySeq
<1> QED
  BY <1>1, <1>2 DEF NestInv, Waiting, Uninterrupted, Handling, Stopped, Back

LEMMA NextNests ==
    ASSUME IInv, NestInv, [Next]_vars
    PROVE  NestInv'
<1>1. CASE UNCHANGED vars
  BY <1>1 DEF vars, NestInv, Waiting, Uninterrupted, Handling, Stopped, Back, Stack, Room
<1>2. CASE Handle
  BY <1>2, GoOnNests, CallbackNests, LeaveNests DEF Handle
<1>3. CASE Accept
  BY <1>3, AcceptNests
<1>4. CASE \E line \in {0} \cup Devices : Raise(line)
  BY <1>4, RaiseNests
<1>5. CASE Install \/ Sti \/ \E v \in Faults : FaultHandler(v)
  BY <1>5, OthersNest
<1> QED
  BY <1>1, <1>2, <1>3, <1>4, <1>5 DEF Next

\* Only ticks are interrupted, and a stack holds no more of them than came
\* early, and one, however many interrupts come and in whatever order.
THEOREM TicksNest == Spec => []OnlyTicksNest
<1>1. IInv /\ NestInv => OnlyTicksNest
  <2> SUFFICES ASSUME IInv, NestInv, NEW p \in Process
               PROVE  LET nested == IF p = current /\ frames[p] # <<>>
                                    THEN Front(frames[p]) ELSE frames[p]
                      IN  /\ \A i \in DOMAIN nested :
                                nested[i].number = 32 /\ nested[i].at = "leaving"
                          /\ Len(nested) <= 1 + early
    BY DEF OnlyTicksNest
  <2>0. TypeOK /\ early \in Nat /\ Room <= early + 1 /\ Room \in Nat
    BY StackType DEF IInv
  <2>1. frames[p] \in Seq(FrameType) /\ Len(frames[p]) \in Nat
    BY <2>0, StackType
  <2>2. CASE p = current /\ frames[p] # <<>>
    <3>1. PICK s : s = frames[p] /\ s = Stack /\ Len(s) \in Nat \ {0}
      BY <2>0, <2>2, StackType DEF Stack
    <3>2. Back(s, Len(s) - 1) /\ Len(s) - 1 <= early + 1
      <4>1. CASE interruptFlag
        BY <2>0, <3>1, <4>1 DEF NestInv, Uninterrupted, Back
      <4>2. CASE ~interruptFlag /\ status = "running"
        BY <2>0, <3>1, <4>2 DEF NestInv, Handling
      <4>3. CASE status = "halted"
        <5>1. Len(s) - 1 = 0
          BY <2>2, <3>1, <4>3 DEF NestInv, Stopped, Stack
        <5>2. \A i \in 1 .. 0 : FALSE
          OBVIOUS
        <5>3. 0 <= early + 1
          BY <2>0
        <5> QED
          BY <5>1, <5>2, <5>3 DEF Back
      <4>4. CASE status = "booting"
        BY <2>2, <4>4 DEF IInv, Booting
      <4> QED
        BY <2>0, <4>1, <4>2, <4>3, <4>4 DEF TypeOK
    <3>3. PICK t : t = Front(s)
      OBVIOUS
    <3>4. t = SubSeq(s, 1, Len(s) - 1)
      BY <3>3 DEF Front
    <3>5. Len(t) = Len(s) - 1 /\ \A i \in 1 .. Len(s) - 1 : t[i] = s[i]
      BY <2>1, <3>1, <3>4, FrontOfSeq
    <3>6. DOMAIN t = 1 .. Len(s) - 1
      BY <2>1, <3>1, <3>4, <3>5
    <3> QED
      BY <2>0, <2>2, <3>1, <3>2, <3>3, <3>5, <3>6 DEF Back
  <2>3. CASE p # current
    <3>1. DOMAIN frames[p] = 1 .. Len(frames[p])
      BY <2>1, LenProperties
    <3> QED
      BY <2>0, <2>1, <2>3, <3>1 DEF NestInv, Waiting, Back
  <2>4. CASE frames[p] = <<>>
    BY <2>0, <2>4
  <2> QED
    BY <2>2, <2>3, <2>4
<1> QED
  BY <1>1, InitNests, NextNests, Invariance, PTL DEF Spec
=============================================================================
