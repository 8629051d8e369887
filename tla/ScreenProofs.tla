---------------------------- MODULE ScreenProofs ----------------------------
(***************************************************************************)
(* Proofs about Screen, for any number of processes, any size of the       *)
(* screen and any bound on the races.  That the cursor is on the screen    *)
(* whenever nobody prints is no invariant of single steps: what is kept is *)
(* that a cursor behind an end has somebody who is about to move it back.  *)
(*                                                                         *)
(* A second invariant counts how far behind: an interrupt in a character   *)
(* costs a line and a column.  Before the first one, a character goes      *)
(* through its accesses alone, and how far it has got says what it still   *)
(* has to do for the terminal (Alone).  A report is never interrupted, so  *)
(* its place in the text says where the cursor is and what is shown        *)
(* (ReportAt).                                                             *)
(***************************************************************************)
EXTENDS ScreenProperties, SequenceTheorems, TLAPS

OneCharacter(p) ==
    IF pc[p] = "rest" THEN todo[p] = <<>>
    ELSE \E c \in Glyphs \cup {"newline"} : todo[p] = <<Char(c)>>

LocalsOK ==
    /\ pc \in [Printers -> PC]
    /\ reg \in [Printers -> Nat]
    /\ DOMAIN todo = Printers
    /\ \A p \in Printers : OneCharacter(p)

ColumnWatched ==
    x >= COLUMNS => \E p \in Printers : pc[p] \in {"testX", "resetX"}

LineWatched ==
    y >= LINES => \E p \in Printers : pc[p] \in {"testY", "resetY"}

IInv ==
    status = "running" =>
        /\ x \in Nat /\ y \in Nat
        /\ LocalsOK
        /\ ColumnWatched
        /\ LineWatched

-----------------------------------------------------------------------------
(* The parts of a step.                                                    *)

\* A process goes on with its character.
LEMMA GotoKeeps ==
    ASSUME LocalsOK, NEW p \in Printers, pc[p] # "rest",
           NEW label \in PC \ {"rest"}, Goto(p, label), UNCHANGED todo
    PROVE  /\ pc' \in [Printers -> PC]
           /\ pc'[p] = label
           /\ \A q \in Printers \ {p} : pc'[q] = pc[q]
           /\ DOMAIN todo' = Printers
           /\ \A q \in Printers : OneCharacter(q)'
<1>1. /\ pc' = [pc EXCEPT ![p] = label]
      /\ pc \in [Printers -> PC]
  BY DEF LocalsOK, Goto
<1>2. /\ pc' \in [Printers -> PC]
      /\ pc'[p] = label
      /\ \A q \in Printers \ {p} : pc'[q] = pc[q]
  BY <1>1
<1>3. \A q \in Printers : pc'[q] = "rest" <=> pc[q] = "rest"
  BY <1>2
<1> QED
  BY <1>2, <1>3 DEF LocalsOK, OneCharacter

LEMMA LoadKeeps ==
    ASSUME LocalsOK, NEW p \in Printers, NEW value \in Nat, Load(p, value)
    PROVE  reg' \in [Printers -> Nat]
  BY DEF LocalsOK, Load

\* A character at the end of what a program prints is done.
LEMMA CharDoneRests ==
    ASSUME LocalsOK, status = "running", NEW p \in Printers, pc[p] # "rest",
           CharDone(p)
    PROVE  /\ pc' \in [Printers -> PC]
           /\ pc'[p] = "rest"
           /\ \A q \in Printers \ {p} : pc'[q] = pc[q]
           /\ DOMAIN todo' = Printers
           /\ \A q \in Printers : OneCharacter(q)'
<1>1. PICK c \in Glyphs \cup {"newline"} : todo[p] = <<Char(c)>>
  BY DEF LocalsOK, OneCharacter
<1>2. Len(todo[p]) = 1 /\ Tail(todo[p]) = <<>>
  BY <1>1
<1>3. todo' = [todo EXCEPT ![p] = <<>>]
  BY <1>2 DEF CharDone
<1>4. pc' = [pc EXCEPT ![p] = "rest"]
  <2>1. ~(Len(todo[p]) > 1)
    BY <1>2
  <2> QED
    BY <2>1 DEF CharDone, Goto
<1>5. /\ pc' \in [Printers -> PC]
      /\ pc'[p] = "rest" /\ todo'[p] = <<>>
      /\ \A q \in Printers \ {p} : pc'[q] = pc[q] /\ todo'[q] = todo[q]
      /\ DOMAIN todo' = Printers
  BY <1>3, <1>4 DEF LocalsOK, PC
<1> QED
  BY <1>5 DEF LocalsOK, OneCharacter

\* Programs print no digits.
LEMMA NoDigit ==
    ASSUME LocalsOK, NEW p \in Printers, pc[p] # "rest"
    PROVE  Head(todo[p]).by = "printChar"
<1>1. PICK c \in Glyphs \cup {"newline"} : todo[p] = <<Char(c)>>
  BY DEF LocalsOK, OneCharacter
<1>2. Head(todo[p]) = Char(c)
  BY <1>1
<1> QED
  BY <1>2 DEF Char

-----------------------------------------------------------------------------
LEMMA InitIInv == Init => IInv
<1> SUFFICES ASSUME Init PROVE IInv
  OBVIOUS
<1>1. x = 0 /\ y = 0 /\ COLUMNS > 0 /\ LINES > 0 /\ COLUMNS \in Nat /\ LINES \in Nat
  BY ScreenAssumption DEF Init
<1>2. ColumnWatched /\ LineWatched
  BY <1>1 DEF ColumnWatched, LineWatched
<1>3. LocalsOK
  BY DEF Init, LocalsOK, OneCharacter, PC
<1> QED
  BY <1>1, <1>2, <1>3 DEF IInv

\* What a step of a process in a character leaves to show: who watches.
LEMMA NextIInv == IInv /\ [Next]_vars => IInv'
<1> SUFFICES ASSUME IInv, [Next]_vars, status' = "running" PROVE IInv'
  BY DEF IInv
<1>0. /\ COLUMNS \in Nat /\ COLUMNS > 0
      /\ LINES \in Nat /\ LINES > 0
  BY ScreenAssumption
<1>1. CASE UNCHANGED vars
  BY <1>1 DEF vars, cursor, locals, IInv, LocalsOK, OneCharacter, ColumnWatched, LineWatched
<1>2. ASSUME NEW p \in Printers,
             Step(p) \/ PrintString(p) \/ FaultHandler(p) \/ Switch(p)
      PROVE  IInv'
  <2>0. /\ status = "running"
        /\ x \in Nat /\ y \in Nat /\ reg[p] \in Nat /\ pc[p] \in PC
        /\ LocalsOK /\ ColumnWatched /\ LineWatched
    BY <1>2 DEF IInv, LocalsOK, Step, PrintChar, LoadX, LoadY, StoreChar,
        StoreAttribute, IncrementX, StoreX, TestX, ResetX, IncrementY, StoreY,
        TestY, ResetY, CharDone, PrintString, FaultHandler, Switch, At, Interruptible
  <2>1. CASE PrintChar(p)
    <3>1. PICK label \in {"resetX", "loadX"} : Goto(p, label)
      BY <2>1 DEF PrintChar
    <3>2. pc[p] = "char" /\ UNCHANGED <<x, y, todo, reg>>
      BY <2>1 DEF PrintChar, At, cursor
    <3> QED
      BY <3>1, <3>2, <2>0, GotoKeeps DEF PC, IInv, LocalsOK, ColumnWatched, LineWatched
  <2>2. CASE LoadX(p)
    <3>1. PICK label \in {"loadY", "loadYAgain"} : Goto(p, label)
      BY <2>2 DEF LoadX
    <3>2. /\ pc[p] \in {"loadX", "loadXAgain"} /\ UNCHANGED <<x, y, todo>>
          /\ Load(p, x)
      BY <2>2 DEF LoadX, At, cursor, Unload
    <3>3. x \in Nat
      BY <2>0, <1>0 DEF Cell
    <3>4. reg' \in [Printers -> Nat]
      BY <3>2, <3>3, <2>0, LoadKeeps
    <3> QED
      BY <3>1, <3>2, <3>4, <2>0, GotoKeeps DEF PC, IInv, LocalsOK, ColumnWatched, LineWatched
  <2>3. CASE LoadY(p)
    <3>1. PICK label \in {"storeChar", "storeAttribute"} : Goto(p, label)
      BY <2>3 DEF LoadY
    <3>2. /\ pc[p] \in {"loadY", "loadYAgain"} /\ UNCHANGED <<x, y, todo>>
          /\ Load(p, Cell(reg[p]))
      BY <2>3 DEF LoadY, At, cursor, Unload
    <3>3. Cell(reg[p]) \in Nat
      BY <2>0, <1>0 DEF Cell
    <3>4. reg' \in [Printers -> Nat]
      BY <3>2, <3>3, <2>0, LoadKeeps
    <3> QED
      BY <3>1, <3>2, <3>4, <2>0, GotoKeeps DEF PC, IInv, LocalsOK, ColumnWatched, LineWatched
  <2>4. CASE StoreChar(p)
    <3>1. PICK label \in {"loadXAgain"} : Goto(p, label)
      BY <2>4 DEF StoreChar
    <3>2. /\ pc[p] \in {"storeChar"} /\ UNCHANGED <<x, y, todo>>
          /\ Load(p, 0)
      BY <2>4 DEF StoreChar, At, cursor, Unload
    <3>3. 0 \in Nat
      BY <2>0, <1>0 DEF Cell
    <3>4. reg' \in [Printers -> Nat]
      BY <3>2, <3>3, <2>0, LoadKeeps
    <3> QED
      BY <3>1, <3>2, <3>4, <2>0, GotoKeeps DEF PC, IInv, LocalsOK, ColumnWatched, LineWatched
  <2>5. CASE StoreAttribute(p)
    <3>1. PICK label \in {"incrementX"} : Goto(p, label)
      BY <2>5 DEF StoreAttribute
    <3>2. /\ pc[p] \in {"storeAttribute"} /\ UNCHANGED <<x, y, todo>>
          /\ Load(p, 0)
      BY <2>5 DEF StoreAttribute, At, cursor, Unload
    <3>3. 0 \in Nat
      BY <2>0, <1>0 DEF Cell
    <3>4. reg' \in [Printers -> Nat]
      BY <3>2, <3>3, <2>0, LoadKeeps
    <3> QED
      BY <3>1, <3>2, <3>4, <2>0, GotoKeeps DEF PC, IInv, LocalsOK, ColumnWatched, LineWatched
  <2>6. CASE IncrementX(p)
    <3>1. PICK label \in {"storeX"} : Goto(p, label)
      BY <2>6 DEF IncrementX
    <3>2. /\ pc[p] \in {"incrementX"} /\ UNCHANGED <<x, y, todo>>
          /\ Load(p, x)
      BY <2>6 DEF IncrementX, At, cursor, Unload
    <3>3. x \in Nat
      BY <2>0, <1>0 DEF Cell
    <3>4. reg' \in [Printers -> Nat]
      BY <3>2, <3>3, <2>0, LoadKeeps
    <3> QED
      BY <3>1, <3>2, <3>4, <2>0, GotoKeeps DEF PC, IInv, LocalsOK, ColumnWatched, LineWatched
  <2>7. CASE IncrementY(p)
    <3>1. PICK label \in {"storeY"} : Goto(p, label)
      BY <2>7 DEF IncrementY
    <3>2. /\ pc[p] \in {"incrementY"} /\ UNCHANGED <<x, y, todo>>
          /\ Load(p, y)
      BY <2>7 DEF IncrementY, At, cursor, Unload
    <3>3. y \in Nat
      BY <2>0, <1>0 DEF Cell
    <3>4. reg' \in [Printers -> Nat]
      BY <3>2, <3>3, <2>0, LoadKeeps
    <3> QED
      BY <3>1, <3>2, <3>4, <2>0, GotoKeeps DEF PC, IInv, LocalsOK, ColumnWatched, LineWatched
  <2>8. CASE StoreX(p)
    <3>1. /\ pc[p] = "storeX" /\ x' = reg[p] + 1 /\ UNCHANGED y
          /\ Load(p, 0)
      BY <2>8 DEF StoreX, At, Unload
    <3>2. Goto(p, "testX") /\ UNCHANGED todo
      BY <2>8, <3>1, <2>0, NoDigit DEF StoreX
    <3>3. reg' \in [Printers -> Nat]
      BY <3>1, <2>0, LoadKeeps
    <3> QED
      BY <3>1, <3>2, <3>3, <2>0, GotoKeeps DEF PC, IInv, LocalsOK, ColumnWatched, LineWatched
  <2>9. CASE StoreY(p)
    <3>1. /\ pc[p] = "storeY" /\ y' = reg[p] + 1 /\ UNCHANGED x
          /\ Load(p, 0) /\ Goto(p, "testY") /\ UNCHANGED todo
      BY <2>9 DEF StoreY, At, Unload
    <3>2. reg' \in [Printers -> Nat]
      BY <3>1, <2>0, LoadKeeps
    <3> QED
      BY <3>1, <3>2, <2>0, GotoKeeps DEF PC, IInv, LocalsOK, ColumnWatched, LineWatched
  <2>10. CASE TestX(p)
    <3>1. pc[p] = "testX" /\ UNCHANGED <<x, y, reg>>
      BY <2>10 DEF TestX, At, cursor
    <3>2. CASE x >= COLUMNS
      <4>1. Goto(p, "resetX") /\ UNCHANGED todo
        BY <2>10, <3>2 DEF TestX, LineFull
      <4> QED
        BY <4>1, <3>1, <2>0, GotoKeeps DEF PC, IInv, LocalsOK, ColumnWatched, LineWatched
    <3>3. CASE x < COLUMNS
      <4>1. CharDone(p)
        BY <2>10, <3>3, <2>0, <1>0 DEF TestX, LineFull
      <4>2. ColumnWatched'
        BY <3>1, <3>3, <2>0, <1>0 DEF ColumnWatched
      <4> QED
        BY <4>1, <4>2, <3>1, <2>0, CharDoneRests DEF IInv, LocalsOK, LineWatched
    <3> QED
      BY <3>2, <3>3, <2>0, <1>0
  <2>11. CASE ResetX(p)
    <3>1. /\ pc[p] = "resetX" /\ x' = 0 /\ UNCHANGED <<y, todo, reg>>
          /\ Goto(p, "incrementY")
      BY <2>11 DEF ResetX, At
    <3>2. ColumnWatched'
      BY <3>1, <1>0 DEF ColumnWatched
    <3> QED
      BY <3>1, <3>2, <2>0, GotoKeeps DEF PC, IInv, LocalsOK, LineWatched
  <2>12. CASE TestY(p)
    <3>1. pc[p] = "testY" /\ UNCHANGED <<x, y, reg>>
      BY <2>12 DEF TestY, At, cursor
    <3>2. CASE y >= LINES
      <4>1. Goto(p, "resetY") /\ UNCHANGED todo
        BY <2>12, <3>2 DEF TestY, ScreenFull
      <4> QED
        BY <4>1, <3>1, <2>0, GotoKeeps DEF PC, IInv, LocalsOK, ColumnWatched, LineWatched
    <3>3. CASE y < LINES
      <4>1. CharDone(p)
        BY <2>12, <3>3, <2>0, <1>0 DEF TestY, ScreenFull
      <4>2. LineWatched'
        BY <3>1, <3>3, <2>0, <1>0 DEF LineWatched
      <4> QED
        BY <4>1, <4>2, <3>1, <2>0, CharDoneRests DEF IInv, LocalsOK, ColumnWatched
    <3> QED
      BY <3>2, <3>3, <2>0, <1>0
  <2>13. CASE ResetY(p)
    <3>1. /\ pc[p] = "resetY" /\ y' = 0 /\ UNCHANGED <<x, reg>>
          /\ CharDone(p)
      BY <2>13 DEF ResetY, At
    <3>2. LineWatched'
      BY <3>1, <1>0 DEF LineWatched
    <3> QED
      BY <3>1, <3>2, <2>0, CharDoneRests DEF IInv, LocalsOK, ColumnWatched
  <2>14. CASE PrintString(p)
    <3>1. /\ pc[p] = "rest" /\ Goto(p, "char") /\ UNCHANGED <<x, y, reg>>
          /\ \E c \in Glyphs \cup {"newline"} :
                todo' = [todo EXCEPT ![p] = <<Char(c)>>]
      BY <2>14 DEF PrintString, At, cursor
    <3>2. /\ pc' \in [Printers -> PC] /\ pc'[p] = "char"
          /\ \A q \in Printers \ {p} : pc'[q] = pc[q] /\ todo'[q] = todo[q]
          /\ DOMAIN todo' = Printers
      BY <3>1, <2>0 DEF LocalsOK, PC, Goto
    <3>3. LocalsOK'
      BY <3>1, <3>2, <2>0 DEF LocalsOK, OneCharacter
    <3> QED
      BY <3>1, <3>2, <3>3, <2>0 DEF IInv, ColumnWatched, LineWatched
  <2>15. CASE FaultHandler(p)
    BY <2>15 DEF FaultHandler
  <2>16. CASE Switch(p)
    BY <2>16, <2>0 DEF Switch, cursor, locals, IInv, LocalsOK, OneCharacter,
        ColumnWatched, LineWatched
  <2> QED
    BY <1>2, <2>1, <2>2, <2>3, <2>4, <2>5, <2>6, <2>7, <2>8, <2>9, <2>10, <2>11, <2>12, <2>13, <2>14, <2>15, <2>16 DEF Step
<1> QED
  BY <1>1, <1>2 DEF Next

\* Whenever nobody is in the middle of printChar, the cursor is on the screen,
\* for every number of processes, every size of the screen, and whatever the
\* order in which the timer switches.
THEOREM CursorAtRest == Spec => []AtRest
<1>1. IInv => AtRest
  BY ScreenAssumption DEF IInv, AtRest, ColumnWatched, LineWatched
<1> QED
  BY InitIInv, NextIInv, <1>1, PTL DEF Spec

-----------------------------------------------------------------------------
(* The table of steps.                                                     *)

Typed ==
    /\ x \in Nat /\ y \in Nat
    /\ pc \in [Printers -> PC]
    /\ reg \in [Printers -> Nat]
    /\ DOMAIN todo = Printers

\* Process p goes from label l to label m with the same character.
Goes(p, l, m) ==
    /\ pc[p] = l /\ pc' = [pc EXCEPT ![p] = m]
    /\ UNCHANGED <<todo, status>>

\* Process p is done with its character at label l.
Ends(p, l) == pc[p] = l /\ CharDone(p)

Loads(p, value) == reg' = [reg EXCEPT ![p] = value] /\ UNCHANGED <<video, x, y>>

\* What a step of process p in a character may be.
Acts(p) ==
    \/ /\ Goes(p, "char", IF Head(todo[p]) = Newline THEN "resetX" ELSE "loadX")
       /\ UNCHANGED <<video, x, y, reg>>
    \/ Goes(p, "loadX", "loadY") /\ Loads(p, x)
    \/ Goes(p, "loadXAgain", "loadYAgain") /\ Loads(p, x)
    \/ Goes(p, "loadY", "storeChar") /\ Loads(p, reg[p] + y * COLUMNS)
    \/ Goes(p, "loadYAgain", "storeAttribute") /\ Loads(p, reg[p] + y * COLUMNS)
    \/ /\ Goes(p, "storeChar", "loadXAgain")
       /\ video' = [video EXCEPT ![reg[p]].char = Head(todo[p]).c]
       /\ reg' = [reg EXCEPT ![p] = 0] /\ UNCHANGED <<x, y>>
    \/ /\ Goes(p, "storeAttribute", "incrementX")
       /\ video' = [video EXCEPT ![reg[p]].attribute = attribute]
       /\ reg' = [reg EXCEPT ![p] = 0] /\ UNCHANGED <<x, y>>
    \/ Goes(p, "incrementX", "storeX") /\ Loads(p, x)
    \/ /\ \/ Goes(p, "storeX", "testX") /\ Head(todo[p]).by # "printInt"
          \/ Ends(p, "storeX") /\ Head(todo[p]).by = "printInt"
       /\ x' = reg[p] + 1 /\ reg' = [reg EXCEPT ![p] = 0]
       /\ UNCHANGED <<video, y>>
    \/ /\ \/ Goes(p, "testX", "resetX") /\ x >= COLUMNS
          \/ Ends(p, "testX") /\ ~(x >= COLUMNS)
       /\ UNCHANGED <<video, x, y, reg>>
    \/ Goes(p, "resetX", "incrementY") /\ x' = 0 /\ UNCHANGED <<video, y, reg>>
    \/ Goes(p, "incrementY", "storeY") /\ Loads(p, y)
    \/ /\ Goes(p, "storeY", "testY")
       /\ y' = reg[p] + 1 /\ reg' = [reg EXCEPT ![p] = 0] /\ UNCHANGED <<video, x>>
    \/ /\ \/ Goes(p, "testY", "resetY") /\ y >= LINES
          \/ Ends(p, "testY") /\ ~(y >= LINES)
       /\ UNCHANGED <<video, x, y, reg>>
    \/ Ends(p, "resetY") /\ y' = 0 /\ UNCHANGED <<video, x, reg>>

LEMMA StepActs ==
    ASSUME NEW p \in Printers, Step(p)
    PROVE  /\ Acts(p)
           /\ running = p /\ status # "halted" /\ pc[p] # "rest"
           /\ UNCHANGED <<running, attribute, races>>
<1>1. CASE PrintChar(p)
  BY <1>1 DEF PrintChar, At, Goto, cursor, Acts, Goes
<1>2. CASE LoadX(p)
  BY <1>2 DEF LoadX, At, Goto, Load, cursor, Acts, Goes, Loads
<1>3. CASE LoadY(p)
  BY <1>3 DEF LoadY, At, Goto, Load, Cell, cursor, Acts, Goes, Loads
<1>4. CASE StoreChar(p)
  BY <1>4 DEF StoreChar, At, Goto, Load, Unload, cursor, Acts, Goes
<1>5. CASE StoreAttribute(p)
  BY <1>5 DEF StoreAttribute, At, Goto, Load, Unload, cursor, Acts, Goes
<1>6. CASE IncrementX(p)
  BY <1>6 DEF IncrementX, At, Goto, Load, cursor, Acts, Goes, Loads
<1>7. CASE StoreX(p)
  BY <1>7 DEF StoreX, At, Goto, Load, Unload, Acts, Goes, Ends
<1>8. CASE TestX(p)
  BY <1>8 DEF TestX, LineFull, At, Goto, cursor, Acts, Goes, Ends
<1>9. CASE ResetX(p)
  BY <1>9 DEF ResetX, At, Goto, Acts, Goes
<1>10. CASE IncrementY(p)
  BY <1>10 DEF IncrementY, At, Goto, Load, cursor, Acts, Goes, Loads
<1>11. CASE StoreY(p)
  BY <1>11 DEF StoreY, At, Goto, Load, Unload, Acts, Goes
<1>12. CASE TestY(p)
  BY <1>12 DEF TestY, ScreenFull, At, Goto, cursor, Acts, Goes, Ends
<1>13. CASE ResetY(p)
  BY <1>13 DEF ResetY, At, Acts, Ends
<1> QED
  BY <1>1, <1>2, <1>3, <1>4, <1>5, <1>6, <1>7, <1>8, <1>9, <1>10, <1>11, <1>12,
     <1>13 DEF Step

-----------------------------------------------------------------------------
(* How far from the screen processes get that print at the same time.      *)

\* One more column, or line, for each race, and one for who is about to look.
ColumnsBounded ==
    /\ x <= COLUMNS - 1 + races
                + (IF pc[running] \in {"testX", "resetX"} THEN 1 ELSE 0)
    /\ \A p \in Printers :
          pc[p] \in {"loadY", "loadYAgain", "storeX"} => reg[p] <= COLUMNS - 1 + races

LinesBounded ==
    /\ y <= LINES - 1 + races
                + (IF pc[running] \in {"testY", "resetY"} THEN 1 ELSE 0)
    /\ \A p \in Printers : pc[p] = "storeY" => reg[p] <= LINES - 1 + races

Switches == running \in Printers /\ races \in 0 .. MaxRaces

LEMMA RowBelow ==
    ASSUME NEW a \in Nat, NEW b \in Nat, a <= b, NEW c \in Nat
    PROVE  a * c <= b * c
<1>1. PICK d \in Nat : b = a + d
  BY b - a \in Nat
<1>2. b * c = a * c + d * c /\ d * c \in Nat /\ a * c \in Nat
  BY <1>1
<1> QED
  BY <1>2

LEMMA CellNear ==
    ASSUME NEW column \in Nat, NEW row \in Nat, NEW r \in Nat,
           column <= COLUMNS - 1 + r, row <= LINES - 1 + r
    PROVE  column + row * COLUMNS < LINES * COLUMNS + r * (COLUMNS + 1)
<1>1. COLUMNS \in Nat /\ COLUMNS > 0 /\ LINES \in Nat /\ LINES > 0
  BY ScreenAssumption
<1>2. row * COLUMNS <= (LINES - 1 + r) * COLUMNS
  BY <1>1, RowBelow
<1>3. (LINES - 1 + r) * COLUMNS = LINES * COLUMNS - COLUMNS + r * COLUMNS
  BY <1>1
<1>4. r * (COLUMNS + 1) = r * COLUMNS + r
  BY <1>1
<1>5. row * COLUMNS \in Nat /\ LINES * COLUMNS \in Nat /\ r * COLUMNS \in Nat
  BY <1>1
<1> QED
  BY <1>1, <1>2, <1>3, <1>4, <1>5

LEMMA ColumnsStep ==
    ASSUME Typed, Switches, ColumnsBounded, NEW p \in Printers, running = p,
           Acts(p), status = "running", status' = "running",
           UNCHANGED <<running, races>>,
           pc[p] # "rest", Head(todo[p]).by # "printInt", Len(todo[p]) = 1
    PROVE  ColumnsBounded'
<1>0. COLUMNS \in Nat /\ COLUMNS > 0 /\ LINES \in Nat /\ LINES > 0 /\ races \in Nat
  BY ScreenAssumption DEF Switches
<1> QED
  BY <1>0 DEF Typed, ColumnsBounded, Acts, Goes, Ends, CharDone, Goto, Loads

LEMMA LinesStep ==
    ASSUME Typed, Switches, LinesBounded, NEW p \in Printers, running = p,
           Acts(p), status = "running", status' = "running",
           UNCHANGED <<running, races>>,
           pc[p] # "rest", Head(todo[p]).by # "printInt", Len(todo[p]) = 1
    PROVE  LinesBounded'
<1>0. COLUMNS \in Nat /\ COLUMNS > 0 /\ LINES \in Nat /\ LINES > 0 /\ races \in Nat
  BY ScreenAssumption DEF Switches
<1> QED
  BY <1>0 DEF Typed, LinesBounded, Acts, Goes, Ends, CharDone, Goto, Loads

LEMMA CellsStep ==
    ASSUME Typed, Switches, ColumnsBounded, LinesBounded, WritesNearScreen,
           NEW p \in Printers, running = p, Acts(p),
           status = "running", status' = "running",
           UNCHANGED <<running, races>>, pc[p] # "rest"
    PROVE  WritesNearScreen'
<1>0. COLUMNS \in Nat /\ COLUMNS > 0 /\ LINES \in Nat /\ LINES > 0 /\ races \in Nat
  BY ScreenAssumption DEF Switches
<1>1. \A q \in Printers \ {p} : pc'[q] = pc[q] /\ reg'[q] = reg[q]
  BY DEF Typed, Acts, Goes, Ends, CharDone, Goto, Loads
<1>2. ASSUME pc'[p] \in {"storeChar", "storeAttribute"}
      PROVE  reg'[p] < LINES * COLUMNS + races * (COLUMNS + 1)
  <2>1. pc[p] \in {"loadY", "loadYAgain"} /\ reg'[p] = reg[p] + y * COLUMNS
    BY <1>2 DEF Typed, Acts, Goes, Ends, CharDone, Goto, Loads
  <2>2. reg[p] \in Nat /\ reg[p] <= COLUMNS - 1 + races
    BY <2>1 DEF Typed, ColumnsBounded
  <2>3. y \in Nat /\ y <= LINES - 1 + races
    BY <2>1, <1>0 DEF Typed, LinesBounded
  <2> QED
    BY <2>1, <2>2, <2>3, <1>0, CellNear
<1> QED
  BY <1>1, <1>2 DEF WritesNearScreen

RunInv ==
    status = "running" =>
        /\ Switches
        /\ ColumnsBounded /\ LinesBounded /\ WritesNearScreen
        /\ attribute = White

LEMMA OneIsOne ==
    ASSUME NEW p \in Printers, pc[p] # "rest", OneCharacter(p)
    PROVE  /\ Head(todo[p]).by = "printChar" /\ Len(todo[p]) = 1
           /\ \E c \in Glyphs \cup {"newline"} : Head(todo[p]) = Char(c)
<1>1. PICK c \in Glyphs \cup {"newline"} : todo[p] = <<Char(c)>>
  BY DEF OneCharacter
<1>2. Head(todo[p]) = Char(c) /\ Len(todo[p]) = 1
  BY <1>1
<1> QED
  BY <1>2 DEF Char

LEMMA RacesHurt ==
    ASSUME NEW r \in Nat, NEW s \in Nat, r <= s
    PROVE  LINES * COLUMNS + r * (COLUMNS + 1) <= LINES * COLUMNS + s * (COLUMNS + 1)
<1>1. COLUMNS \in Nat /\ LINES \in Nat
  BY ScreenAssumption
<1>2. r * (COLUMNS + 1) <= s * (COLUMNS + 1)
  BY <1>1, RowBelow
<1>3. LINES * COLUMNS \in Nat /\ r * (COLUMNS + 1) \in Nat /\ s * (COLUMNS + 1) \in Nat
  BY <1>1
<1> QED
  BY <1>2, <1>3

LEMMA InitRunInv == Init => RunInv
<1> SUFFICES ASSUME Init PROVE RunInv
  OBVIOUS
<1>1. COLUMNS \in Nat /\ COLUMNS > 0 /\ LINES \in Nat /\ LINES > 0 /\ MaxRaces \in Nat
  BY ScreenAssumption
<1> QED
  BY <1>1 DEF Init, RunInv, Switches, ColumnsBounded, LinesBounded, WritesNearScreen

LEMMA NextRunInv == IInv /\ RunInv /\ [Next]_vars => RunInv'
<1> SUFFICES ASSUME IInv, RunInv, [Next]_vars, status' = "running" PROVE RunInv'
  BY DEF RunInv
<1>0. /\ COLUMNS \in Nat /\ COLUMNS > 0
      /\ LINES \in Nat /\ LINES > 0
      /\ MaxRaces \in Nat
  BY ScreenAssumption
<1>1. CASE UNCHANGED vars
  BY <1>1 DEF vars, cursor, locals, RunInv, Switches, ColumnsBounded, LinesBounded,
              WritesNearScreen
<1>2. ASSUME NEW p \in Printers, Step(p)
      PROVE  RunInv'
  <2>1. /\ Acts(p) /\ running = p /\ pc[p] # "rest" /\ status # "halted"
        /\ UNCHANGED <<running, attribute, races>>
    BY <1>2, StepActs
  <2>2. status = "running"
    BY <2>1 DEF Acts, Goes, Ends, CharDone, Goto, Loads
  <2>3. Typed /\ OneCharacter(p)
    BY <2>2 DEF IInv, LocalsOK, Typed
  <2>4. Head(todo[p]).by # "printInt" /\ Len(todo[p]) = 1
    BY <2>1, <2>3, OneIsOne
  <2>5. Switches /\ ColumnsBounded /\ LinesBounded /\ WritesNearScreen /\ attribute = White
    BY <2>2 DEF RunInv
  <2>6. ColumnsBounded' /\ LinesBounded' /\ WritesNearScreen'
    BY <2>1, <2>2, <2>3, <2>4, <2>5, ColumnsStep, LinesStep, CellsStep
  <2> QED
    BY <2>1, <2>5, <2>6 DEF RunInv, Switches
<1>3. ASSUME NEW p \in Printers, PrintString(p)
      PROVE  RunInv'
  <2>1. /\ status = "running" /\ pc[p] = "rest"
        /\ pc' = [pc EXCEPT ![p] = "char"]
        /\ UNCHANGED <<x, y, attribute, running, reg, races>>
    BY <1>3 DEF PrintString, At, Goto, cursor
  <2>2. pc \in [Printers -> PC] /\ x \in Nat /\ y \in Nat
    BY <2>1 DEF IInv, LocalsOK
  <2> QED
    BY <1>0, <2>1, <2>2, <1>3 DEF RunInv, Switches, ColumnsBounded, LinesBounded,
                      WritesNearScreen, PrintString, At
<1>4. ASSUME NEW p \in Printers, Switch(p)
      PROVE  RunInv'
  <2>1. /\ status = "running" /\ running' = p /\ attribute' = White
        /\ races' = IF pc[running] = "rest" THEN races ELSE races + 1
        /\ races' <= MaxRaces
        /\ UNCHANGED <<x, y, pc, reg>>
    BY <1>4 DEF Switch, cursor, locals, Interruptible
  <2>2. /\ Switches /\ ColumnsBounded /\ LinesBounded /\ WritesNearScreen
        /\ x \in Nat /\ y \in Nat /\ reg \in [Printers -> Nat]
    BY <2>1 DEF RunInv, IInv, LocalsOK
  <2>3. races \in Nat /\ races' \in Nat /\ races <= races' /\ Switches'
    BY <1>0, <2>1, <2>2 DEF Switches
  <2>4. ColumnsBounded' /\ LinesBounded'
    BY <1>0, <2>1, <2>2, <2>3 DEF ColumnsBounded, LinesBounded
  <2>5. WritesNearScreen'
    <3>1. LINES * COLUMNS + races * (COLUMNS + 1)
             <= LINES * COLUMNS + races' * (COLUMNS + 1)
      BY <2>3, RacesHurt
    <3>2. /\ LINES * COLUMNS + races * (COLUMNS + 1) \in Int
          /\ LINES * COLUMNS + races' * (COLUMNS + 1) \in Int
      BY <1>0, <2>3
    <3> QED
      BY <2>1, <2>2, <3>1, <3>2 DEF WritesNearScreen
  <2> QED
    BY <2>1, <2>3, <2>4, <2>5 DEF RunInv
<1>5. ASSUME NEW p \in Printers, FaultHandler(p)
      PROVE  RunInv'
  BY <1>5 DEF FaultHandler
<1> QED
  BY <1>1, <1>2, <1>3, <1>4, <1>5 DEF Next

-----------------------------------------------------------------------------
(* A character of a process that is not interrupted.                       *)

Lit(c, a) == [char |-> c, attribute |-> a]

IsVideo(cells) ==
    /\ cells = [i \in VideoCells |-> cells[i]]
    /\ \A i \in VideoCells : cells[i] = Lit(cells[i].char, cells[i].attribute)

CellOf(column, row) == column + row * COLUMNS

WithChar(cells, i, c) == [cells EXCEPT ![i].char = c]
WithAttribute(cells, i, a) == [cells EXCEPT ![i].attribute = a]
WithLit(cells, i, c, a) == [cells EXCEPT ![i] = Lit(c, a)]

\* Process p prints c at a column of a row, over the cells.
GlyphAt(p, cells, column, row, c) ==
    /\ pc[p] \in {"char", "loadX", "loadY", "storeChar", "loadXAgain", "loadYAgain",
                  "storeAttribute", "incrementX", "storeX", "testX"}
    /\ y = row
    /\ x = IF pc[p] = "testX" THEN column + 1 ELSE column
    /\ pc[p] \in {"loadY", "loadYAgain", "storeX"} => reg[p] = column
    /\ pc[p] \in {"storeChar", "storeAttribute"} => reg[p] = CellOf(column, row)
    /\ pc[p] \in {"char", "loadX", "loadY", "storeChar"} => video = cells
    /\ pc[p] \in {"loadXAgain", "loadYAgain", "storeAttribute"} =>
          video = WithChar(cells, CellOf(column, row), c)
    /\ pc[p] \in {"incrementX", "storeX", "testX"} =>
          video = WithLit(cells, CellOf(column, row), c, attribute)
    /\ pc[p] = "testX" => Head(todo[p]).by # "printInt"
    /\ Head(todo[p]) # Newline /\ Head(todo[p]).c = c

\* Process p goes from a row to the next.
BreakAt(p, cells, row) ==
    /\ pc[p] \in {"char", "resetX", "incrementY", "storeY", "testY", "resetY"}
    /\ video = cells
    /\ y = IF pc[p] \in {"testY", "resetY"} THEN row + 1 ELSE row
    /\ pc[p] = "storeY" => reg[p] = row
    /\ pc[p] \notin {"char", "resetX"} => x = 0
    /\ pc[p] = "resetY" => row + 1 >= LINES
    /\ pc[p] = "char" => Head(todo[p]) = Newline

Below(row) == IF row + 1 >= LINES THEN 0 ELSE row + 1

LEMMA LitCell ==
    ASSUME NEW cells, IsVideo(cells), NEW i \in VideoCells, NEW c, NEW a
    PROVE  /\ WithAttribute(WithChar(cells, i, c), i, a) = WithLit(cells, i, c, a)
           /\ IsVideo(WithLit(cells, i, c, a))
<1>1. PICK b : cells[i] = [char |-> cells[i].char, attribute |-> b]
  BY DEF IsVideo, Lit
<1>2. PICK r, s : r = [char |-> c, attribute |-> b] /\ s = [char |-> c, attribute |-> a]
  OBVIOUS
<1>3. cells = [j \in VideoCells |-> cells[j]]
  BY DEF IsVideo
<1>4. [cells[i] EXCEPT !.char = c] = r /\ [r EXCEPT !.attribute = a] = s
  <2>1. PICK u : u = cells[i].char
    OBVIOUS
  <2>2. cells[i] = [char |-> u, attribute |-> b]
    BY <1>1, <2>1
  <2>3. [[char |-> u, attribute |-> b] EXCEPT !.char = c] = [char |-> c, attribute |-> b]
    OBVIOUS
  <2>4. [[char |-> c, attribute |-> b] EXCEPT !.attribute = a]
           = [char |-> c, attribute |-> a]
    OBVIOUS
  <2> QED
    BY <1>2, <2>2, <2>3, <2>4
<1>5. PICK w : w = [cells EXCEPT ![i] = r]
  OBVIOUS
<1>6. WithChar(cells, i, c) = w
  BY <1>4, <1>5 DEF WithChar
<1>7. w[i] = r /\ DOMAIN w = VideoCells /\ w = [j \in VideoCells |-> w[j]]
      /\ \A j \in VideoCells \ {i} : w[j] = cells[j]
  BY <1>3, <1>5
<1>8. WithAttribute(w, i, a) = [w EXCEPT ![i] = s]
  BY <1>4, <1>7 DEF WithAttribute
<1>9. [w EXCEPT ![i] = s] = [cells EXCEPT ![i] = s]
  BY <1>3, <1>7
<1>10. IsVideo(WithLit(cells, i, c, a))
  <2>1. PICK v : v = WithLit(cells, i, c, a)
    OBVIOUS
  <2>2. /\ v = [j \in VideoCells |-> v[j]] /\ v[i] = Lit(c, a)
        /\ \A j \in VideoCells \ {i} : v[j] = cells[j]
    BY <1>3, <2>1 DEF WithLit
  <2>3. v[i] = Lit(v[i].char, v[i].attribute)
    BY <2>2 DEF Lit
  <2>4. \A j \in VideoCells : v[j] = Lit(v[j].char, v[j].attribute)
    BY <2>2, <2>3 DEF IsVideo
  <2>5. IsVideo(v)
    BY <2>2, <2>4 DEF IsVideo
  <2> QED
    BY <2>1, <2>5
<1> QED
  BY <1>2, <1>6, <1>8, <1>9, <1>10 DEF WithLit, Lit

LEMMA GlyphStep ==
    ASSUME Typed, NEW p \in Printers, Acts(p), UNCHANGED attribute,
           NEW cells, IsVideo(cells), NEW column \in Nat, NEW row \in Nat, NEW c,
           CellOf(column, row) \in VideoCells,
           GlyphAt(p, cells, column, row, c)
    PROVE  \/ GlyphAt(p, cells, column, row, c)' /\ UNCHANGED <<todo, status>>
           \/ /\ Ends(p, pc[p]) /\ x' = column + 1 /\ y' = row
              /\ column + 1 < COLUMNS \/ Head(todo[p]).by = "printInt"
              /\ video' = WithLit(cells, CellOf(column, row), c, attribute)
           \/ /\ pc' = [pc EXCEPT ![p] = "resetX"] /\ UNCHANGED <<todo, status>>
              /\ column + 1 >= COLUMNS /\ Head(todo[p]).by # "printInt"
              /\ y' = row
              /\ video' = WithLit(cells, CellOf(column, row), c, attribute)
<1>0. COLUMNS \in Nat /\ COLUMNS > 0 /\ LINES \in Nat /\ LINES > 0
  BY ScreenAssumption
<1>1. PICK i : i = CellOf(column, row)
  OBVIOUS
<1>2. i \in VideoCells
  BY <1>1
<1>3. WithAttribute(WithChar(cells, i, c), i, attribute) = WithLit(cells, i, c, attribute)
  BY <1>2, LitCell
<1>4. PICK lit : lit = WithLit(cells, i, c, attribute)
  OBVIOUS
<1>5. PICK half : half = WithChar(cells, i, c)
  OBVIOUS
<1>6. WithAttribute(half, i, attribute) = lit
  BY <1>3, <1>4, <1>5
<1>7. CASE pc[p] \in {"char", "loadX", "loadY", "loadXAgain", "loadYAgain"}
  BY <1>0, <1>7 DEF Typed, Acts, Goes, Ends, Loads, GlyphAt, CellOf
<1>8. CASE pc[p] = "storeChar"
  <2>1. /\ Goes(p, "storeChar", "loadXAgain") /\ UNCHANGED <<x, y>>
        /\ video' = WithChar(video, reg[p], Head(todo[p]).c)
    BY <1>8 DEF Acts, Goes, Ends, WithChar
  <2>2. reg[p] = i /\ video = cells /\ Head(todo[p]).c = c
    BY <1>1, <1>8 DEF GlyphAt
  <2>3. video' = half
    BY <1>5, <2>1, <2>2
  <2> QED
    BY <1>1, <1>5, <1>8, <2>1, <2>3 DEF Typed, Goes, GlyphAt
<1>9. CASE pc[p] = "storeAttribute"
  <2>1. /\ Goes(p, "storeAttribute", "incrementX") /\ UNCHANGED <<x, y>>
        /\ video' = WithAttribute(video, reg[p], attribute)
    BY <1>9 DEF Acts, Goes, Ends, WithAttribute
  <2>2. reg[p] = i /\ video = half
    BY <1>1, <1>5, <1>9 DEF GlyphAt
  <2>3. video' = lit
    BY <1>6, <2>1, <2>2
  <2> QED
    BY <1>1, <1>4, <1>9, <2>1, <2>3 DEF Typed, Goes, GlyphAt
<1>10. CASE pc[p] = "incrementX"
  BY <1>0, <1>10 DEF Typed, Acts, Goes, Ends, Loads, GlyphAt
<1>11. CASE pc[p] \in {"storeX", "testX"}
  BY <1>0, <1>11 DEF Typed, Acts, Goes, Ends, GlyphAt
<1> QED
  BY <1>7, <1>8, <1>9, <1>10, <1>11 DEF GlyphAt

LEMMA BreakStep ==
    ASSUME Typed, NEW p \in Printers, Acts(p), NEW cells, NEW row \in Nat,
           BreakAt(p, cells, row)
    PROVE  \/ BreakAt(p, cells, row)' /\ UNCHANGED <<todo, status>>
           \/ /\ Ends(p, pc[p]) /\ x' = 0 /\ y' = Below(row) /\ video' = cells
<1>0. LINES \in Nat /\ LINES > 0
  BY ScreenAssumption
<1> QED
  BY <1>0 DEF Typed, Acts, Goes, Ends, Loads, BreakAt, Below

-----------------------------------------------------------------------------
(* Cells.                                                                  *)

Column == 0 .. COLUMNS - 1
Row == 0 .. LINES - 1

LEMMA NotOver ==
    ASSUME NEW m \in Nat \ {0}, NEW n \in 0 .. m - 1
    PROVE  n % m = n
  OBVIOUS

LEMMA Over ==
    ASSUME NEW m \in Nat \ {0}
    PROVE  m % m = 0
  OBVIOUS

LEMMA RowOf ==
    ASSUME NEW m \in Nat \ {0}, NEW a \in 0 .. m - 1, NEW b \in Nat
    PROVE  (a + b * m) \div m = b
<1>1. PICK n : n = b * m
  OBVIOUS
<1>2. n \in Nat /\ n \div m = b
  BY <1>1
<1> QED
  BY <1>1, Z3

LEMMA CellInPage ==
    ASSUME NEW column \in Column, NEW row \in Row
    PROVE  /\ CellOf(column, row) \in Page /\ CellOf(column, row) \in VideoCells
           /\ CellOf(column, row) + COLUMNS - column \in Nat
           /\ CellOf(column, row) + COLUMNS - column <= LINES * COLUMNS
           /\ CellOf(column, row) + COLUMNS - column = (row + 1) * COLUMNS
           /\ LINES * COLUMNS \in Nat \ {0}
<1>0. COLUMNS \in Nat /\ COLUMNS > 0 /\ LINES \in Nat /\ LINES > 0 /\ MaxRaces \in Nat
  BY ScreenAssumption
<1>1. (row + 1) * COLUMNS <= LINES * COLUMNS /\ 1 * COLUMNS <= LINES * COLUMNS
  BY <1>0, RowBelow DEF Row
<1>2. (row + 1) * COLUMNS = row * COLUMNS + COLUMNS /\ row * COLUMNS \in Nat
  BY <1>0 DEF Row
<1>3. LINES * COLUMNS <= (LINES + MaxRaces + 1) * COLUMNS
  BY <1>0, RowBelow
<1>4. /\ LINES * COLUMNS \in Nat /\ (LINES + MaxRaces + 1) * COLUMNS \in Nat
      /\ row \in Nat /\ column \in Nat /\ column < COLUMNS
  BY <1>0 DEF Row, Column
<1>5. CellOf(column, row) + COLUMNS - column = (row + 1) * COLUMNS
  BY <1>0, <1>2, <1>4 DEF CellOf
<1> HIDE DEF CellOf
<1>6. PICK i, n, m, k : /\ i = CellOf(column, row) /\ n = (row + 1) * COLUMNS
                        /\ m = LINES * COLUMNS
                        /\ k = (LINES + MaxRaces + 1) * COLUMNS
  OBVIOUS
<1>7. /\ i \in Nat /\ n \in Nat /\ m \in Nat /\ k \in Nat
      /\ i + COLUMNS - column = n /\ n <= m /\ m <= k /\ m > 0
  BY <1>0, <1>1, <1>2, <1>3, <1>4, <1>5, <1>6 DEF CellOf
<1>8. i <= m - 1 /\ m - 1 <= k + MaxRaces /\ k + MaxRaces \in Nat
  BY <1>0, <1>4, <1>7
<1> QED
  BY <1>0, <1>5, <1>6, <1>7, <1>8 DEF Page, VideoCells

LEMMA CursorMoves ==
    ASSUME NEW column \in Column, NEW row \in Row
    PROVE  /\ column + 1 < COLUMNS =>
                 (CellOf(column, row) + 1) % (LINES * COLUMNS) = CellOf(column + 1, row)
           /\ column + 1 >= COLUMNS =>
                 (CellOf(column, row) + 1) % (LINES * COLUMNS) = CellOf(0, Below(row))
           /\ (CellOf(column, row) \div COLUMNS + 1) * COLUMNS % (LINES * COLUMNS)
                 = CellOf(0, Below(row))
           /\ Below(row) \in Row /\ 0 \in Column
<1>0. COLUMNS \in Nat \ {0} /\ LINES \in Nat \ {0} /\ COLUMNS > 0 /\ LINES > 0
  BY ScreenAssumption
<1>1. PICK m : m = LINES * COLUMNS
  OBVIOUS
<1>2. m \in Nat \ {0} /\ column \in Nat /\ row \in Nat
  BY <1>0, <1>1, CellInPage DEF Column, Row
<1>3. Below(row) \in Row /\ 0 \in Column
  BY <1>0 DEF Below, Row, Column
<1>4. ASSUME column + 1 < COLUMNS
      PROVE  (CellOf(column, row) + 1) % m = CellOf(column + 1, row)
  <2>1. column + 1 \in Column
    BY <1>0, <1>2, <1>4 DEF Column
  <2>2. CellOf(column + 1, row) \in 0 .. m - 1
    BY <1>1, <2>1, CellInPage DEF Page
  <2>3. CellOf(column, row) + 1 = CellOf(column + 1, row)
    BY <1>0, <1>2 DEF CellOf
  <2> QED
    BY <1>2, <2>2, <2>3, NotOver
<1>5. PICK n : n = (row + 1) * COLUMNS
  OBVIOUS
<1>6. n % m = CellOf(0, Below(row))
  <2>1. CASE row + 1 >= LINES
    <3>1. row + 1 = LINES /\ Below(row) = 0
      BY <1>0, <2>1 DEF Row, Below
    <3>2. n = m
      BY <1>1, <1>5, <3>1
    <3>3. CellOf(0, 0) = 0
      BY <1>0 DEF CellOf
    <3> QED
      BY <1>2, <3>1, <3>2, <3>3, Over
  <2>2. CASE ~(row + 1 >= LINES)
    <3>1. row + 1 \in Row /\ Below(row) = row + 1
      BY <1>0, <1>2, <2>2 DEF Row, Below
    <3>2. CellOf(0, row + 1) \in 0 .. m - 1
      BY <1>1, <1>3, <3>1, CellInPage DEF Page
    <3>3. CellOf(0, row + 1) = n
      BY <1>0, <1>2, <1>5 DEF CellOf
    <3> QED
      BY <1>2, <3>1, <3>2, <3>3, NotOver
  <2> QED
    BY <2>1, <2>2
<1>7. ASSUME column + 1 >= COLUMNS
      PROVE  CellOf(column, row) + 1 = n
  <2>1. column = COLUMNS - 1
    BY <1>0, <1>7 DEF Column
  <2>2. row * COLUMNS \in Nat /\ n = row * COLUMNS + COLUMNS
    BY <1>0, <1>2, <1>5
  <2> QED
    BY <1>0, <2>1, <2>2 DEF CellOf
<1>8. CellOf(column, row) \div COLUMNS = row
  BY <1>0, <1>2, RowOf DEF CellOf, Column
<1> QED
  BY <1>1, <1>3, <1>4, <1>5, <1>6, <1>7, <1>8

-----------------------------------------------------------------------------
(* The terminal.                                                           *)

TerminalCharacters == [char : Glyphs \cup {"NUL"}, attribute : {White, "black"}]

\* The running process is on its way from one screen to the next.
Printing(cells, column, row) ==
    \/ pc[running] = "rest" /\ x = column /\ y = row /\ video = cells
    \/ \E c \in Glyphs : GlyphAt(running, cells, column, row, c)
    \/ BreakAt(running, cells, row)
    \/ /\ column + 1 >= COLUMNS
       /\ \E c \in Glyphs :
             BreakAt(running, WithLit(cells, CellOf(column, row), c, White), row)

Alone ==
    /\ settled = [cells |-> settled.cells, cursor |-> settled.cursor]
    /\ IsVideo(settled.cells)
    /\ \A i \in Page : settled.cells[i] \in TerminalCharacters
    /\ \A p \in Printers \ {running} : pc[p] = "rest"
    /\ \E column \in Column, row \in Row :
          /\ settled.cursor = CellOf(column, row)
          /\ Printing(settled.cells, column, row)

TermInv == races = 0 /\ status = "running" => Alone

LEMMA InitTermInv == Init => TermInv
<1> SUFFICES ASSUME Init PROVE TermInv
  OBVIOUS
<1>0. COLUMNS \in Nat /\ COLUMNS > 0 /\ LINES \in Nat /\ LINES > 0
  BY ScreenAssumption
<1>1. settled.cells = [i \in VideoCells |-> Blank] /\ settled.cursor = 0
      /\ video = settled.cells
  BY DEF Init, Empty
<1>2. IsVideo(settled.cells)
  BY <1>1 DEF IsVideo, Lit, Blank
<1>3. \A i \in Page : i \in VideoCells
  <2>1. LINES * COLUMNS <= (LINES + MaxRaces + 1) * COLUMNS /\ MaxRaces \in Nat
    BY <1>0, ScreenAssumption, RowBelow
  <2>2. LINES * COLUMNS \in Nat /\ (LINES + MaxRaces + 1) * COLUMNS \in Nat
    BY <1>0, <2>1
  <2> QED
    BY <2>1, <2>2 DEF Page, VideoCells
<1>4. \A i \in Page : settled.cells[i] \in TerminalCharacters
  BY <1>1, <1>3 DEF TerminalCharacters, Blank
<1>5. 0 \in Column /\ 0 \in Row /\ CellOf(0, 0) = 0
  BY <1>0 DEF Column, Row, CellOf
<1>6. Printing(settled.cells, 0, 0) /\ \A p \in Printers \ {running} : pc[p] = "rest"
  BY <1>1 DEF Init, Printing
<1> QED
  BY <1>1, <1>2, <1>4, <1>5, <1>6 DEF Init, Empty, TermInv, Alone

\* A character of a process that runs alone is a step of the terminal, when it
\* is done, and no step before.
LEMMA PrintStep ==
    ASSUME IInv, RunInv, Alone, NEW p \in Printers, Acts(p), running = p,
           pc[p] # "rest", status = "running", status' = "running",
           races = 0, UNCHANGED <<running, attribute, races>>, Settle
    PROVE  Alone' /\ (T!Next \/ UNCHANGED settled)
<1>0. /\ Typed /\ OneCharacter(p) /\ attribute = White
      /\ COLUMNS \in Nat /\ COLUMNS > 0
  BY ScreenAssumption DEF IInv, RunInv, LocalsOK, Typed
<1>1. PICK V : V = settled.cells
  OBVIOUS
<1>2. PICK column \in Column, row \in Row :
         settled.cursor = CellOf(column, row) /\ Printing(V, column, row)
  BY <1>1 DEF Alone
<1>3. IsVideo(V) /\ \A i \in Page : V[i] \in TerminalCharacters
  BY <1>1 DEF Alone
<1>4. PICK i : i = CellOf(column, row)
  OBVIOUS
<1>5. i \in Page /\ i \in VideoCells /\ column \in Nat /\ row \in Nat
  BY <1>0, <1>4, CellInPage, ScreenAssumption DEF Column, Row
<1>6. \A q \in Printers \ {p} : pc[q] = "rest" /\ pc'[q] = "rest"
  <2>1. \A q \in Printers \ {p} : pc'[q] = pc[q]
    BY <1>0 DEF Typed, Acts, Goes, Ends, CharDone, Goto, Loads
  <2> QED
    BY <2>1 DEF Alone
<1>7. races' = 0 /\ ~(races' > 0 \/ status' # "running")
  OBVIOUS
<1>8. ASSUME Printing(V, column, row)', UNCHANGED <<todo, status>>, pc'[p] # "rest"
      PROVE  Alone' /\ UNCHANGED settled
  <2>1. settled' = settled
    BY <1>7, <1>8 DEF Settle
  <2>2. settled'.cells = V /\ settled'.cursor = CellOf(column, row)
    BY <1>1, <1>2, <2>1
  <2> QED
    BY <1>2, <1>3, <1>6, <1>8, <2>1, <2>2 DEF Alone
<1>9. PICK W : W = video'
  OBVIOUS
<1>10. ASSUME Ends(p, pc[p]), NEW k \in Column, NEW l \in Row, x' = k, y' = l,
              IsVideo(W), \A j \in Page : W[j] \in TerminalCharacters
       PROVE  Alone' /\ settled' = [cells |-> W, cursor |-> CellOf(k, l)]
  <2>1. pc'[p] = "rest"
    <3>1. ~(Len(todo[p]) > 1)
      <4>1. Len(todo[p]) = 1
        BY <1>0, OneIsOne
      <4> QED
        BY <4>1
    <3>2. pc' = [pc EXCEPT ![p] = "rest"]
      BY <1>10, <3>1 DEF Ends, CharDone, Goto
    <3> QED
      BY <1>0, <3>2 DEF Typed
  <2>2. \A q \in Printers : pc'[q] = "rest"
    BY <1>6, <2>1
  <2>3. settled' = [cells |-> W, cursor |-> CellOf(k, l)]
    BY <1>7, <1>9, <1>10, <2>2 DEF Settle, CellOf
  <2>4. Printing(W, k, l)'
    BY <1>9, <1>10, <2>1 DEF Printing
  <2>5. settled'.cells = W /\ settled'.cursor = CellOf(k, l)
    BY <2>3
  <2> QED
    BY <1>10, <2>2, <2>3, <2>4, <2>5 DEF Alone
<1>11. ASSUME NEW c \in Glyphs
       PROVE  /\ IsVideo(WithLit(V, i, c, White))
              /\ \A j \in Page : WithLit(V, i, c, White)[j] \in TerminalCharacters
              /\ [j \in Page |-> WithLit(V, i, c, White)[j]]
                    = [[j \in Page |-> V[j]] EXCEPT ![i] = Lit(c, White)]
              /\ Lit(c, White) \in TerminalCharacters
  <2>1. IsVideo(WithLit(V, i, c, White))
    BY <1>3, <1>5, LitCell
  <2>2. Lit(c, White) \in TerminalCharacters
    BY DEF Lit, TerminalCharacters
  <2>3. PICK U : U = WithLit(V, i, c, White)
    OBVIOUS
  <2>4. U[i] = Lit(c, White) /\ \A j \in VideoCells \ {i} : U[j] = V[j]
    BY <1>3, <1>5, <2>3 DEF WithLit, IsVideo
  <2>5. \A j \in Page : j \in VideoCells
    <3>1. MaxRaces \in Nat /\ LINES \in Nat
      BY ScreenAssumption
    <3>2. LINES * COLUMNS <= (LINES + MaxRaces + 1) * COLUMNS
      BY <1>0, <3>1, RowBelow
    <3>3. LINES * COLUMNS \in Nat /\ (LINES + MaxRaces + 1) * COLUMNS \in Nat
      BY <1>0, <3>1
    <3> QED
      BY <3>1, <3>2, <3>3 DEF Page, VideoCells
  <2>6. \A j \in Page : U[j] \in TerminalCharacters
    BY <1>3, <2>2, <2>4, <2>5
  <2>7. [j \in Page |-> U[j]] = [[j \in Page |-> V[j]] EXCEPT ![i] = Lit(c, White)]
    BY <2>4, <2>5, <1>5
  <2> QED
    BY <2>1, <2>2, <2>3, <2>6, <2>7
<1>12. CASE \E c \in Glyphs : GlyphAt(p, V, column, row, c)
  <2>1. PICK c \in Glyphs : GlyphAt(p, V, column, row, c)
    BY <1>12
  <2>2. Head(todo[p]).by # "printInt"
    BY <1>0, OneIsOne
  <2>3. \/ GlyphAt(p, V, column, row, c)' /\ UNCHANGED <<todo, status>>
        \/ /\ Ends(p, pc[p]) /\ x' = column + 1 /\ y' = row
           /\ column + 1 < COLUMNS
           /\ video' = WithLit(V, i, c, White)
        \/ /\ pc' = [pc EXCEPT ![p] = "resetX"] /\ UNCHANGED <<todo, status>>
           /\ column + 1 >= COLUMNS
           /\ y' = row
           /\ video' = WithLit(V, i, c, White)
    BY <1>0, <1>3, <1>4, <1>5, <2>1, <2>2, GlyphStep
  <2>4. CASE GlyphAt(p, V, column, row, c)' /\ UNCHANGED <<todo, status>>
    <3>1. Printing(V, column, row)'
      BY <2>4 DEF Printing
    <3>2. pc'[p] # "rest"
      BY <2>4 DEF GlyphAt
    <3> QED
      BY <1>8, <2>4, <3>1, <3>2
  <2>5. CASE /\ Ends(p, pc[p]) /\ x' = column + 1 /\ y' = row
             /\ column + 1 < COLUMNS
             /\ video' = WithLit(V, i, c, White)
    <3>1. column + 1 \in Column
      BY <1>0, <1>5, <2>5 DEF Column
    <3>2. Alone' /\ settled' = [cells |-> W, cursor |-> CellOf(column + 1, row)]
      BY <1>9, <1>10, <1>11, <2>5, <3>1
    <3>3. (i + 1) % (LINES * COLUMNS) = CellOf(column + 1, row)
      BY <1>4, <2>5, CursorMoves
    <3>4. settled'.cells = WithLit(V, i, c, White)
          /\ settled'.cursor = (i + 1) % (LINES * COLUMNS)
          /\ settled.cursor = i
      BY <1>2, <1>4, <1>9, <2>5, <3>2, <3>3
    <3>5. T!Put(Lit(c, White))
      BY <1>1, <1>11, <3>4 DEF T!Put
    <3> QED
      BY <1>11, <3>2, <3>5 DEF T!Next, TerminalCharacters
  <2>6. CASE /\ pc' = [pc EXCEPT ![p] = "resetX"] /\ UNCHANGED <<todo, status>>
             /\ column + 1 >= COLUMNS
             /\ y' = row
             /\ video' = WithLit(V, i, c, White)
    <3>1. pc'[p] = "resetX"
      BY <1>0, <2>6 DEF Typed
    <3>2. BreakAt(p, WithLit(V, i, c, White), row)'
      BY <2>6, <3>1 DEF BreakAt
    <3>3. Printing(V, column, row)'
      BY <1>4, <2>6, <3>2 DEF Printing
    <3> QED
      BY <1>8, <2>6, <3>1, <3>3
  <2> QED
    BY <2>3, <2>4, <2>5, <2>6
<1>13. CASE BreakAt(p, V, row)
  <2>1. \/ BreakAt(p, V, row)' /\ UNCHANGED <<todo, status>>
        \/ Ends(p, pc[p]) /\ x' = 0 /\ y' = Below(row) /\ video' = V
    BY <1>0, <1>5, <1>13, BreakStep
  <2>2. CASE BreakAt(p, V, row)' /\ UNCHANGED <<todo, status>>
    <3>1. Printing(V, column, row)' /\ pc'[p] # "rest"
      BY <2>2 DEF Printing, BreakAt
    <3> QED
      BY <1>8, <2>2, <3>1
  <2>3. CASE Ends(p, pc[p]) /\ x' = 0 /\ y' = Below(row) /\ video' = V
    <3>1. Alone' /\ settled' = [cells |-> W, cursor |-> CellOf(0, Below(row))]
      BY <1>3, <1>9, <1>10, <2>3, CursorMoves
    <3>2. settled'.cells = V /\ settled.cells = V /\ settled.cursor = i
          /\ settled'.cursor = (i \div COLUMNS + 1) * COLUMNS % (LINES * COLUMNS)
      BY <1>1, <1>2, <1>4, <1>9, <2>3, <3>1, CursorMoves
    <3>3. T!NewLine
      BY <3>2 DEF T!NewLine
    <3> QED
      BY <3>1, <3>3 DEF T!Next
  <2> QED
    BY <2>1, <2>2, <2>3
<1>14. CASE /\ column + 1 >= COLUMNS
            /\ \E c \in Glyphs : BreakAt(p, WithLit(V, i, c, White), row)
  <2>1. PICK c \in Glyphs : BreakAt(p, WithLit(V, i, c, White), row)
    BY <1>14
  <2>2. PICK U : U = WithLit(V, i, c, White)
    OBVIOUS
  <2>3. \/ BreakAt(p, U, row)' /\ UNCHANGED <<todo, status>>
        \/ Ends(p, pc[p]) /\ x' = 0 /\ y' = Below(row) /\ video' = U
    BY <1>0, <1>5, <2>1, <2>2, BreakStep
  <2>4. CASE BreakAt(p, U, row)' /\ UNCHANGED <<todo, status>>
    <3>1. Printing(V, column, row)'
      BY <1>4, <1>14, <2>2, <2>4 DEF Printing
    <3>2. pc'[p] # "rest"
      BY <2>4 DEF BreakAt
    <3> QED
      BY <1>8, <2>4, <3>1, <3>2
  <2>5. CASE Ends(p, pc[p]) /\ x' = 0 /\ y' = Below(row) /\ video' = U
    <3>1. Alone' /\ settled' = [cells |-> W, cursor |-> CellOf(0, Below(row))]
      BY <1>9, <1>10, <1>11, <2>2, <2>5, CursorMoves
    <3>2. settled'.cells = WithLit(V, i, c, White)
          /\ settled'.cursor = (i + 1) % (LINES * COLUMNS)
          /\ settled.cursor = i
      BY <1>2, <1>4, <1>9, <1>14, <2>2, <2>5, <3>1, CursorMoves
    <3>3. T!Put(Lit(c, White))
      BY <1>1, <1>11, <3>2 DEF T!Put
    <3> QED
      BY <1>11, <3>1, <3>3 DEF T!Next, TerminalCharacters
  <2> QED
    BY <2>3, <2>4, <2>5
<1> QED
  BY <1>2, <1>4, <1>12, <1>13, <1>14 DEF Printing

LEMMA NextTermInv ==
    IInv /\ RunInv /\ TermInv /\ [Next]_vars
        => /\ TermInv'
           /\ [races' > 0 \/ status' # "running" \/ T!Next]_settled
<1> SUFFICES ASSUME IInv, RunInv, TermInv, [Next]_vars,
                    ~(races' > 0), status' = "running"
             PROVE  TermInv' /\ (T!Next \/ UNCHANGED settled)
  BY DEF TermInv
<1>1. CASE UNCHANGED vars
  BY <1>1 DEF vars, cursor, locals, TermInv, Alone, Printing, GlyphAt, BreakAt
<1>2. ASSUME NEW p \in Printers, Step(p), Settle
      PROVE  TermInv' /\ (T!Next \/ UNCHANGED settled)
  <2>1. /\ Acts(p) /\ running = p /\ pc[p] # "rest" /\ status # "halted"
        /\ UNCHANGED <<running, attribute, races>>
    BY <1>2, StepActs
  <2>2. status = "running"
    BY <2>1 DEF Acts, Goes, Ends, CharDone, Goto, Loads
  <2>3. races = 0
    BY <2>1, <2>2 DEF RunInv, Switches
  <2>4. Alone
    BY <2>2, <2>3 DEF TermInv
  <2>5. Alone' /\ (T!Next \/ UNCHANGED settled)
    BY <1>2, <2>1, <2>2, <2>3, <2>4, PrintStep
  <2> QED
    BY <2>5 DEF TermInv
<1>3. ASSUME NEW p \in Printers, PrintString(p), Settle
      PROVE  TermInv' /\ (T!Next \/ UNCHANGED settled)
  <2>1. /\ status = "running" /\ pc[p] = "rest" /\ running = p
        /\ pc' = [pc EXCEPT ![p] = "char"]
        /\ UNCHANGED <<video, x, y, attribute, running, reg, races>>
    BY <1>3 DEF PrintString, At, Goto, cursor
  <2>2. pc \in [Printers -> PC] /\ DOMAIN todo = Printers /\ races = 0
    BY <2>1 DEF IInv, LocalsOK, RunInv, Switches
  <2>3. pc'[p] = "char" /\ \A q \in Printers \ {p} : pc'[q] = pc[q]
    BY <2>1, <2>2
  <2>4. settled' = settled
    BY <1>3, <2>1, <2>2, <2>3 DEF Settle
  <2>5. PICK column \in Column, row \in Row :
           settled.cursor = CellOf(column, row) /\ x = column /\ y = row
           /\ video = settled.cells
    BY <2>1, <2>2 DEF TermInv, Alone, Printing, GlyphAt, BreakAt
  <2>6. PICK c \in Glyphs \cup {"newline"} : todo' = [todo EXCEPT ![p] = <<Char(c)>>]
    BY <1>3 DEF PrintString
  <2>7. Head(todo'[p]) = Char(c)
    BY <2>2, <2>6
  <2>8. Printing(settled.cells, column, row)'
    <3>1. CASE Char(c) = Newline
      BY <2>1, <2>3, <2>4, <2>5, <2>7, <3>1 DEF Printing, BreakAt
    <3>2. CASE Char(c) # Newline
      <4>1. c \in Glyphs /\ Char(c).c = c
        BY <3>2 DEF Newline, Char
      <4> QED
        BY <2>1, <2>3, <2>4, <2>5, <2>7, <3>2, <4>1 DEF Printing, GlyphAt
    <3> QED
      BY <3>1, <3>2
  <2>9. Alone'
    BY <2>1, <2>2, <2>3, <2>4, <2>5, <2>8 DEF TermInv, Alone
  <2> QED
    BY <2>4, <2>9 DEF TermInv
<1>4. ASSUME NEW p \in Printers, Switch(p), Settle
      PROVE  TermInv' /\ (T!Next \/ UNCHANGED settled)
  <2>1. /\ status = "running" /\ running' = p
        /\ races' = IF pc[running] = "rest" THEN races ELSE races + 1
        /\ UNCHANGED <<video, x, y, pc, status>>
    BY <1>4 DEF Switch, cursor, locals, Interruptible
  <2>2. races \in Nat /\ running \in Printers /\ races = 0 /\ pc[running] = "rest"
    BY <2>1 DEF RunInv, Switches
  <2>3. Alone
    BY <2>1, <2>2 DEF TermInv
  <2>4. PICK column \in Column, row \in Row :
           settled.cursor = CellOf(column, row) /\ x = column /\ y = row
           /\ video = settled.cells
    BY <2>2, <2>3 DEF Alone, Printing, GlyphAt, BreakAt
  <2>5. \A q \in Printers : pc[q] = "rest" /\ pc'[q] = "rest"
    BY <2>1, <2>2, <2>3 DEF Alone
  <2>6. settled' = [cells |-> video, cursor |-> x + y * COLUMNS]
    BY <1>4, <2>1, <2>2, <2>5 DEF Settle
  <2>7. settled'.cells = settled.cells /\ settled'.cursor = CellOf(column, row)
    BY <2>4, <2>6 DEF CellOf
  <2>8. settled' = settled
    BY <2>3, <2>4, <2>6 DEF Alone, CellOf
  <2>9. Alone'
    <3>1. Printing(settled.cells, column, row)'
      BY <2>1, <2>4, <2>5, <2>7 DEF Printing
    <3> QED
      BY <2>3, <2>4, <2>5, <2>8, <3>1 DEF Alone
  <2> QED
    BY <2>8, <2>9 DEF TermInv
<1>5. ASSUME NEW p \in Printers, FaultHandler(p)
      PROVE  FALSE
  BY <1>5 DEF FaultHandler
<1> QED
  BY <1>1, <1>2, <1>3, <1>4, <1>5 DEF Next

\* Characters that a process prints without being interrupted appear one behind
\* the other, from line to line and from the last to the first, for every
\* screen: no other order of printChar's accesses can be seen from outside.
THEOREM TerminalKept == Spec => KeepsTerminal
<1>1. Init => T!Init
  <2> SUFFICES ASSUME Init PROVE T!Init
    OBVIOUS
  <2>1. \A i \in Page : i \in VideoCells
    <3>1. MaxRaces \in Nat /\ LINES \in Nat /\ COLUMNS \in Nat
      BY ScreenAssumption
    <3>2. LINES * COLUMNS <= (LINES + MaxRaces + 1) * COLUMNS
      BY <3>1, RowBelow
    <3>3. LINES * COLUMNS \in Nat /\ (LINES + MaxRaces + 1) * COLUMNS \in Nat
      BY <3>1
    <3> QED
      BY <3>1, <3>2, <3>3 DEF Page, VideoCells
  <2>2. settled.cells = [i \in VideoCells |-> Blank] /\ settled.cursor = 0
    BY DEF Init, Empty
  <2>3. \A i \in Page : settled.cells[i] \in TerminalCharacters
    BY <2>1, <2>2 DEF Blank, TerminalCharacters
  <2> QED
    BY <2>2, <2>3 DEF T!Init, T!Cells, Page, TerminalCharacters
<1> QED
  BY <1>1, InitIInv, NextIInv, InitRunInv, NextRunInv, InitTermInv, NextTermInv, PTL
     DEF Spec, KeepsTerminal

-----------------------------------------------------------------------------
(* The text of a report.                                                   *)

LEMMA TwoDigits ==
    ASSUME NEW v \in Vectors
    PROVE  Num(v) \in {1, 2}
<1>1. v \in 0 .. 31
  BY ScreenAssumption
<1>2. 10 ^ 1 = 10 /\ 10 ^ 2 = 100
  OBVIOUS
<1>3. 10 ^ 3 = 1000 /\ 10 ^ 4 = 10000 /\ 10 ^ 5 = 100000 /\ 10 ^ 6 = 1000000
  OBVIOUS
<1>4. 10 ^ 7 = 10000000 /\ 10 ^ 8 = 100000000 /\ 10 ^ 9 = 1000000000
  OBVIOUS
<1>5. DEFINE Fits(n) == v < 10 ^ n /\ (n = 1 \/ 10 ^ (n - 1) <= v)
<1>6. Fits(1) \/ Fits(2)
  <2>1. v < 10 => Fits(1)
    BY <1>2
  <2>2. ~(v < 10) => Fits(2)
    <3>1. 2 - 1 = 1
      OBVIOUS
    <3> QED
      BY <1>1, <1>2, <3>1
  <2> QED
    BY <2>1, <2>2
<1>7. Num(v) = CHOOSE n \in 1 .. 10 : Fits(n)
  BY DEF Num
<1>8. ~Fits(3) /\ ~Fits(4) /\ ~Fits(5) /\ ~Fits(6)
  <2>1. 3 - 1 = 2 /\ 4 - 1 = 3 /\ 5 - 1 = 4 /\ 6 - 1 = 5
    OBVIOUS
  <2> QED
    BY <1>1, <1>2, <1>3, <2>1
<1>9. ~Fits(7) /\ ~Fits(8) /\ ~Fits(9) /\ ~Fits(10)
  <2>1. 7 - 1 = 6 /\ 8 - 1 = 7 /\ 9 - 1 = 8 /\ 10 - 1 = 9
    OBVIOUS
  <2> QED
    BY <1>1, <1>3, <1>4, <2>1
<1> HIDE DEF Fits
<1>10. \E n \in 1 .. 10 : Fits(n)
  BY <1>6
<1>11. Num(v) \in 1 .. 10 /\ Fits(Num(v))
  BY <1>7, <1>10
<1>12. \A n \in 1 .. 10 : n \in {1, 2, 3, 4, 5, 6, 7, 8, 9, 10}
  OBVIOUS
<1> QED
  BY <1>8, <1>9, <1>11, <1>12

\* r is s, of length p, with t, of length q, behind it.
IsJoin(S, s, p, t, q, r) ==
    /\ s \in Seq(S) /\ Len(s) = p
    /\ t \in Seq(S) /\ Len(t) = q
    /\ p \in Nat /\ q \in Nat
    /\ r = s \o t

Joins(S, s, p, t, q, r) ==
    /\ r \in Seq(S) /\ Len(r) = p + q
    /\ \A i \in 1 .. p : r[i] = s[i]
    /\ \A i \in 1 .. q : r[p + i] = t[i]

LEMMA Joined ==
    ASSUME NEW S, NEW s, NEW p, NEW t, NEW q, NEW r, IsJoin(S, s, p, t, q, r)
    PROVE  Joins(S, s, p, t, q, r)
<1>0. /\ s \in Seq(S) /\ t \in Seq(S) /\ p \in Nat /\ q \in Nat
      /\ Len(s) = p /\ Len(t) = q /\ r = s \o t
  BY DEF IsJoin
<1>1. /\ s \o t \in Seq(S)
      /\ Len(s \o t) = Len(s) + Len(t)
      /\ \A i \in 1 .. Len(s) + Len(t) :
            (s \o t)[i] = IF i <= Len(s) THEN s[i] ELSE t[i - Len(s)]
  BY <1>0, ConcatProperties
<1>2. r \in Seq(S) /\ Len(r) = p + q
  BY <1>0, <1>1
<1>3. \A i \in 1 .. p : r[i] = s[i]
  BY <1>0, <1>1
<1>4. ASSUME NEW i \in 1 .. q PROVE r[p + i] = t[i]
  <2>1. p + i \in 1 .. p + q /\ ~(p + i <= p) /\ (p + i) - p = i
    BY <1>0
  <2> QED
    BY <1>0, <1>1, <2>1
<1> QED
  BY <1>2, <1>3, <1>4 DEF Joins

\* The report's first line ends before this newline, the second before the last.
HeadEnd(v) == Len(ReportHead) + Num(v) + 2
Length(v) == HeadEnd(v) + Len(Message(v)) + 1

LEMMA ReportShape ==
    ASSUME NEW v \in Vectors, NEW R, R = Report(v)
    PROVE  /\ \E S : R \in Seq(S)
           /\ Len(R) = Length(v) /\ Length(v) \in Nat
           /\ HeadEnd(v) \in 3 .. COLUMNS + 2 /\ HeadEnd(v) < Length(v)
           /\ Length(v) - HeadEnd(v) \in 1 .. COLUMNS
           /\ R[1] = Newline /\ R[HeadEnd(v)] = Newline /\ R[Length(v)] = Newline
           /\ \A i \in DOMAIN ReportHead : R[1 + i] = Char(ReportHead[i])
           /\ \A i \in 1 .. Num(v) : R[1 + Len(ReportHead) + i] = PrintInt(v)[i]
           /\ \A i \in DOMAIN Message(v) : R[HeadEnd(v) + i] = Char(Message(v)[i])
<1>1. PICK h, n, m : h = Len(ReportHead) /\ n = Num(v) /\ m = Len(Message(v))
  OBVIOUS
<1>2. /\ ReportHead \in Seq(STRING) /\ Message(v) \in Seq(STRING)
      /\ h \in Nat /\ m \in Nat /\ h + 2 <= COLUMNS /\ m < COLUMNS
      /\ COLUMNS \in Nat /\ DOMAIN ReportHead = 1 .. h /\ DOMAIN Message(v) = 1 .. m
  BY <1>1, ReportAssumption, ScreenAssumption DEF IsLine
<1>3. n \in 1 .. 2
  BY <1>1, TwoDigits
<1>4. PICK S : S = {Newline} \cup {Char(c) : c \in STRING} \cup {PrintInt(v)[i] : i \in 1 .. n}
  OBVIOUS
<1>5. PICK a, b, c, d : /\ a = <<Newline>> /\ b = Chars(ReportHead)
                        /\ c = PrintInt(v) /\ d = Chars(Message(v))
  OBVIOUS
<1>6. a \in Seq(S) /\ Len(a) = 1 /\ a[1] = Newline
  <2>1. Newline \in S
    BY <1>4
  <2> QED
    BY <1>5, <2>1
<1>7. b \in Seq(S) /\ Len(b) = h /\ \A i \in 1 .. h : b[i] = Char(ReportHead[i])
  <2>1. b = [i \in 1 .. h |-> Char(ReportHead[i])]
    BY <1>2, <1>5 DEF Chars
  <2>2. \A i \in 1 .. h : Char(ReportHead[i]) \in S
    BY <1>2, <1>4
  <2> QED
    BY <1>2, <2>1, <2>2
<1>8. c \in Seq(S) /\ Len(c) = n /\ \A i \in 1 .. n : c[i] = PrintInt(v)[i]
  <2>1. /\ DOMAIN c = 1 .. n /\ c = [i \in 1 .. n |-> c[i]]
        /\ \A i \in 1 .. n : c[i] \in S
    BY <1>1, <1>4, <1>5 DEF PrintInt
  <2> QED
    BY <1>3, <1>5, <2>1
<1>9. d \in Seq(S) /\ Len(d) = m /\ \A i \in 1 .. m : d[i] = Char(Message(v)[i])
  <2>1. d = [i \in 1 .. m |-> Char(Message(v)[i])]
    BY <1>2, <1>5 DEF Chars
  <2>2. \A i \in 1 .. m : Char(Message(v)[i]) \in S
    BY <1>2, <1>4
  <2> QED
    BY <1>2, <2>1, <2>2
<1>10. R = ((((a \o b) \o c) \o a) \o d) \o a
  BY <1>5 DEF Report
<1>11. PICK r1, r2, r3, r4 : /\ r1 = a \o b /\ r2 = r1 \o c /\ r3 = r2 \o a /\ r4 = r3 \o d
  OBVIOUS
<1>27. /\ 1 \in Nat /\ 1 + h \in Nat /\ 1 + h + n \in Nat /\ 1 + h + n + 1 \in Nat
       /\ 1 + h + n + 1 + m \in Nat /\ n \in Nat
  BY <1>2, <1>3
<1>12. /\ r1 \in Seq(S) /\ Len(r1) = 1 + h
       /\ \A i \in 1 .. 1 : r1[i] = a[i]
       /\ \A i \in 1 .. h : r1[1 + i] = b[i]
  <2>1. IsJoin(S, a, 1, b, h, r1)
    BY <1>2, <1>6, <1>7, <1>11, <1>27 DEF IsJoin
  <2>2. Joins(S, a, 1, b, h, r1)
    BY <2>1, Joined
  <2> QED
    BY <2>2 DEF Joins
<1>13. /\ r2 \in Seq(S) /\ Len(r2) = 1 + h + n
       /\ \A i \in 1 .. 1 + h : r2[i] = r1[i]
       /\ \A i \in 1 .. n : r2[1 + h + i] = c[i]
  <2>1. IsJoin(S, r1, 1 + h, c, n, r2)
    BY <1>2, <1>8, <1>11, <1>12, <1>27 DEF IsJoin
  <2>2. Joins(S, r1, 1 + h, c, n, r2)
    BY <2>1, Joined
  <2> QED
    BY <2>2 DEF Joins
<1>14. /\ r3 \in Seq(S) /\ Len(r3) = 1 + h + n + 1
       /\ \A i \in 1 .. 1 + h + n : r3[i] = r2[i]
       /\ \A i \in 1 .. 1 : r3[1 + h + n + i] = a[i]
  <2>1. IsJoin(S, r2, 1 + h + n, a, 1, r3)
    BY <1>2, <1>6, <1>11, <1>13, <1>27 DEF IsJoin
  <2>2. Joins(S, r2, 1 + h + n, a, 1, r3)
    BY <2>1, Joined
  <2> QED
    BY <2>2 DEF Joins
<1>15. /\ r4 \in Seq(S) /\ Len(r4) = 1 + h + n + 1 + m
       /\ \A i \in 1 .. 1 + h + n + 1 : r4[i] = r3[i]
       /\ \A i \in 1 .. m : r4[1 + h + n + 1 + i] = d[i]
  <2>1. IsJoin(S, r3, 1 + h + n + 1, d, m, r4)
    BY <1>2, <1>9, <1>11, <1>14, <1>27 DEF IsJoin
  <2>2. Joins(S, r3, 1 + h + n + 1, d, m, r4)
    BY <2>1, Joined
  <2> QED
    BY <2>2 DEF Joins
<1>16. /\ R \in Seq(S) /\ Len(R) = 1 + h + n + 1 + m + 1
       /\ \A i \in 1 .. 1 + h + n + 1 + m : R[i] = r4[i]
       /\ \A i \in 1 .. 1 : R[1 + h + n + 1 + m + i] = a[i]
  <2>1. R = r4 \o a
    BY <1>10, <1>11
  <2>2. IsJoin(S, r4, 1 + h + n + 1 + m, a, 1, R)
    BY <1>6, <1>15, <1>27, <2>1 DEF IsJoin
  <2>3. Joins(S, r4, 1 + h + n + 1 + m, a, 1, R)
    BY <2>2, Joined
  <2> QED
    BY <2>3 DEF Joins
<1>17. HeadEnd(v) = h + n + 2 /\ Length(v) = h + n + 2 + m + 1
  BY <1>1 DEF HeadEnd, Length
<1>18. R[1] = Newline /\ R[h + n + 2] = Newline /\ R[h + n + 2 + m + 1] = Newline
  <2>1. \A i \in 1 .. h + n + 1 : R[i] = r2[i]
    BY <1>2, <1>3, <1>14, <1>15, <1>16
  <2>2. R[1] = r1[1] /\ r1[1] = Newline
    BY <1>2, <1>3, <1>6, <1>12, <1>13, <2>1
  <2>3. r3[1 + h + n + 1] = Newline
    BY <1>6, <1>14
  <2>4. R[1 + h + n + 1] = r4[1 + h + n + 1] /\ r4[1 + h + n + 1] = r3[1 + h + n + 1]
    BY <1>2, <1>3, <1>15, <1>16
  <2>5. R[1 + h + n + 1 + m + 1] = Newline
    BY <1>6, <1>16
  <2>6. 1 + h + n + 1 = h + n + 2
    BY <1>2, <1>3
  <2> QED
    BY <1>2, <2>2, <2>3, <2>4, <2>5, <2>6
<1>19. \A i \in 1 .. h : R[1 + i] = Char(ReportHead[i])
  <2> SUFFICES ASSUME NEW i \in 1 .. h PROVE R[1 + i] = Char(ReportHead[i])
    OBVIOUS
  <2>1. 1 + i \in 1 .. 1 + h /\ 1 + i \in 1 .. 1 + h + n /\ 1 + i \in 1 .. 1 + h + n + 1
        /\ 1 + i \in 1 .. 1 + h + n + 1 + m
    BY <1>2, <1>3
  <2>2. R[1 + i] = r1[1 + i]
    BY <1>13, <1>14, <1>15, <1>16, <2>1
  <2> QED
    BY <1>7, <1>12, <2>2
<1>20. \A i \in 1 .. n : R[1 + h + i] = PrintInt(v)[i]
  <2> SUFFICES ASSUME NEW i \in 1 .. n PROVE R[1 + h + i] = PrintInt(v)[i]
    OBVIOUS
  <2>1. 1 + h + i \in 1 .. 1 + h + n /\ 1 + h + i \in 1 .. 1 + h + n + 1
        /\ 1 + h + i \in 1 .. 1 + h + n + 1 + m
    BY <1>2, <1>3
  <2>2. R[1 + h + i] = r2[1 + h + i]
    BY <1>14, <1>15, <1>16, <2>1
  <2> QED
    BY <1>8, <1>13, <2>2
<1>21. \A i \in 1 .. m : R[h + n + 2 + i] = Char(Message(v)[i])
  <2> SUFFICES ASSUME NEW i \in 1 .. m PROVE R[h + n + 2 + i] = Char(Message(v)[i])
    OBVIOUS
  <2>1. 1 + h + n + 1 + i \in 1 .. 1 + h + n + 1 + m
    BY <1>2, <1>3
  <2>2. R[1 + h + n + 1 + i] = d[i]
    BY <1>15, <1>16, <2>1
  <2>3. 1 + h + n + 1 + i = h + n + 2 + i
    BY <1>2, <1>3
  <2> QED
    BY <1>9, <2>2, <2>3
<1>22. PICK e, l : e = HeadEnd(v) /\ l = Length(v)
  OBVIOUS
<1>23. /\ Len(R) = l /\ l \in Nat /\ e \in 3 .. COLUMNS + 2 /\ e < l /\ l - e \in 1 .. COLUMNS
       /\ R[1] = Newline /\ R[e] = Newline /\ R[l] = Newline
       /\ e = h + n + 2
  BY <1>2, <1>3, <1>16, <1>17, <1>18, <1>22
<1>24. \A i \in DOMAIN Message(v) : R[e + i] = Char(Message(v)[i])
  BY <1>2, <1>21, <1>23
<1>25. \A i \in 1 .. Num(v) : R[1 + Len(ReportHead) + i] = PrintInt(v)[i]
  BY <1>1, <1>20
<1>26. \A i \in DOMAIN ReportHead : R[1 + i] = Char(ReportHead[i])
  BY <1>2, <1>19
<1> QED
  BY <1>16, <1>22, <1>23, <1>24, <1>25, <1>26

IsGlyph(v, k) == k \in 2 .. HeadEnd(v) - 1 \/ k \in HeadEnd(v) + 1 .. Length(v) - 1

\* Where character k of a report goes that begins on a line of the screen.
ColumnOf(v, k) == IF k <= HeadEnd(v) THEN k - 2 ELSE k - HeadEnd(v) - 1
RowOfChar(v, line, k) == IF k <= HeadEnd(v) THEN line ELSE Below(line)
Place(v, line, k) == CellOf(ColumnOf(v, k), RowOfChar(v, line, k))

\* What is left to print from character k on.
From(v, k) == SubSeq(Report(v), k, Length(v))

LEMMA FromShape ==
    ASSUME NEW v \in Vectors, NEW k \in 1 .. Length(v)
    PROVE  /\ Head(From(v, k)) = Report(v)[k]
           /\ Tail(From(v, k)) = From(v, k + 1)
           /\ Len(From(v, k)) = Length(v) - k + 1
<1>1. PICK R : R = Report(v)
  OBVIOUS
<1>2. (\E S : R \in Seq(S)) /\ Len(R) = Length(v) /\ Length(v) \in Nat
  BY <1>1, ReportShape
<1>3. PICK S : R \in Seq(S)
  BY <1>2
<1>4. PICK l : l = Length(v)
  OBVIOUS
<1>5. k \in 1 .. Len(R) /\ l \in k .. Len(R) /\ k \in Int /\ l \in Int
  BY <1>2, <1>4
<1>6. Head(SubSeq(R, k, l)) = R[k] /\ Tail(SubSeq(R, k, l)) = SubSeq(R, k + 1, l)
  BY <1>3, <1>5, HeadTailOfSubSeq
<1>7. \A i \in k .. l : R[i] \in S
  BY <1>2, <1>3, <1>4, <1>5
<1>8. Len(SubSeq(R, k, l)) = l - k + 1
  BY <1>5, <1>7, SubSeqProperties
<1> QED
  BY <1>1, <1>4, <1>6, <1>8 DEF From

LEMMA GlyphPlaced ==
    ASSUME NEW v \in Vectors, NEW k, IsGlyph(v, k), NEW line \in Row
    PROVE  /\ ColumnOf(v, k) \in Column /\ RowOfChar(v, line, k) \in Row
           /\ Place(v, line, k) \in VideoCells
           /\ Report(v)[k] # Newline
           /\ Report(v)[k].by = "printInt" \/ ColumnOf(v, k) + 1 < COLUMNS
           /\ k \in 1 .. Length(v) - 1 /\ k > 1 /\ k + 1 \in 1 .. Length(v)
           /\ IsGlyph(v, k + 1) => ColumnOf(v, k + 1) = ColumnOf(v, k) + 1
           /\ RowOfChar(v, line, k + 1) = RowOfChar(v, line, k)
<1>1. PICK R, e, l, h, n, m :
         /\ R = Report(v) /\ e = HeadEnd(v) /\ l = Length(v)
         /\ h = Len(ReportHead) /\ n = Num(v) /\ m = Len(Message(v))
  OBVIOUS
<1>2. /\ h \in Nat /\ m \in Nat /\ h + 2 <= COLUMNS /\ m < COLUMNS /\ COLUMNS \in Nat
      /\ DOMAIN ReportHead = 1 .. h /\ DOMAIN Message(v) = 1 .. m
      /\ \A i \in 1 .. h : ReportHead[i] # "newline"
      /\ \A i \in 1 .. m : Message(v)[i] # "newline"
  BY <1>1, ReportAssumption, ScreenAssumption DEF IsLine
<1>3. n \in 1 .. 2
  BY <1>1, TwoDigits
<1>4. e = h + n + 2 /\ l = h + n + 2 + m + 1
  BY <1>1 DEF HeadEnd, Length
<1>5. k \in 2 .. e - 1 \/ k \in e + 1 .. l - 1
  BY <1>1 DEF IsGlyph
<1>6. /\ \A i \in 1 .. h : R[1 + i] = Char(ReportHead[i])
      /\ \A i \in 1 .. n : R[1 + h + i] = PrintInt(v)[i]
      /\ \A i \in 1 .. m : R[e + i] = Char(Message(v)[i])
  <2>1. /\ \A i \in DOMAIN ReportHead : R[1 + i] = Char(ReportHead[i])
        /\ \A i \in 1 .. Num(v) : R[1 + Len(ReportHead) + i] = PrintInt(v)[i]
        /\ \A i \in DOMAIN Message(v) : R[HeadEnd(v) + i] = Char(Message(v)[i])
    BY <1>1, ReportShape
  <2> QED
    BY <1>1, <1>2, <2>1
<1>7. /\ ColumnOf(v, k) = IF k <= e THEN k - 2 ELSE k - e - 1
      /\ ColumnOf(v, k + 1) = IF k + 1 <= e THEN (k + 1) - 2 ELSE (k + 1) - e - 1
      /\ RowOfChar(v, line, k) = IF k <= e THEN line ELSE Below(line)
      /\ RowOfChar(v, line, k + 1) = IF k + 1 <= e THEN line ELSE Below(line)
  BY <1>1 DEF ColumnOf, RowOfChar
<1>8. ColumnOf(v, k) \in Column
  BY <1>2, <1>3, <1>4, <1>5, <1>7 DEF Column
<1>9. RowOfChar(v, line, k) \in Row
  BY <1>7, CursorMoves, <1>8
<1>10. Place(v, line, k) \in VideoCells
  BY <1>8, <1>9, CellInPage DEF Place
<1>11. R[k] # Newline /\ (R[k].by = "printInt" \/ ColumnOf(v, k) + 1 < COLUMNS)
  <2>1. CASE k \in 2 .. h + 1
    <3>1. PICK i \in 1 .. h : k = 1 + i
      <4>1. k - 1 \in 1 .. h /\ k = 1 + (k - 1)
        BY <1>2, <2>1
      <4> QED
        BY <4>1
    <3>2. R[k] = Char(ReportHead[i]) /\ ReportHead[i] # "newline"
      BY <1>2, <1>6, <3>1
    <3>3. R[k] # Newline
      BY <3>2 DEF Newline, Char
    <3>4. ColumnOf(v, k) + 1 < COLUMNS
      BY <1>2, <1>3, <1>4, <1>7, <2>1
    <3> QED
      BY <3>3, <3>4
  <2>2. CASE k \in h + 2 .. e - 1
    <3>1. PICK i \in 1 .. n : k = 1 + h + i
      <4>1. k - 1 - h \in 1 .. n /\ k = 1 + h + (k - 1 - h)
        BY <1>2, <1>3, <1>4, <2>2
      <4> QED
        BY <4>1
    <3>2. R[k] = PrintInt(v)[i]
      BY <1>6, <3>1
    <3>3. PICK d : PrintInt(v)[i] = Digit(d)
      BY <1>1, <3>1 DEF PrintInt
    <3>4. R[k].by = "printInt"
      BY <3>2, <3>3 DEF Digit
    <3>5. Newline.by = "printChar"
      BY DEF Newline, Char
    <3> QED
      BY <3>4, <3>5
  <2>3. CASE k \in e + 1 .. l - 1
    <3>1. PICK i \in 1 .. m : k = e + i
      <4>1. k - e \in 1 .. m /\ k = e + (k - e)
        BY <1>2, <1>3, <1>4, <2>3
      <4> QED
        BY <4>1
    <3>2. R[k] = Char(Message(v)[i]) /\ Message(v)[i] # "newline"
      BY <1>2, <1>6, <3>1
    <3>3. R[k] # Newline
      BY <3>2 DEF Newline, Char
    <3>4. ColumnOf(v, k) + 1 < COLUMNS
      BY <1>2, <1>3, <1>4, <1>7, <2>3
    <3> QED
      BY <3>3, <3>4
  <2>4. k \in 2 .. h + 1 \/ k \in h + 2 .. e - 1 \/ k \in e + 1 .. l - 1
    BY <1>2, <1>3, <1>4, <1>5
  <2> QED
    BY <2>1, <2>2, <2>3, <2>4
<1>12. k \in 1 .. l - 1 /\ k > 1 /\ k + 1 \in 1 .. l
  BY <1>2, <1>3, <1>4, <1>5
<1>13. RowOfChar(v, line, k + 1) = RowOfChar(v, line, k)
  BY <1>2, <1>3, <1>4, <1>5, <1>7
<1>14. IsGlyph(v, k + 1) => ColumnOf(v, k + 1) = ColumnOf(v, k) + 1
  <2>1. IsGlyph(v, k + 1) => k + 1 \in 2 .. e - 1 \/ k + 1 \in e + 1 .. l - 1
    BY <1>1 DEF IsGlyph
  <2> QED
    BY <1>2, <1>3, <1>4, <1>5, <1>7, <2>1
<1> QED
  BY <1>1, <1>8, <1>9, <1>10, <1>11, <1>12, <1>13, <1>14

LEMMA CellsApart ==
    ASSUME NEW a \in Column, NEW b \in Column, NEW s \in Row, NEW t \in Row,
           CellOf(a, s) = CellOf(b, t)
    PROVE  a = b /\ s = t
<1>0. COLUMNS \in Nat /\ COLUMNS > 0 /\ LINES \in Nat
  BY ScreenAssumption
<1>1. ASSUME NEW c \in Column, NEW d \in Column, NEW u \in Row, NEW w \in Row, u < w
      PROVE  CellOf(c, u) < CellOf(d, w)
  <2>1. /\ u \in Nat /\ w \in Nat /\ u + 1 <= w /\ c \in Nat /\ d \in Nat
        /\ c < COLUMNS
    BY <1>0, <1>1 DEF Row, Column
  <2>2. (u + 1) * COLUMNS <= w * COLUMNS
    BY <1>0, <2>1, RowBelow
  <2>3. (u + 1) * COLUMNS = u * COLUMNS + COLUMNS
    BY <1>0, <2>1
  <2>4. u * COLUMNS \in Nat /\ w * COLUMNS \in Nat
    BY <1>0, <2>1
  <2> QED
    BY <1>0, <2>1, <2>2, <2>3, <2>4 DEF CellOf
<1>2. CellOf(a, s) \in Int /\ CellOf(b, t) \in Int
  BY CellInPage DEF Page
<1>3. s = t
  <2>1. s \in Int /\ t \in Int
    BY <1>0 DEF Row
  <2>2. ~(s < t) /\ ~(t < s)
    BY <1>1, <1>2
  <2> QED
    BY <2>1, <2>2
<1>4. a + s * COLUMNS = b + s * COLUMNS /\ s * COLUMNS \in Int
  BY <1>0, <1>3 DEF CellOf, Row
<1> QED
  BY <1>0, <1>3, <1>4 DEF Column

LEMMA PlacesApart ==
    ASSUME NEW v \in Vectors, NEW j, IsGlyph(v, j), NEW k, IsGlyph(v, k), j < k,
           NEW line \in Row
    PROVE  Place(v, line, j) # Place(v, line, k)
<1>0. LINES \in Nat /\ LINES > 1
  BY ScreenAssumption, ReportAssumption
<1>1. /\ ColumnOf(v, j) \in Column /\ RowOfChar(v, line, j) \in Row
      /\ ColumnOf(v, k) \in Column /\ RowOfChar(v, line, k) \in Row
      /\ j \in Int /\ k \in Int
  BY GlyphPlaced
<1>2. HeadEnd(v) \in Int
  BY ReportShape
<1>3. Below(line) # line
  BY <1>0 DEF Below, Row
<1>4. ColumnOf(v, j) # ColumnOf(v, k) \/ RowOfChar(v, line, j) # RowOfChar(v, line, k)
  BY <1>1, <1>2, <1>3 DEF ColumnOf, RowOfChar
<1> QED
  BY <1>1, <1>4, CellsApart DEF Place

-----------------------------------------------------------------------------
(* An exception is reported.                                               *)

\* What stands before character k of the report is on the screen.
Shown(cells, v, line, k) ==
    \A j \in 1 .. k - 1 : IsGlyph(v, j) =>
        cells[Place(v, line, j)] = Lit(Report(v)[j].c, LightRed)

LEMMA ShowsOneMore ==
    ASSUME NEW v \in Vectors, NEW line \in Row, NEW k, IsGlyph(v, k),
           NEW cells, IsVideo(cells), Shown(cells, v, line, k)
    PROVE  Shown(WithLit(cells, Place(v, line, k), Report(v)[k].c, LightRed), v, line, k + 1)
<1>1. PICK i, new : /\ i = Place(v, line, k)
                    /\ new = WithLit(cells, i, Report(v)[k].c, LightRed)
  OBVIOUS
<1>2. i \in VideoCells /\ k \in Int
  BY <1>1, GlyphPlaced
<1>3. new[i] = Lit(Report(v)[k].c, LightRed)
      /\ \A j \in VideoCells \ {i} : new[j] = cells[j]
  BY <1>1, <1>2 DEF IsVideo, WithLit
<1>4. ASSUME NEW j \in 1 .. (k + 1) - 1, IsGlyph(v, j)
      PROVE  new[Place(v, line, j)] = Lit(Report(v)[j].c, LightRed)
  <2>1. CASE j = k
    BY <1>1, <1>3, <2>1
  <2>2. CASE j # k
    <3>1. j < k /\ j \in 1 .. k - 1
      BY <1>2, <2>2
    <3>2. Place(v, line, j) \in VideoCells \ {i}
      BY <1>1, <1>4, <3>1, GlyphPlaced, PlacesApart
    <3> QED
      BY <1>3, <1>4, <3>1, <3>2 DEF Shown
  <2> QED
    BY <2>1, <2>2
<1> QED
  BY <1>1, <1>4 DEF Shown

LEMMA ShownBreak ==
    ASSUME NEW cells, NEW v \in Vectors, NEW line, NEW k \in Nat, ~IsGlyph(v, k),
           Shown(cells, v, line, k)
    PROVE  Shown(cells, v, line, k + 1)
<1>1. \A j \in 1 .. (k + 1) - 1 : j = k \/ j \in 1 .. k - 1
  OBVIOUS
<1> QED
  BY <1>1 DEF Shown

\* Process p is at character k of the report.
ReportAt(p, v, k) ==
    /\ todo[p] = From(v, k)
    /\ \/ k = 1 /\ \E row \in Nat : \E cells : IsVideo(cells) /\ BreakAt(p, cells, row)
       \/ /\ k > 1
          /\ \E line \in Row : \E cells :
                /\ IsVideo(cells) /\ Shown(cells, v, line, k)
                /\ \/ /\ IsGlyph(v, k)
                      /\ GlyphAt(p, cells, ColumnOf(v, k), RowOfChar(v, line, k),
                                 Report(v)[k].c)
                   \/ ~IsGlyph(v, k) /\ BreakAt(p, cells, RowOfChar(v, line, k))

\* Who is about to print character k of the report.
LEMMA NextAt ==
    ASSUME NEW p \in Printers, NEW v \in Vectors, NEW k \in 1 .. Length(v), k > 1,
           NEW line \in Row, NEW cells, IsVideo(cells), Shown(cells, v, line, k),
           pc'[p] = "char", todo'[p] = From(v, k), video' = cells,
           y' = RowOfChar(v, line, k), IsGlyph(v, k) => x' = ColumnOf(v, k)
    PROVE  ReportAt(p, v, k)'
<1>1. Head(todo'[p]) = Report(v)[k]
  BY FromShape
<1>2. CASE IsGlyph(v, k)
  <2>1. Report(v)[k] # Newline
    BY <1>2, GlyphPlaced
  <2>2. GlyphAt(p, cells, ColumnOf(v, k), RowOfChar(v, line, k), Report(v)[k].c)'
    BY <1>1, <1>2, <2>1 DEF GlyphAt
  <2> QED
    BY <1>2, <2>2 DEF ReportAt
<1>3. CASE ~IsGlyph(v, k)
  <2>1. Report(v)[k] = Newline
    <3>1. PICK e, l : e = HeadEnd(v) /\ l = Length(v)
      OBVIOUS
    <3>2. e \in Int /\ l \in Int
      BY <3>1, ReportShape
    <3>3. k = e \/ k = l
      <4>1. ~(k \in 2 .. e - 1) /\ ~(k \in e + 1 .. l - 1)
        BY <1>3, <3>1 DEF IsGlyph
      <4>2. k \in 1 .. l
        BY <3>1
      <4> QED
        BY <3>2, <4>1, <4>2
    <3> QED
      BY <3>1, <3>3, ReportShape
  <2>2. BreakAt(p, cells, RowOfChar(v, line, k))'
    BY <1>1, <2>1 DEF BreakAt
  <2> QED
    BY <1>3, <2>2 DEF ReportAt
<1> QED
  BY <1>2, <1>3

LEMMA CharacterDone ==
    ASSUME Typed, NEW p \in Printers, Ends(p, pc[p]), status = "reporting",
           NEW v \in Vectors, NEW k \in 1 .. Length(v), todo[p] = From(v, k)
    PROVE  /\ todo'[p] = From(v, k + 1)
           /\ k < Length(v) => pc'[p] = "char" /\ status' = "reporting"
           /\ k = Length(v) => pc'[p] = "rest" /\ status' = "halted" /\ todo'[p] = <<>>
<1>1. PICK l : l = Length(v)
  OBVIOUS
<1>2. l \in Nat /\ k \in 1 .. l
  BY <1>1, ReportShape
<1>3. Len(todo[p]) = l - k + 1 /\ Tail(todo[p]) = From(v, k + 1)
  BY <1>1, FromShape
<1>4. todo' = [todo EXCEPT ![p] = From(v, k + 1)]
  BY <1>3 DEF Ends, CharDone
<1>5. todo'[p] = From(v, k + 1)
  BY <1>4 DEF Typed
<1>6. ASSUME k < l PROVE pc'[p] = "char" /\ status' = "reporting"
  <2>1. Len(todo[p]) > 1
    BY <1>2, <1>3, <1>6
  <2> QED
    BY <2>1 DEF Ends, CharDone, Goto, Typed
<1>7. ASSUME k = l PROVE pc'[p] = "rest" /\ status' = "halted" /\ todo'[p] = <<>>
  <2>1. ~(Len(todo[p]) > 1)
    BY <1>2, <1>3, <1>7
  <2>2. pc'[p] = "rest" /\ status' = "halted"
    BY <2>1 DEF Ends, CharDone, Goto, Typed
  <2>3. From(v, k + 1) = <<>>
    <3>1. k + 1 \in Int /\ l \in Int /\ l < k + 1
      BY <1>2, <1>7
    <3>2. SubSeq(Report(v), k + 1, l) = <<>>
      BY <3>1, SubSeqEmpty
    <3> QED
      BY <1>1, <3>2 DEF From
  <2> QED
    BY <1>5, <2>2, <2>3
<1> QED
  BY <1>1, <1>5, <1>6, <1>7

LEMMA ReportStep ==
    ASSUME Typed, NEW p \in Printers, Acts(p), attribute = LightRed,
           status = "reporting", UNCHANGED attribute,
           NEW v \in Vectors, NEW k \in 1 .. Length(v), ReportAt(p, v, k)
    PROVE  \/ status' = "reporting" /\ \E j \in 1 .. Length(v) : ReportAt(p, v, j)'
           \/ /\ status' = "halted" /\ pc'[p] = "rest" /\ todo'[p] = <<>>
              /\ \E line \in Row : Shown(video', v, line, Length(v))
<1>0. /\ todo[p] = From(v, k) /\ COLUMNS \in Nat /\ LINES \in Nat /\ LINES > 0
      /\ Length(v) \in Nat /\ HeadEnd(v) \in 3 .. COLUMNS + 2 /\ HeadEnd(v) < Length(v)
  BY ReportShape, ScreenAssumption DEF ReportAt
<1>1. Head(todo[p]) = Report(v)[k]
  BY <1>0, FromShape
<1>2. CASE k = 1
  <2>1. PICK row, cells : row \in Nat /\ IsVideo(cells) /\ BreakAt(p, cells, row)
    BY <1>2 DEF ReportAt
  <2>2. \/ BreakAt(p, cells, row)' /\ UNCHANGED <<todo, status>>
        \/ Ends(p, pc[p]) /\ x' = 0 /\ y' = Below(row) /\ video' = cells
    BY <2>1, BreakStep
  <2>3. CASE BreakAt(p, cells, row)' /\ UNCHANGED <<todo, status>>
    <3>1. ReportAt(p, v, k)'
      BY <1>0, <1>2, <2>1, <2>3 DEF ReportAt
    <3> QED
      BY <2>3, <3>1
  <2>4. CASE Ends(p, pc[p]) /\ x' = 0 /\ y' = Below(row) /\ video' = cells
    <3>1. PICK two : two = k + 1
      OBVIOUS
    <3>2. two \in 1 .. Length(v) /\ two > 1 /\ k < Length(v) /\ two = 2
      BY <1>0, <1>2, <3>1
    <3>3. pc'[p] = "char" /\ status' = "reporting" /\ todo'[p] = From(v, two)
      BY <1>0, <2>4, <3>1, <3>2, CharacterDone
    <3>4. Below(row) \in Row
      BY <1>0, <2>1 DEF Below, Row
    <3>5. /\ RowOfChar(v, Below(row), two) = Below(row)
          /\ ColumnOf(v, two) = 0
      BY <1>0, <3>2 DEF RowOfChar, ColumnOf
    <3>6. Shown(cells, v, Below(row), two)
      BY <1>0, <3>2 DEF Shown, IsGlyph
    <3>7. ReportAt(p, v, two)'
      BY <2>1, <2>4, <3>2, <3>3, <3>4, <3>5, <3>6, NextAt
    <3> QED
      BY <3>2, <3>3, <3>7
  <2> QED
    BY <2>2, <2>3, <2>4
<1>3. ASSUME k > 1, NEW line \in Row, NEW cells, IsVideo(cells), Shown(cells, v, line, k),
             IsGlyph(v, k),
             GlyphAt(p, cells, ColumnOf(v, k), RowOfChar(v, line, k), Report(v)[k].c)
      PROVE  status' = "reporting" /\ \E j \in 1 .. Length(v) : ReportAt(p, v, j)'
  <2>1. PICK column, row, c : /\ column = ColumnOf(v, k) /\ row = RowOfChar(v, line, k)
                              /\ c = Report(v)[k].c
    OBVIOUS
  <2>2. /\ column \in Column /\ row \in Row /\ CellOf(column, row) = Place(v, line, k)
        /\ Place(v, line, k) \in VideoCells
        /\ Report(v)[k].by = "printInt" \/ column + 1 < COLUMNS
        /\ k \in 1 .. Length(v) - 1 /\ k + 1 \in 1 .. Length(v)
        /\ IsGlyph(v, k + 1) => ColumnOf(v, k + 1) = column + 1
        /\ RowOfChar(v, line, k + 1) = row
    BY <1>3, <2>1, GlyphPlaced DEF Place
  <2>3. column \in Nat /\ row \in Nat
    BY <1>0, <2>2 DEF Column, Row
  <2>4. PICK new : new = WithLit(cells, Place(v, line, k), c, LightRed)
    OBVIOUS
  <2>5. \/ GlyphAt(p, cells, column, row, c)' /\ UNCHANGED <<todo, status>>
        \/ /\ Ends(p, pc[p]) /\ x' = column + 1 /\ y' = row /\ video' = new
        \/ /\ column + 1 >= COLUMNS /\ Head(todo[p]).by # "printInt"
    BY <1>3, <2>1, <2>2, <2>3, <2>4, GlyphStep
  <2>6. ~(column + 1 >= COLUMNS /\ Head(todo[p]).by # "printInt")
    BY <1>0, <1>1, <2>2, <2>3
  <2>7. CASE GlyphAt(p, cells, column, row, c)' /\ UNCHANGED <<todo, status>>
    <3>1. ReportAt(p, v, k)'
      BY <1>0, <1>3, <2>1, <2>7 DEF ReportAt
    <3> QED
      BY <2>7, <3>1
  <2>8. CASE Ends(p, pc[p]) /\ x' = column + 1 /\ y' = row /\ video' = new
    <3>1. PICK next : next = k + 1
      OBVIOUS
    <3>2. next \in 1 .. Length(v) /\ next > 1 /\ k < Length(v)
      BY <1>0, <1>3, <2>2, <3>1
    <3>3. pc'[p] = "char" /\ status' = "reporting" /\ todo'[p] = From(v, next)
      BY <1>0, <2>8, <3>1, <3>2, CharacterDone
    <3>4. Shown(new, v, line, next)
      BY <1>3, <2>1, <2>4, <3>1, ShowsOneMore
    <3>5. IsVideo(new)
      BY <1>3, <2>2, <2>4, LitCell
    <3>6. ReportAt(p, v, next)'
      BY <1>3, <2>2, <2>8, <3>1, <3>2, <3>3, <3>4, <3>5, NextAt
    <3> QED
      BY <3>2, <3>3, <3>6
  <2> QED
    BY <2>5, <2>6, <2>7, <2>8
<1>4. ASSUME k > 1, NEW line \in Row, NEW cells, IsVideo(cells), Shown(cells, v, line, k),
             ~IsGlyph(v, k), BreakAt(p, cells, RowOfChar(v, line, k))
      PROVE  \/ status' = "reporting" /\ \E j \in 1 .. Length(v) : ReportAt(p, v, j)'
             \/ /\ status' = "halted" /\ pc'[p] = "rest" /\ todo'[p] = <<>>
                /\ Shown(video', v, line, Length(v))
  <2>1. PICK row : row = RowOfChar(v, line, k)
    OBVIOUS
  <2>2. row \in Nat
    BY <1>0, <2>1 DEF RowOfChar, Row, Below
  <2>3. \/ BreakAt(p, cells, row)' /\ UNCHANGED <<todo, status>>
        \/ Ends(p, pc[p]) /\ x' = 0 /\ y' = Below(row) /\ video' = cells
    BY <1>4, <2>1, <2>2, BreakStep
  <2>4. CASE BreakAt(p, cells, row)' /\ UNCHANGED <<todo, status>>
    <3>1. ReportAt(p, v, k)'
      BY <1>0, <1>4, <2>1, <2>4 DEF ReportAt
    <3> QED
      BY <2>4, <3>1
  <2>5. CASE Ends(p, pc[p]) /\ x' = 0 /\ y' = Below(row) /\ video' = cells
    <3>1. CASE k = Length(v)
      BY <1>0, <1>4, <2>5, <3>1, CharacterDone
    <3>2. CASE k < Length(v)
      <4>1. k = HeadEnd(v)
        BY <1>0, <1>4, <3>2 DEF IsGlyph
      <4>2. PICK next : next = k + 1
        OBVIOUS
      <4>3. next \in 1 .. Length(v) /\ next > 1
        BY <1>0, <1>4, <3>2, <4>2
      <4>4. pc'[p] = "char" /\ status' = "reporting" /\ todo'[p] = From(v, next)
        BY <1>0, <2>5, <3>2, <4>2, CharacterDone
      <4>5. row = line /\ RowOfChar(v, line, next) = Below(line) /\ ColumnOf(v, next) = 0
        BY <1>0, <2>1, <4>1, <4>2 DEF RowOfChar, ColumnOf
      <4>6. Shown(cells, v, line, next)
        BY <1>4, <4>2, ShownBreak
      <4>7. ReportAt(p, v, next)'
        BY <1>4, <2>5, <4>3, <4>4, <4>5, <4>6, NextAt
      <4> QED
        BY <4>3, <4>4, <4>7
    <3> QED
      BY <1>0, <3>1, <3>2
  <2> QED
    BY <2>3, <2>4, <2>5
<1> QED
  <2>1. CASE k > 1
    <3>1. PICK line, cells :
             /\ line \in Row
             /\ IsVideo(cells) /\ Shown(cells, v, line, k)
             /\ \/ /\ IsGlyph(v, k)
                   /\ GlyphAt(p, cells, ColumnOf(v, k), RowOfChar(v, line, k), Report(v)[k].c)
                \/ ~IsGlyph(v, k) /\ BreakAt(p, cells, RowOfChar(v, line, k))
      BY <2>1 DEF ReportAt
    <3> QED
      BY <1>3, <1>4, <2>1, <3>1
  <2>2. k = 1 \/ k > 1
    OBVIOUS
  <2> QED
    BY <1>2, <2>1, <2>2

LEMMA ReportShows ==
    ASSUME NEW v \in Vectors, NEW line \in Row, Shown(video', v, line, Length(v))
    PROVE  /\ Shows(line, ReportHead \o Digits(v))'
           /\ Shows((line + 1) % LINES, Message(v))'
<1>1. PICK R, e, l, h, n, m :
         /\ R = Report(v) /\ e = HeadEnd(v) /\ l = Length(v)
         /\ h = Len(ReportHead) /\ n = Num(v) /\ m = Len(Message(v))
  OBVIOUS
<1>2. /\ ReportHead \in Seq(STRING) /\ Message(v) \in Seq(STRING)
      /\ h \in Nat /\ m \in Nat /\ COLUMNS \in Nat /\ LINES \in Nat /\ LINES > 0
      /\ DOMAIN ReportHead = 1 .. h /\ DOMAIN Message(v) = 1 .. m
  BY <1>1, ReportAssumption, ScreenAssumption DEF IsLine
<1>3. n \in 1 .. 2
  BY <1>1, TwoDigits
<1>4. e = h + n + 2 /\ l = h + n + 2 + m + 1
  BY <1>1 DEF HeadEnd, Length
<1>5. /\ \A i \in 1 .. h : R[1 + i] = Char(ReportHead[i])
      /\ \A i \in 1 .. n : R[1 + h + i] = PrintInt(v)[i]
      /\ \A i \in 1 .. m : R[e + i] = Char(Message(v)[i])
  <2>1. /\ \A i \in DOMAIN ReportHead : R[1 + i] = Char(ReportHead[i])
        /\ \A i \in 1 .. Num(v) : R[1 + Len(ReportHead) + i] = PrintInt(v)[i]
        /\ \A i \in DOMAIN Message(v) : R[HeadEnd(v) + i] = Char(Message(v)[i])
    BY <1>1, ReportShape
  <2> QED
    BY <1>1, <1>2, <2>1
<1>6. \A k : IsGlyph(v, k) /\ k \in 1 .. l - 1
                => video'[Place(v, line, k)] = [char |-> R[k].c, attribute |-> LightRed]
  BY <1>1 DEF Shown, Lit
<1>7. PICK g : g = ReportHead \o Digits(v)
  OBVIOUS
<1>8. DOMAIN g = 1 .. h + n /\ \A i \in 1 .. h + n : g[i] = R[1 + i].c
  <2>1. PICK d : d = Digits(v)
    OBVIOUS
  <2>2. PICK S : S = STRING \cup {PrintInt(v)[i].c : i \in 1 .. n}
    OBVIOUS
  <2>3. d = [i \in 1 .. n |-> PrintInt(v)[i].c]
    BY <1>1, <2>1 DEF Digits
  <2>4. d \in Seq(S) /\ Len(d) = n
    BY <1>3, <2>2, <2>3
  <2>5. ReportHead \in Seq(S)
    <3>1. \A i \in 1 .. h : ReportHead[i] \in S
      BY <1>2, <2>2
    <3> QED
      BY <1>1, <1>2, <3>1
  <2>6. IsJoin(S, ReportHead, h, d, n, g)
    BY <1>1, <1>2, <1>3, <1>7, <2>1, <2>4, <2>5 DEF IsJoin
  <2>7. Joins(S, ReportHead, h, d, n, g)
    BY <2>6, Joined
  <2>8. /\ DOMAIN g = 1 .. h + n
        /\ \A i \in 1 .. h : g[i] = ReportHead[i]
        /\ \A i \in 1 .. n : g[h + i] = d[i]
    BY <2>7 DEF Joins
  <2>9. \A i \in 1 .. h : g[i] = R[1 + i].c
    <3> SUFFICES ASSUME NEW i \in 1 .. h PROVE g[i] = R[1 + i].c
      OBVIOUS
    <3>1. R[1 + i] = Char(ReportHead[i]) /\ g[i] = ReportHead[i]
      BY <1>5, <2>8
    <3>2. Char(ReportHead[i]).c = ReportHead[i]
      BY DEF Char
    <3> QED
      BY <3>1, <3>2
  <2>10. ASSUME NEW i \in 1 .. h + n, i > h PROVE g[i] = R[1 + i].c
    <3>1. PICK k \in 1 .. n : i = h + k /\ 1 + i = 1 + h + k
      <4>1. i - h \in 1 .. n /\ i = h + (i - h) /\ 1 + i = 1 + h + (i - h)
        BY <1>2, <1>3, <2>10
      <4> QED
        BY <4>1
    <3> QED
      BY <1>5, <2>3, <2>8, <3>1
  <2>11. \A i \in 1 .. h + n : i \in 1 .. h \/ i > h
    BY <1>2, <1>3
  <2> QED
    BY <2>8, <2>9, <2>10, <2>11
<1>9. ASSUME NEW i \in 1 .. h + n
      PROVE  video'[line * COLUMNS + i - 1] = [char |-> g[i], attribute |-> LightRed]
  <2>1. PICK k : k = 1 + i
    OBVIOUS
  <2>2. IsGlyph(v, k) /\ k \in 1 .. l - 1 /\ k <= e /\ k - 2 = i - 1
    <3>1. k \in 2 .. e - 1 /\ k \in 1 .. l - 1 /\ k <= e /\ k - 2 = i - 1
      BY <1>2, <1>3, <1>4, <1>9, <2>1
    <3> QED
      BY <1>1, <3>1 DEF IsGlyph
  <2>3. Place(v, line, k) = CellOf(i - 1, line)
    BY <1>1, <2>2 DEF Place, ColumnOf, RowOfChar
  <2>4. line * COLUMNS \in Int
    BY <1>2 DEF Row
  <2>5. CellOf(i - 1, line) = line * COLUMNS + i - 1
    BY <1>2, <1>3, <2>4 DEF CellOf
  <2> QED
    BY <1>6, <1>8, <2>1, <2>2, <2>3, <2>5
<1>10. ASSUME NEW i \in 1 .. m
       PROVE  video'[Below(line) * COLUMNS + i - 1]
                 = [char |-> Message(v)[i], attribute |-> LightRed]
  <2>1. PICK k : k = e + i
    OBVIOUS
  <2>2. IsGlyph(v, k) /\ k \in 1 .. l - 1 /\ ~(k <= e) /\ k - e - 1 = i - 1
    <3>1. /\ k \in e + 1 .. l - 1 /\ k \in 1 .. l - 1
          /\ ~(k <= e) /\ k - e - 1 = i - 1
      BY <1>2, <1>3, <1>4, <1>10, <2>1
    <3> QED
      BY <1>1, <3>1 DEF IsGlyph
  <2>3. Place(v, line, k) = CellOf(i - 1, Below(line))
    BY <1>1, <2>2 DEF Place, ColumnOf, RowOfChar
  <2>4. Below(line) * COLUMNS \in Int
    BY <1>2 DEF Below, Row
  <2>5. CellOf(i - 1, Below(line)) = Below(line) * COLUMNS + i - 1
    BY <1>2, <2>4 DEF CellOf
  <2>6. R[k].c = Message(v)[i]
    <3>1. R[k] = Char(Message(v)[i])
      BY <1>5, <1>10, <2>1
    <3>2. Char(Message(v)[i]).c = Message(v)[i]
      BY DEF Char
    <3> QED
      BY <3>1, <3>2
  <2> QED
    BY <1>6, <2>2, <2>3, <2>5, <2>6
<1>11. (line + 1) % LINES = Below(line)
  <2>1. LINES \in Nat \ {0} /\ line \in 0 .. LINES - 1
    BY <1>2 DEF Row
  <2>2. CASE line + 1 >= LINES
    <3>1. line + 1 = LINES
      BY <2>1, <2>2
    <3> QED
      BY <2>1, <3>1, Over DEF Below
  <2>3. CASE ~(line + 1 >= LINES)
    <3>1. line + 1 \in 0 .. LINES - 1
      BY <2>1, <2>3
    <3> QED
      BY <2>1, <2>3, <3>1, NotOver DEF Below
  <2> QED
    BY <2>2, <2>3
<1>12. Shows(line, g)'
  BY <1>8, <1>9 DEF Shows
<1>13. Shows(Below(line), Message(v))'
  BY <1>2, <1>10 DEF Shows
<1> QED
  BY <1>7, <1>11, <1>12, <1>13

-----------------------------------------------------------------------------
(* All of it.                                                              *)

\* Who was interrupted in a character stays there while an exception is
\* reported.
Left(q) ==
    /\ OneCharacter(q)
    /\ pc[q] \in {"storeChar", "storeAttribute"} =>
          reg[q] < LINES * COLUMNS + races * (COLUMNS + 1)

FaultInv ==
    /\ status \in {"running", "reporting", "halted"}
    /\ status = "running" => IsVideo(video)
    /\ status = "reporting" =>
          /\ Typed /\ Switches /\ attribute = LightRed
          /\ \A q \in Printers \ {running} : Left(q)
          /\ \E v \in Vectors : \E k \in 1 .. Length(v) : ReportAt(running, v, k)
    /\ status = "halted" => TypeOK /\ WritesNearScreen /\ ReportReadable

LEMMA VideoKept ==
    ASSUME NEW p \in Printers, Acts(p), IsVideo(video)
    PROVE  IsVideo(video')
<1>1. ASSUME NEW i, NEW c, NEW w, w = WithChar(video, i, c) \/ w = WithAttribute(video, i, c)
      PROVE  IsVideo(w)
  <2>1. video = [j \in VideoCells |-> video[j]]
    BY DEF IsVideo
  <2>2. CASE i \notin VideoCells
    <3>1. w = video
      BY <1>1, <2>1, <2>2 DEF WithChar, WithAttribute
    <3> QED
      BY <3>1
  <2>3. CASE i \in VideoCells
    <3>1. PICK a, b : video[i] = [char |-> a, attribute |-> b]
      BY <2>3 DEF IsVideo, Lit
    <3>2. /\ w = [j \in VideoCells |-> w[j]]
          /\ \A j \in VideoCells \ {i} : w[j] = video[j]
      BY <1>1, <2>1 DEF WithChar, WithAttribute
    <3>3. CASE w = WithChar(video, i, c)
      <4>1. w[i] = [[char |-> a, attribute |-> b] EXCEPT !.char = c]
        BY <2>1, <2>3, <3>1, <3>3 DEF WithChar
      <4>2. w[i] = [char |-> c, attribute |-> b]
        BY <4>1
      <4>3. w[i] = Lit(w[i].char, w[i].attribute)
        BY <4>2 DEF Lit
      <4> QED
        BY <3>2, <4>3 DEF IsVideo
    <3>4. CASE w = WithAttribute(video, i, c)
      <4>1. w[i] = [[char |-> a, attribute |-> b] EXCEPT !.attribute = c]
        BY <2>1, <2>3, <3>1, <3>4 DEF WithAttribute
      <4>2. w[i] = [char |-> a, attribute |-> c]
        BY <4>1
      <4>3. w[i] = Lit(w[i].char, w[i].attribute)
        BY <4>2 DEF Lit
      <4> QED
        BY <3>2, <4>3 DEF IsVideo
    <3> QED
      BY <1>1, <3>3, <3>4
  <2> QED
    BY <2>2, <2>3
<1>2. \/ video' = video
      \/ video' = WithChar(video, reg[p], Head(todo[p]).c)
      \/ video' = WithAttribute(video, reg[p], attribute)
  BY DEF Acts, Loads, WithChar, WithAttribute
<1> QED
  BY <1>1, <1>2

LEMMA TypedKept ==
    ASSUME Typed, NEW p \in Printers, Acts(p)
    PROVE  /\ Typed'
           /\ \A q \in Printers \ {p} :
                 pc'[q] = pc[q] /\ todo'[q] = todo[q] /\ reg'[q] = reg[q]
<1>0. COLUMNS \in Nat
  BY ScreenAssumption
<1>1. x' \in Nat /\ y' \in Nat /\ reg' \in [Printers -> Nat]
  BY <1>0 DEF Typed, Acts, Loads
<1>2. pc' \in [Printers -> PC]
  BY DEF Typed, Acts, Goes, Ends, CharDone, Goto, PC
<1>3. DOMAIN todo' = Printers
      /\ \A q \in Printers \ {p} : todo'[q] = todo[q]
  BY DEF Typed, Acts, Goes, Ends, CharDone
<1>4. \A q \in Printers \ {p} : pc'[q] = pc[q]
  BY DEF Typed, Acts, Goes, Ends, CharDone, Goto
<1>5. \A q \in Printers \ {p} : reg'[q] = reg[q]
  BY DEF Typed, Acts, Loads
<1> QED
  BY <1>1, <1>2, <1>3, <1>4, <1>5 DEF Typed

LEMMA EmptyRests ==
    ASSUME NEW q \in Printers, OneCharacter(q)
    PROVE  (todo[q] = <<>>) <=> (pc[q] = "rest")
<1>1. \A c : <<Char(c)>> # <<>>
  OBVIOUS
<1> QED
  BY <1>1 DEF OneCharacter

\* While a report is printed, variables and writes are as they should be.
LEMMA ReportSound ==
    ASSUME Typed, Switches, status = "reporting", attribute = LightRed,
           \A q \in Printers \ {running} : Left(q),
           NEW v \in Vectors, NEW k \in 1 .. Length(v), ReportAt(running, v, k)
    PROVE  TypeOK /\ WritesNearScreen /\ pc[running] # "rest"
<1>0. /\ COLUMNS \in Nat /\ COLUMNS > 0 /\ LINES \in Nat /\ LINES > 0
      /\ running \in Printers /\ races \in Nat /\ races \in 0 .. MaxRaces
  BY ScreenAssumption DEF Switches
<1>1. pc[running] # "rest"
  BY DEF ReportAt, GlyphAt, BreakAt
<1>2. todo[running] # <<>>
  <2>1. PICK t : t = From(v, k)
    OBVIOUS
  <2>2. Len(t) = Length(v) - k + 1 /\ Length(v) \in Nat
    BY <2>1, FromShape, ReportShape
  <2>3. Len(t) > 0
    BY <2>2
  <2>4. t # <<>>
    BY <2>3
  <2> QED
    BY <2>1, <2>4 DEF ReportAt
<1>3. \A q \in Printers : (todo[q] = <<>>) <=> (pc[q] = "rest")
  BY <1>1, <1>2, EmptyRests DEF Left
<1>4. TypeOK
  BY <1>0, <1>3 DEF TypeOK, Typed
<1>5. ASSUME pc[running] \in {"storeChar", "storeAttribute"}
      PROVE  reg[running] < LINES * COLUMNS + races * (COLUMNS + 1)
  <2>1. PICK line, cells :
           /\ line \in Row
           /\ IsGlyph(v, k)
           /\ GlyphAt(running, cells, ColumnOf(v, k), RowOfChar(v, line, k),
                      Report(v)[k].c)
    BY <1>5 DEF ReportAt, BreakAt
  <2>2. reg[running] = Place(v, line, k)
    BY <1>5, <2>1 DEF GlyphAt, Place
  <2>3. PICK column \in Column, row \in Row : reg[running] = CellOf(column, row)
    BY <2>1, <2>2, GlyphPlaced DEF Place
  <2>4. CellOf(column, row) \in 0 .. LINES * COLUMNS - 1
    BY CellInPage DEF Page
  <2>5. LINES * COLUMNS \in Nat /\ races * (COLUMNS + 1) \in Nat
    BY <1>0
  <2> QED
    BY <2>3, <2>4, <2>5
<1>6. WritesNearScreen
  BY <1>5 DEF WritesNearScreen, Left
<1> QED
  BY <1>1, <1>4, <1>6

LEMMA RunningSound ==
    ASSUME IInv, RunInv, status = "running"
    PROVE  TypeOK /\ WritesNearScreen
<1>1. \A q \in Printers : (todo[q] = <<>>) <=> (pc[q] = "rest")
  BY EmptyRests DEF IInv, LocalsOK
<1> QED
  BY <1>1 DEF IInv, LocalsOK, RunInv, Switches, TypeOK

LEMMA ReportEnds ==
    ASSUME Typed', Switches', status' = "halted", attribute' = LightRed,
           NEW p \in Printers, pc'[p] = "rest", todo'[p] = <<>>,
           \A q \in Printers \ {p} : Left(q)',
           NEW v \in Vectors, NEW line \in Row, Shown(video', v, line, Length(v))
    PROVE  TypeOK' /\ WritesNearScreen' /\ ReportReadable'
<1>1. \A q \in Printers : (todo'[q] = <<>>) <=> (pc'[q] = "rest")
  <2>1. \A c : <<Char(c)>> # <<>>
    OBVIOUS
  <2> QED
    BY <2>1 DEF Left, OneCharacter
<1>2. TypeOK'
  BY <1>1 DEF TypeOK, Typed, Switches
<1>3. WritesNearScreen'
  BY DEF WritesNearScreen, Left
<1>4. ReportReadable'
  BY ReportShows DEF ReportReadable, Row
<1> QED
  BY <1>2, <1>3, <1>4

LEMMA ReportStarts ==
    ASSUME IInv, RunInv, FaultInv, NEW p \in Printers, FaultHandler(p)
    PROVE  FaultInv'
<1>1. /\ status = "running" /\ running = p /\ pc[p] = "rest"
      /\ attribute' = LightRed /\ status' = "reporting"
      /\ pc' = [pc EXCEPT ![p] = "char"]
      /\ UNCHANGED <<video, x, y, running, reg, races>>
  BY DEF FaultHandler, At, Goto, cursor
<1>2. PICK v \in Vectors : todo' = [todo EXCEPT ![p] = Report(v)]
  BY DEF FaultHandler
<1>3. /\ Typed /\ Switches /\ WritesNearScreen /\ IsVideo(video)
      /\ \A q \in Printers : OneCharacter(q)
  BY <1>1 DEF IInv, LocalsOK, RunInv, FaultInv, Typed
<1>4. /\ pc'[p] = "char" /\ todo'[p] = Report(v) /\ Typed'
      /\ \A q \in Printers \ {p} : pc'[q] = pc[q] /\ todo'[q] = todo[q]
  BY <1>1, <1>2, <1>3 DEF Typed, PC
<1>5. \A q \in Printers \ {p} : Left(q)'
  BY <1>1, <1>3, <1>4 DEF Left, OneCharacter, WritesNearScreen
<1>6. 1 \in 1 .. Length(v)
  <2>1. Length(v) \in Nat /\ HeadEnd(v) \in 3 .. COLUMNS + 2 /\ HeadEnd(v) < Length(v)
        /\ COLUMNS \in Nat
    BY ReportShape, ScreenAssumption
  <2> QED
    BY <2>1
<1>7. Report(v) = From(v, 1)
  <2>1. PICK R : R = Report(v)
    OBVIOUS
  <2>2. (\E S : R \in Seq(S)) /\ Len(R) = Length(v)
    BY <2>1, ReportShape
  <2>3. SubSeq(R, 1, Len(R)) = R
    BY <2>2
  <2> QED
    BY <2>1, <2>2, <2>3 DEF From
<1>8. Head(todo'[p]) = Newline
  BY <1>4, <1>6, <1>7, FromShape, ReportShape
<1>9. BreakAt(p, video, y)' /\ y' \in Nat
  BY <1>1, <1>3, <1>4, <1>8 DEF BreakAt, Typed
<1>10. ReportAt(p, v, 1)'
  BY <1>1, <1>3, <1>4, <1>7, <1>9 DEF ReportAt
<1>11. Switches'
  BY <1>1, <1>3 DEF Switches
<1> QED
  BY <1>1, <1>4, <1>5, <1>6, <1>10, <1>11 DEF FaultInv

LEMMA InitFaultInv == Init => FaultInv
<1>1. IsVideo([i \in VideoCells |-> Blank])
  BY DEF IsVideo, Lit, Blank
<1> QED
  BY <1>1 DEF Init, FaultInv, Empty

LEMMA NextFaultInv == IInv /\ RunInv /\ FaultInv /\ [Next]_vars => FaultInv'
<1> SUFFICES ASSUME IInv, RunInv, FaultInv, [Next]_vars PROVE FaultInv'
  OBVIOUS
<1>1. CASE UNCHANGED vars
  BY <1>1 DEF vars, cursor, locals, FaultInv, Typed, Switches, Left, OneCharacter,
              ReportAt, GlyphAt, BreakAt, TypeOK, WritesNearScreen, ReportReadable, Shows
<1>2. ASSUME NEW p \in Printers, Step(p)
      PROVE  FaultInv'
  <2>1. /\ Acts(p) /\ running = p /\ pc[p] # "rest" /\ status # "halted"
        /\ UNCHANGED <<running, attribute, races>>
    BY <1>2, StepActs
  <2>2. CASE status = "running"
    <3>1. status' = "running"
      BY <2>1, <2>2 DEF Acts, Goes, Ends, CharDone
    <3>2. IsVideo(video')
      BY <2>1, <2>2, VideoKept DEF FaultInv
    <3> QED
      BY <3>1, <3>2 DEF FaultInv
  <2>3. CASE status = "reporting"
    <3>1. /\ Typed /\ Switches /\ attribute = LightRed
          /\ \A q \in Printers \ {p} : Left(q)
      BY <2>1, <2>3 DEF FaultInv
    <3>2. PICK v \in Vectors : \E k \in 1 .. Length(v) : ReportAt(p, v, k)
      BY <2>1, <2>3 DEF FaultInv
    <3>3. PICK k \in 1 .. Length(v) : ReportAt(p, v, k)
      BY <3>2
    <3>4. \/ status' = "reporting" /\ \E j \in 1 .. Length(v) : ReportAt(p, v, j)'
          \/ /\ status' = "halted" /\ pc'[p] = "rest" /\ todo'[p] = <<>>
             /\ \E line \in Row : Shown(video', v, line, Length(v))
      BY <2>1, <2>3, <3>1, <3>3, ReportStep
    <3>5. Typed' /\ Switches' /\ attribute' = LightRed
      BY <2>1, <3>1, TypedKept DEF Switches
    <3>6. \A q \in Printers \ {p} : Left(q)'
      BY <2>1, <3>1, TypedKept DEF Left, OneCharacter
    <3>7. CASE status' = "reporting" /\ \E j \in 1 .. Length(v) : ReportAt(p, v, j)'
      BY <2>1, <3>5, <3>6, <3>7 DEF FaultInv
    <3>8. CASE /\ status' = "halted" /\ pc'[p] = "rest" /\ todo'[p] = <<>>
               /\ \E line \in Row : Shown(video', v, line, Length(v))
      <4>1. TypeOK' /\ WritesNearScreen' /\ ReportReadable'
        BY <3>5, <3>6, <3>8, ReportEnds
      <4> QED
        BY <3>8, <4>1 DEF FaultInv
    <3> QED
      BY <3>4, <3>7, <3>8
  <2> QED
    BY <2>1, <2>2, <2>3 DEF FaultInv
<1>3. ASSUME NEW p \in Printers, PrintString(p)
      PROVE  FaultInv'
  <2>1. status # "halted" /\ running = p /\ pc[p] = "rest" /\ UNCHANGED <<video, status>>
    BY <1>3 DEF PrintString, At
  <2>2. status = "running"
    BY <2>1, ReportSound DEF FaultInv
  <2> QED
    BY <2>1, <2>2 DEF FaultInv
<1>4. ASSUME NEW p \in Printers, Switch(p)
      PROVE  FaultInv'
  BY <1>4 DEF Switch, Interruptible, FaultInv
<1>5. ASSUME NEW p \in Printers, FaultHandler(p)
      PROVE  FaultInv'
  BY <1>5, ReportStarts
<1> QED
  BY <1>1, <1>2, <1>3, <1>4, <1>5 DEF Next

LEMMA Invariance == Spec => [](IInv /\ RunInv /\ FaultInv)
<1>1. Init => IInv /\ RunInv /\ FaultInv
  BY InitIInv, InitRunInv, InitFaultInv
<1>2. IInv /\ RunInv /\ FaultInv /\ [Next]_vars => (IInv /\ RunInv /\ FaultInv)'
  BY NextIInv, NextRunInv, NextFaultInv
<1> QED
  BY <1>1, <1>2, PTL DEF Spec

LEMMA ScreenSound ==
    ASSUME IInv, RunInv, FaultInv
    PROVE  TypeOK /\ WritesNearScreen /\ ReportReadable
<1>1. CASE status = "running"
  BY <1>1, RunningSound DEF ReportReadable
<1>2. CASE status = "reporting"
  BY <1>2, ReportSound DEF FaultInv, ReportReadable
<1>3. CASE status = "halted"
  BY <1>3 DEF FaultInv
<1> QED
  BY <1>1, <1>2, <1>3 DEF FaultInv

\* The cursor and the registers are numbers and who is in a character has one
\* to print, for any processes, screen, reports and interleavings.
THEOREM ScreenTypes == Spec => []TypeOK
<1>1. IInv /\ RunInv /\ FaultInv => TypeOK
  BY ScreenSound
<1> QED
  BY <1>1, Invariance, PTL

\* Each interrupt of a process within a character takes what is written one
\* line and one column further from the screen, and nothing else does.
THEOREM WritesStayNear == Spec => []WritesNearScreen
<1>1. IInv /\ RunInv /\ FaultInv => WritesNearScreen
  BY ScreenSound
<1> QED
  BY <1>1, Invariance, PTL

\* The report of an exception can be read once it is printed, wherever in
\* their characters other processes were interrupted before.
THEOREM ReportsReadable == Spec => []ReportReadable
<1>1. IInv /\ RunInv /\ FaultInv => ReportReadable
  BY ScreenSound
<1> QED
  BY <1>1, Invariance, PTL
=============================================================================
