------------------------------- MODULE Screen -------------------------------
(***************************************************************************)
(* The screen of src/source/screen.cpp, as processes print on it that the  *)
(* timer switches between.                                                 *)
(*                                                                         *)
(* The kernel is compiled without optimisation: the members x, y and       *)
(* attribute_ are read from memory and written back by instructions of     *)
(* their own, and an interrupt may come between any two.  Each access to   *)
(* one of them is a step; reg is the register between a load and what is   *)
(* done with it.  An exception is reported with interrupts disabled.       *)
(*                                                                         *)
(* Definitions marked as slips are small mistakes of the kind the          *)
(* properties are there to catch; the model does not use them.             *)
(***************************************************************************)
EXTENDS Integers, Sequences, SequencesExt

CONSTANTS
    Printers,       \* processes
    COLUMNS, LINES,
    Glyphs,         \* characters that programs print
    Vectors,        \* numbers of exceptions without a handler of their own
    ReportHead,     \* "EXCEPTION  ": glyphs
    Message(_),     \* exception_messages: glyphs by vector
    MaxRaces        \* bound: how often a process is interrupted in a character

ASSUME ScreenAssumption ==
    /\ {COLUMNS, LINES} \subseteq Nat \ {0}
    /\ MaxRaces \in Nat
    /\ Vectors \subseteq 0 .. 31

\* What is said of an exception has room: the head with a number of two digits
\* on one line, the message on the next.
IsLine(glyphs) ==
    /\ glyphs \in Seq(STRING)
    /\ \A i \in DOMAIN glyphs : glyphs[i] # "newline"

ASSUME ReportAssumption ==
    /\ LINES > 1
    /\ IsLine(ReportHead) /\ Len(ReportHead) + 2 <= COLUMNS
    /\ \A v \in Vectors : IsLine(Message(v)) /\ Len(Message(v)) < COLUMNS

VARIABLES
    video,          \* video memory: character and attribute of each cell
    x, y,           \* the cursor
    attribute,      \* attribute_
    running,        \* the process that has the processor
    pc,             \* per process: the next access in printChar, or "rest"
    todo,           \* per process: characters to print, the current one first
    reg,            \* per process: what it has loaded
    status,         \* "running"; "reporting" an exception; "halted" after it
    races,          \* interrupts of a process in a character, up to now
    settled         \* history: the screen when nobody was printing last

cursor == <<x, y>>
locals == <<pc, todo, reg>>
vars == <<video, cursor, attribute, running, locals, status, races, settled>>

White == "white"
LightRed == "lightRed"
Blank == [char |-> "NUL", attribute |-> "black"]

\* Cells of video memory that are reached: the screen, one line and some.
VideoCells == 0 .. (LINES + MaxRaces + 1) * COLUMNS + MaxRaces

\* Characters of printChar; and digits, which printInt writes itself.  Only
\* reports print numbers so: programs print them with printHex, by printChar.
Char(c) == [c |-> c, by |-> "printChar"]
Digit(d) == [c |-> ToString(d), by |-> "printInt"]
Newline == Char("newline")
Chars(glyphs) == [i \in DOMAIN glyphs |-> Char(glyphs[i])]

\* printInt: the digits of k from the first; num counts them.
Num(k) == CHOOSE n \in 1 .. 10 : k < 10 ^ n /\ (n = 1 \/ 10 ^ (n - 1) <= k)
PrintInt(k) == [i \in 1 .. Num(k) |-> Digit((k \div 10 ^ (Num(k) - i)) % 10)]

-----------------------------------------------------------------------------
(* printChar, access by access.                                            *)

At(p, label) == status # "halted" /\ running = p /\ pc[p] = label

Goto(p, label) == pc' = [pc EXCEPT ![p] = label]
Load(p, value) == reg' = [reg EXCEPT ![p] = value]
Unload(p) == Load(p, 0)         \* not read again

\* Nothing is printed.
Empty == [cells |-> [cell \in VideoCells |-> Blank], cursor |-> 0]

\* The screen is as all processes have left it, if none is in a character.
\* History ends with the first race and with an exception.
Settle ==
    settled' = IF races' > 0 \/ status' # "running" THEN Empty
               ELSE IF \A p \in Printers : pc'[p] = "rest"
               THEN [cells |-> video', cursor |-> x' + y' * COLUMNS]
               ELSE settled

\* Slip: without i++.
CharAgain(p) ==
    /\ IF Len(todo[p]) > 1 THEN Goto(p, "char") ELSE Goto(p, "rest")
    /\ UNCHANGED <<todo, status>>

\* A character is done: the next one, or the program goes on; a report ends
\* in for(;;).
CharDone(p) ==
    /\ todo' = [todo EXCEPT ![p] = Tail(@)]
    /\ IF Len(todo[p]) > 1
       THEN Goto(p, "char") /\ UNCHANGED status
       ELSE /\ Goto(p, "rest")
            /\ status' = IF status = "reporting" THEN "halted" ELSE status

\* Slip: a newline goes straight down.
PrintCharDown(p) ==
    /\ At(p, "char")
    /\ Goto(p, IF Head(todo[p]) = Newline THEN "incrementY" ELSE "loadX")
    /\ UNCHANGED <<video, cursor, attribute, running, todo, reg, status, races>>

\* c != '\n'
PrintChar(p) ==
    /\ At(p, "char")
    /\ Goto(p, IF Head(todo[p]) = Newline THEN "resetX" ELSE "loadX")
    /\ UNCHANGED <<video, cursor, attribute, running, todo, reg, status, races>>

\* Slip: the page starts on the second line of video memory.
CellBelow(column) == column + (y + 1) * COLUMNS

\* The cell (x + y * COLUMNS), from x and then y.
Cell(column) == column + y * COLUMNS

LoadX(p) ==
    /\ pc[p] \in {"loadX", "loadXAgain"} /\ At(p, pc[p])
    /\ Load(p, x)
    /\ Goto(p, IF pc[p] = "loadX" THEN "loadY" ELSE "loadYAgain")
    /\ UNCHANGED <<video, cursor, attribute, running, todo, status, races>>

LoadY(p) ==
    /\ pc[p] \in {"loadY", "loadYAgain"} /\ At(p, pc[p])
    /\ Load(p, Cell(reg[p]))
    /\ Goto(p, IF pc[p] = "loadY" THEN "storeChar" ELSE "storeAttribute")
    /\ UNCHANGED <<video, cursor, attribute, running, todo, status, races>>

StoreChar(p) ==
    /\ At(p, "storeChar")
    /\ video' = [video EXCEPT ![reg[p]].char = Head(todo[p]).c]
    /\ Unload(p)
    /\ Goto(p, "loadXAgain")
    /\ UNCHANGED <<cursor, attribute, running, todo, status, races>>

StoreAttribute(p) ==
    /\ At(p, "storeAttribute")
    /\ video' = [video EXCEPT ![reg[p]].attribute = attribute]
    /\ Unload(p)
    /\ Goto(p, "incrementX")
    /\ UNCHANGED <<cursor, attribute, running, todo, status, races>>

\* x++ loads x and stores it.
IncrementX(p) ==
    /\ At(p, "incrementX")
    /\ Load(p, x)
    /\ Goto(p, "storeX")
    /\ UNCHANGED <<video, cursor, attribute, running, todo, status, races>>

\* Behind a digit printInt does not look where the cursor is.
StoreX(p) ==
    /\ At(p, "storeX")
    /\ x' = reg[p] + 1
    /\ Unload(p)
    /\ IF Head(todo[p]).by = "printInt"
       THEN CharDone(p)
       ELSE Goto(p, "testX") /\ UNCHANGED <<todo, status>>
    /\ UNCHANGED <<video, y, attribute, running, races>>

\* Slip: the cursor may stand behind the last column.
LineFullLate == x > COLUMNS

LineFull == x >= COLUMNS
ScreenFull == y >= LINES

TestX(p) ==
    /\ At(p, "testX")
    /\ IF LineFull
       THEN Goto(p, "resetX") /\ UNCHANGED <<todo, status>>
       ELSE CharDone(p)
    /\ UNCHANGED <<video, cursor, attribute, running, reg, races>>

ResetX(p) ==
    /\ At(p, "resetX")
    /\ x' = 0
    /\ Goto(p, "incrementY")
    /\ UNCHANGED <<video, y, attribute, running, todo, reg, status, races>>

IncrementY(p) ==
    /\ At(p, "incrementY")
    /\ Load(p, y)
    /\ Goto(p, "storeY")
    /\ UNCHANGED <<video, cursor, attribute, running, todo, status, races>>

StoreY(p) ==
    /\ At(p, "storeY")
    /\ y' = reg[p] + 1
    /\ Unload(p)
    /\ Goto(p, "testY")
    /\ UNCHANGED <<video, x, attribute, running, todo, status, races>>

TestY(p) ==
    /\ At(p, "testY")
    /\ IF ScreenFull
       THEN Goto(p, "resetY") /\ UNCHANGED <<todo, status>>
       ELSE CharDone(p)
    /\ UNCHANGED <<video, cursor, attribute, running, reg, races>>

ResetY(p) ==
    /\ At(p, "resetY")
    /\ y' = 0
    /\ CharDone(p)
    /\ UNCHANGED <<video, x, attribute, running, reg, races>>

-----------------------------------------------------------------------------
(* Who prints what, and when.                                              *)

\* A program prints a character.
PrintString(p) ==
    /\ At(p, "rest")
    /\ \E c \in Glyphs \cup {"newline"} : todo' = [todo EXCEPT ![p] = <<Char(c)>>]
    /\ Goto(p, "char")
    /\ UNCHANGED <<video, cursor, attribute, running, reg, status, races>>

\* What fault_handler prints.
Report(v) ==
    <<Newline>> \o Chars(ReportHead) \o PrintInt(v) \o <<Newline>>
        \o Chars(Message(v)) \o <<Newline>>

\* An exception without a handler of its own in a program, with interrupts
\* disabled from here on.
FaultHandler(p) ==
    /\ At(p, "rest") /\ status = "running"
    /\ attribute' = LightRed
    /\ \E v \in Vectors : todo' = [todo EXCEPT ![p] = Report(v)]
    /\ Goto(p, "char")
    /\ status' = "reporting"
    /\ UNCHANGED <<video, cursor, running, reg, races>>

\* Slip: exceptions with interrupts enabled.
AlwaysInterruptible == TRUE

Interruptible == status = "running"

\* The timer switches to another process, and the interrupt that one was
\* switched away in ends with setTextColor.
Switch(p) ==
    /\ Interruptible /\ running # p
    /\ races' = IF pc[running] = "rest" THEN races ELSE races + 1
    /\ races' <= MaxRaces
    /\ running' = p
    /\ attribute' = White
    /\ UNCHANGED <<video, cursor, locals, status>>

\* After Screen() and clean().
Init ==
    /\ video = Empty.cells
    /\ x = 0 /\ y = 0
    /\ attribute = White
    /\ running \in Printers
    /\ pc = [p \in Printers |-> "rest"]
    /\ todo = [p \in Printers |-> <<>>]
    /\ reg = [p \in Printers |-> 0]
    /\ status = "running"
    /\ races = 0
    /\ settled = Empty

Step(p) ==
    \/ PrintChar(p) \/ LoadX(p) \/ LoadY(p) \/ StoreChar(p) \/ StoreAttribute(p)
    \/ IncrementX(p) \/ StoreX(p) \/ TestX(p) \/ ResetX(p)
    \/ IncrementY(p) \/ StoreY(p) \/ TestY(p) \/ ResetY(p)

Next == \E p \in Printers :
            (Step(p) \/ PrintString(p) \/ FaultHandler(p) \/ Switch(p)) /\ Settle

Spec == Init /\ [][Next]_vars
=============================================================================
