-------------------------- MODULE ScreenProperties --------------------------
(***************************************************************************)
(* What must hold of the screen, over the actions of module Screen.        *)
(***************************************************************************)
EXTENDS Screen

PC == {"rest", "char", "loadX", "loadY", "storeChar", "loadXAgain",
       "loadYAgain", "storeAttribute", "incrementX", "storeX", "testX",
       "resetX", "incrementY", "storeY", "testY", "resetY"}

Page == 0 .. LINES * COLUMNS - 1
Character == [c : STRING, by : {"printChar", "printInt"}]

\* The cursor and the registers are numbers, and who is in a character has
\* one to print.
TypeOK ==
    /\ x \in Nat /\ y \in Nat
    /\ reg \in [Printers -> Nat]
    /\ attribute \in {White, LightRed}
    /\ running \in Printers
    /\ pc \in [Printers -> PC]
    /\ DOMAIN todo = Printers
    /\ \A p \in Printers : (todo[p] = <<>>) <=> (pc[p] = "rest")
    /\ status \in {"running", "reporting", "halted"}
    /\ races \in 0 .. MaxRaces

\* Whenever nobody is in the middle of printChar, the cursor is on the screen,
\* however often the timer switched within characters before: who has moved it
\* behind an end, or another who comes later, moves it back.
AtRest ==
    status = "running" /\ (\A p \in Printers : pc[p] = "rest")
        => x < COLUMNS /\ y < LINES

\* With each race what processes write to video memory may come one line and one
\* column further behind the screen's end, and no further: a process switched
\* away from between y++ and its test lets others print a whole line there, one
\* between x++ and its test a character (printChar).
WritesNearScreen ==
    \A p \in Printers :
        pc[p] \in {"storeChar", "storeAttribute"} =>
            reg[p] < LINES * COLUMNS + races * (COLUMNS + 1)

\* The screen as it was when nobody was printing.
T == INSTANCE Terminal WITH
        Columns <- COLUMNS,
        Lines <- LINES,
        Characters <- [char : Glyphs \cup {"NUL"}, attribute : {White, "black"}],
        cells <- [cell \in Page |-> settled.cells[cell]],
        cursor <- settled.cursor

\* printChar is the terminal's step, whatever the timer does between two
\* characters: characters are neither lost nor put elsewhere until a process
\* is switched away from within one.
KeepsTerminal ==
    /\ T!Init
    /\ [][races' > 0 \/ status' # "running" \/ T!Next]_settled

\* What the cells from the start of a line hold, as far as it is glyphs.
Shows(line, glyphs) ==
    \A i \in DOMAIN glyphs :
        video[line * COLUMNS + i - 1] = [char |-> glyphs[i], attribute |-> LightRed]

Digits(v) == [i \in 1 .. Num(v) |-> PrintInt(v)[i].c]

\* A report of an exception can be read, in whatever character other processes
\* were interrupted: it stands in light red from the start of a line, its
\* message on the line below, and nothing is printed over it (fault_handler).
ReportReadable ==
    status = "halted" =>
        \E line \in 0 .. LINES - 1, v \in Vectors :
            /\ Shows(line, ReportHead \o Digits(v))
            /\ Shows((line + 1) % LINES, Message(v))
=============================================================================
