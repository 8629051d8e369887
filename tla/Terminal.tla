------------------------------ MODULE Terminal ------------------------------
(***************************************************************************)
(* What the screen promises to whoever prints: characters one behind the   *)
(* other, from line to line and from the last line to the first.           *)
(***************************************************************************)
EXTENDS Integers

CONSTANTS
    Columns, Lines,
    Characters

VARIABLES
    cells,          \* what is on the screen
    cursor          \* the cell the next character goes to

Cells == 0 .. Lines * Columns - 1

\* A character at the cursor, which moves on.
Put(c) ==
    /\ cells' = [cells EXCEPT ![cursor] = c]
    /\ cursor' = (cursor + 1) % (Lines * Columns)

\* To the start of the next line; what is there stays.
NewLine ==
    /\ cursor' = (cursor \div Columns + 1) * Columns % (Lines * Columns)
    /\ UNCHANGED cells

Init == cursor = 0 /\ cells \in [Cells -> Characters]

Next == NewLine \/ \E c \in Characters : Put(c)
=============================================================================
