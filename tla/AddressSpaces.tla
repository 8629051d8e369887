--------------------------- MODULE AddressSpaces ---------------------------
(***************************************************************************)
(* What paging promises to the processes of the kernel: every process has  *)
(* an address space of its own.  Some pages are the kernel's and are the   *)
(* same memory in every space; the others are private to a space, start    *)
(* as a copy of the forking space's and are independent from then on.      *)
(* No frame, table or directory is mentioned: module Paging implements it. *)
(***************************************************************************)
EXTENDS Naturals

CONSTANTS
    Spaces,     \* names of address spaces (page directories)
    Shared,     \* the kernel's pages: one copy for all spaces
    Private,    \* pages each space has its own copy of
    Values,     \* what a page can hold
    Blank,      \* what memory holds when the machine starts
    NoSpace     \* "no space is current yet"

VARIABLES
    shared,     \* contents of the kernel's pages
    private,    \* private[d][v]: contents of page v of space d; its domain
                \* is the set of spaces that exist
    current     \* the space the processor runs in

vars == <<shared, private, current>>

Init ==
    /\ shared = [v \in Shared |-> Blank]
    /\ private = [d \in {} |-> Blank]
    /\ current = NoSpace

\* The kernel's first process appears, in a space with blank private pages.
Start(d) ==
    /\ DOMAIN private = {}
    /\ private' = [e \in {d} |-> [v \in Private |-> Blank]]
    /\ current' = d
    /\ UNCHANGED shared

\* The current space is copied into a new one.
Fork(d) ==
    /\ current # NoSpace
    /\ d \notin DOMAIN private
    /\ private' = [e \in DOMAIN private \cup {d} |->
                     private[IF e = d THEN current ELSE e]]
    /\ UNCHANGED <<shared, current>>

Switch(d) ==
    /\ d \in DOMAIN private
    /\ current' = d
    /\ UNCHANGED <<shared, private>>

StoreShared(v, x) ==
    /\ current # NoSpace
    /\ shared' = [shared EXCEPT ![v] = x]
    /\ UNCHANGED <<private, current>>

StorePrivate(v, x) ==
    /\ current # NoSpace
    /\ private' = [private EXCEPT ![current][v] = x]
    /\ UNCHANGED <<shared, current>>

Next ==
    \/ \E d \in Spaces : Start(d) \/ Fork(d) \/ Switch(d)
    \/ \E v \in Shared, x \in Values : StoreShared(v, x)
    \/ \E v \in Private, x \in Values : StorePrivate(v, x)

Spec == Init /\ [][Next]_vars
=============================================================================
