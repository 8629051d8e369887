------------------------------ MODULE Processes ------------------------------
(***************************************************************************)
(* What the scheduler promises to the programs it runs: a process is a     *)
(* line of execution of its own.  Only the process that has the processor  *)
(* moves, a fork goes on in two processes, with the child's pid in one and *)
(* 0 in the other, and having the processor taken away and given back      *)
(* changes nothing.  No stack, no register and no list is mentioned:       *)
(* module Sheduler implements it.                                          *)
(***************************************************************************)
EXTENDS Naturals, Sequences, Functions

CONSTANTS
    Pids,       \* process identifiers, without 0
    First       \* the identifier of the first process

VARIABLES
    history,    \* history[p]: what fork has returned to p, in order; its
                \* domain is the set of processes
    running     \* the process that has the processor

vars == <<history, running>>

Init ==
    /\ history = [p \in {First} |-> <<>>]
    /\ running = First

Fork(child) ==
    /\ child \notin DOMAIN history
    /\ history' = [p \in DOMAIN history \cup {child} |->
                      CASE p = running -> Append(history[p], child)
                        [] p = child -> Append(history[running], 0)
                        [] OTHER -> history[p]]
    /\ UNCHANGED running

Switch(p) ==
    /\ p \in DOMAIN history
    /\ running' = p
    /\ UNCHANGED history

Next == \E p \in Pids : Fork(p) \/ Switch(p)

Spec == Init /\ [][Next]_vars
=============================================================================
