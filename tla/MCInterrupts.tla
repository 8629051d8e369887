---------------------------- MODULE MCInterrupts ----------------------------
(***************************************************************************)
(* An instance of Interrupts for TLC: stubs as far apart as addresses can  *)
(* differ in every byte of the low three.                                  *)
(***************************************************************************)
EXTENDS InterruptsProperties

MCStub == [v \in Installed |-> 2 ^ 20 + v * 66051]
=============================================================================
