---------------------------- MODULE MCKernelHeap ----------------------------
(***************************************************************************)
(* Instances of KernelHeap for TLC: heaps of a few blocks.                 *)
(***************************************************************************)
EXTENDS KernelHeapProperties

R(size, pageAlign) == [size |-> size, pageAlign |-> pageAlign]

\* Blocks of 8 and 9 words: in a heap of 28 words the last hole is split in
\* some orders of allocation and used whole in others.
PlainRequests == {R(3, FALSE), R(4, FALSE)}

\* Blocks of 6 and 8 words: a hole of 14 words can be split into both.
SmallRequests == {R(1, FALSE), R(3, FALSE)}

\* The instance in which blocks are freed only where free merges rightly is
\* one of those the proofs are about.
ASSUME GuardedIsPlain == Discipline = "guarded" => PlainClients
=============================================================================
