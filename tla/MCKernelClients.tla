--------------------------- MODULE MCKernelClients ---------------------------
(***************************************************************************)
(* The kernel's requests at the sizes and addresses of the source: a heap  *)
(* of 32 MB less its index, pages of 1024 words.                           *)
(***************************************************************************)
EXTENDS KernelClients

HeapStart == 805306368 + 131072     \* START and INDEX_SIZE entries
HeapEnd == 805306368 + 8388608      \* START + INITIAL_SIZE

\* The sizes around which the files' array fills the first hole it fits.
FewFiles == {0, 1, 27, 28, 29, 30, 31, 32}
=============================================================================
