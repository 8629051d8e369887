------------------------------ MODULE MCPaging ------------------------------
(***************************************************************************)
(* Instances of Paging for TLC.  The geometry keeps the shape of the real  *)
(* one: a directory takes two pages and a bit, the bitmap half a page, the *)
(* heap and the stack lie in slots of their own, the stack over two slots  *)
(* with its top page in the second.                                        *)
(***************************************************************************)
EXTENDS PagingProperties

\* Bits found set when the bitmap is laid out: one inside it, one behind it.
MCGarbage == {3, 20}
NoGarbage == {}

\* A page of the kernel image, two pages of the stack, and a page next to the
\* stack that no table maps.
MCDataPages == {0, 34, 35, 38}
NoPages == {}

\* The stack's top page may be given to freeFrame.
MCFreeable == {36}
=============================================================================
