------------------------ MODULE KernelHeapProperties ------------------------
(***************************************************************************)
(* What must hold of the kernel's heap, over the actions of KernelHeap.    *)
(***************************************************************************)
EXTENDS KernelHeap

\* Clients the heap serves: none asks for page alignment, none frees a block in
\* front of a hole that another block follows, and they hold fewer blocks than
\* the index has entries.
PlainClients ==
    /\ Discipline # "any"
    /\ \A r \in Requests : ~r.pageAlign
    /\ MaxLive < IndexSize

\* The heap's variables stay in their ranges, and no word written so far
\* lies outside of the heap; the index names no hole twice.
TypeOK ==
    /\ status \in {"running", "spinning", "wild"}
    /\ status = "running" => \A a \in DOMAIN mem : Start <= a /\ a < End
    /\ \A a \in DOMAIN mem : mem[a] = MAGIC \/ (0 <= mem[a] /\ mem[a] < WordMod)
    /\ Len(index) <= IndexSize + 1
    /\ IsInjective(index)
    /\ \A p \in DOMAIN live : live[p].word \in Words \cup {NoWord}

\* The words of the block at p.
Data(p) == p .. p + live[p].size - 1

\* Blocks in use lie in the heap, do not overlap, and those asked for page
\* aligned are page aligned (allocate).
BlocksSound ==
    /\ \A p \in DOMAIN live :
          /\ Data(p) \subseteq Start + HeaderSize .. End - 1
          /\ live[p].pageAlign => p % PageSize = 0
    /\ \A p, q \in DOMAIN live : p < q => p + live[p].size <= q

\* Only its client changes the data of a block: no allocate or free of
\* another block writes a header, a footer or a size into it.
DataPreserved ==
    \A p \in DOMAIN live : live[p].word # NoWord =>
        \A a \in Data(p) : mem[a] = live[p].word

Holes == {index[i] : i \in DOMAIN index}
Blocks == {Header(p) : p \in DOMAIN live}

\* Holes of the index and blocks of the clients tile the heap, each with the
\* size its header says: nothing is lost and nothing is in two pieces.
Tiled ==
    status = "running" =>
        /\ Holes \cap Blocks = {}
        /\ Start \in Holes \cup Blocks
        /\ \A t \in Holes \cup Blocks :
              /\ IsMagic(mem, t) /\ IsHole(mem, t) = (t \in Holes)
              /\ Size(mem, t) > 0
              /\ t + Size(mem, t) \in Holes \cup Blocks \cup {End}
              /\ \A u \in Holes \cup Blocks : t < u => t + Size(mem, t) <= u

\* First fit in address order needs an index in address order.
IndexOrdered ==
    \A i, j \in DOMAIN index : i < j => index[i] < index[j]

\* A legal client never makes the heap spin or leave its memory.
NeverStops == status = "running"

\* Neighbouring holes are merged: a freed block merges with both sides.
Coalesced ==
    status = "running" =>
        \A h \in Holes : h + Size(mem, h) \notin Holes

-----------------------------------------------------------------------------
(* What the source says of itself, and does not keep.                      *)

\* "Make sure we actually found the item": a hole that is merged on the right
\* is in the index.
RightMergeFound == status # "spinning"
=============================================================================
