----------------------------- MODULE KernelHeap -----------------------------
(***************************************************************************)
(* The kernel's heap, src/source/kernel_heap.cpp, with the ordered index   *)
(* of its holes, OrderedArray in src/source/utils/array.cpp.               *)
(*                                                                         *)
(* Headers and footers lie in the same memory as the clients' data, so     *)
(* memory is modelled word by word: a header is the three words magic_,    *)
(* isHole_ and size_, a footer the two words magic_ and header_.  Sizes    *)
(* and addresses are in words and wrap around at WordMod as unsigned int   *)
(* does.  Only words something was written to are in the domain of mem;    *)
(* the others are 0.                                                       *)
(*                                                                         *)
(* Definitions marked as slips are small mistakes of the kind the          *)
(* properties are there to catch; the model does not use them.             *)
(***************************************************************************)
EXTENDS Integers, Sequences, FiniteSets, SequencesExt

CONSTANTS
    PageSize,       \* words of a page
    Start,          \* startAddress_: where the first header is
    End,            \* endAddress_
    IndexSize,      \* INDEX_SIZE: entries the index has room for
    WordMod,        \* addresses and sizes are taken modulo this
    Requests,       \* what clients ask for: records [size, pageAlign]
    Words,          \* what clients write into their blocks
    MaxLive,        \* bound: blocks allocated at the same time
    Discipline      \* which blocks clients free, see MayFree

MAGIC == -1
HeaderSize == 3     \* sizeof(Header)
FooterSize == 2     \* sizeof(Footer)
NoWord == -2        \* the client has not written the block yet

ASSUME HeapAssumption ==
    /\ {PageSize, Start, IndexSize, WordMod} \subseteq Nat \ {0}
    /\ End \in Nat
    /\ Start % PageSize = 0 /\ End % PageSize = 0
    /\ Start + HeaderSize <= End /\ End < WordMod
    /\ \A r \in Requests : r.size \in Nat /\ r.pageAlign \in BOOLEAN
    /\ Words \subseteq 0 .. WordMod - 1
    /\ MaxLive \in Nat
    /\ Discipline \in {"any", "guarded", "never"}

VARIABLES
    mem,        \* words of memory
    index,      \* index_: headers of the holes, ordered by address
    status,     \* "running", "spinning" in a for(;;), "wild" after touching
                \* memory that is not the heap's
    live        \* what the clients hold: for the pointer p, live[p] is the
                \* request and the word the client filled the block with

vars == <<mem, index, status, live>>

-----------------------------------------------------------------------------
(* Memory.                                                                 *)

U(n) == n % WordMod
Read(m, a) == IF a \in DOMAIN m THEN m[a] ELSE 0

\* m with the words s written from address a on.
Put(m, a, s) ==
    LET written == a .. a + Len(s) - 1
    IN  [x \in DOMAIN m \cup written |->
            IF x \in written THEN s[x - a + 1] ELSE m[x]]

HeaderWords(isHole, size) == <<MAGIC, isHole, size>>
FooterWords(header) == <<MAGIC, header>>

IsMagic(m, a) == Read(m, a) = MAGIC
IsHole(m, h) == Read(m, h + 1) # 0
Size(m, h) == Read(m, h + 2)

-----------------------------------------------------------------------------
(* The index.                                                              *)

\* Slip: a new hole goes to the end, as in the unordered Array.
AddLast(idx, h) == Append(idx, h)

\* OrderedArray::add: before the first entry that is not smaller.
Add(idx, h) ==
    LET i == SelectInSeq(idx, LAMBDA x : x >= h)
    IN  IF i = 0 THEN Append(idx, h) ELSE InsertAt(idx, i, h)

\* Slip: an entry that is merged away stays.
NeverErase(idx, h) == idx

\* The loop over the index and erase: nothing if h is not in it.
Erase(idx, h) ==
    LET i == SelectInSeq(idx, LAMBDA x : x = h)
    IN  IF i = 0 THEN idx ELSE RemoveAt(idx, i)

-----------------------------------------------------------------------------
(* findSmallestHole.                                                       *)

\* Words from a hole to the header that puts its data on the next page.
AlignOffset(h) ==
    IF (h + HeaderSize) % PageSize # 0
    THEN PageSize - ((h + HeaderSize) % PageSize)
    ELSE 0

\* Slip: the first hole taken.
FitsAnyHole(m, h, need, pageAlign) == IsHole(m, h)

\* The comparison of an aligned request is between int and unsigned int and
\* so unsigned: a hole smaller than the offset counts as a huge one.
Fits(m, h, need, pageAlign) ==
    /\ IsHole(m, h)
    /\ IF pageAlign THEN U(Size(m, h) - AlignOffset(h)) >= need
                    ELSE Size(m, h) >= need

\* The first hole that fits, in the order of addresses; 0 if there is none.
FindSmallestHole(need, pageAlign) ==
    SelectInSeq(index, LAMBDA h : Fits(mem, h, need, pageAlign))

-----------------------------------------------------------------------------
(* allocate.                                                               *)

\* The part of a page in front of an aligned block.
FrontSize(h) == U(PageSize - (h % PageSize) - HeaderSize)

\* Slip: too small a rest is split off as a hole of its own.
TotalAlwaysSplit(holeSize, need) == need

\* A hole that leaves no room for another header and footer is used whole.
Total(holeSize, need) ==
    IF U(holeSize - need) < HeaderSize + FooterSize THEN holeSize ELSE need

\* The hole in front of an aligned block keeps the hole's header and gets a
\* footer right before the block's.  Nothing asks whether it has room for
\* either.
FrontHole(m, hole, block) ==
    Put(Put(m, hole, HeaderWords(1, FrontSize(hole))),
        block - FooterSize, FooterWords(hole))

Block(m, block, total) ==
    Put(Put(m, block, HeaderWords(0, total)),
        block + total - FooterSize, FooterWords(block))

\* The hole after the block; a footer beyond the heap's end is not written.
RestHole(m, rest, size) ==
    LET footer == U(rest + size - FooterSize)
        m1 == Put(m, rest, HeaderWords(1, size))
    IN  IF footer < End THEN Put(m1, footer, FooterWords(rest)) ELSE m1

\* allocate(size, pageAlign), when findSmallestHole finds entry i.  The room
\* left is computed from the size_ word in front as it is after the front
\* hole's footer was written.
AllocateFrom(i, size, pageAlign) ==
    LET need == size + HeaderSize + FooterSize
        hole == index[i]
        total == Total(Size(mem, hole), need)
        inFront == pageAlign /\ (hole + HeaderSize) % PageSize # 0
        block == IF inFront THEN hole + PageSize - (hole % PageSize) - HeaderSize
                            ELSE hole
        m1 == IF inFront THEN FrontHole(mem, hole, block) ELSE mem
        room == IF inFront THEN U(Size(mem, hole) - Size(m1, hole))
                           ELSE Size(mem, hole)
        m2 == Block(m1, block, total)
        rest == U(room - total)
        m3 == IF rest > 0 THEN RestHole(m2, block + total, rest) ELSE m2
        kept == IF inFront THEN index ELSE RemoveAt(index, i)
        idx == IF rest > 0 THEN Add(kept, block + total) ELSE kept
    IN  /\ mem' = m3
        /\ index' = idx
        /\ live' = [p \in DOMAIN live \cup {block + HeaderSize} |->
                       IF p = block + HeaderSize
                       THEN [size |-> size, pageAlign |-> pageAlign, word |-> NoWord]
                       ELSE live[p]]
        /\ status' = IF DOMAIN m3 \subseteq Start .. End - 1 /\ Len(idx) <= IndexSize
                     THEN "running" ELSE "wild"

Allocate(size, pageAlign) ==
    /\ status = "running"
    /\ Cardinality(DOMAIN live) < MaxLive
    /\ LET i == FindSmallestHole(size + HeaderSize + FooterSize, pageAlign)
       IN  i # 0 /\ AllocateFrom(i, size, pageAlign)

\* allocate returns 0 and changes nothing.
AllocateFails(size, pageAlign) ==
    /\ status = "running"
    /\ FindSmallestHole(size + HeaderSize + FooterSize, pageAlign) = 0
    /\ UNCHANGED vars

-----------------------------------------------------------------------------
(* free.                                                                   *)

Header(p) == p - HeaderSize
Footer(p) == Header(p) + Size(mem, Header(p)) - FooterSize

\* Slip: the hole on the left is never merged.
NeverMergeLeft(m, header) == FALSE

\* The word before the header is a footer of a hole.
MergesLeft(m, header) ==
    /\ IsMagic(m, header - FooterSize)
    /\ IsHole(m, Read(m, header - FooterSize + 1))

MoveFooter(m, footer, left) == Put(m, footer + 1, <<left>>)

MergesRight(m, next) == IsMagic(m, next) /\ IsHole(m, next)

SetSize(m, h, size) == Put(m, h + 2, <<U(size)>>)

\* free(p), past the checks of the block's own magic numbers.  A merge to the
\* right does not touch the footer of the hole that is merged, which goes on
\* naming that hole's header.
FreeBlock(p) ==
    LET header == Header(p)
        footer == Footer(p)
        next == footer + FooterSize
        m1 == Put(mem, header + 1, <<1>>)
        left == MergesLeft(m1, header)
        hole == IF left THEN Read(m1, header - FooterSize + 1) ELSE header
        m2 == IF left
              THEN SetSize(MoveFooter(m1, footer, hole), hole,
                           Size(m1, hole) + Size(m1, header))
              ELSE m1
        right == MergesRight(m2, next)
        m3 == IF right THEN SetSize(m2, hole, Size(m2, hole) + Size(m2, next))
                       ELSE m2
        once == Erase(index, next)
        kept == IF right THEN Erase(once, next) ELSE once
        idx == IF left THEN kept ELSE Add(kept, hole)
    IN  IF next >= End
        THEN /\ status' = "wild"        \* the word after the heap is read
             /\ UNCHANGED <<mem, index>>
        ELSE IF right /\ ~Contains(index, next)
        THEN /\ status' = "spinning"    \* "rigth merge, free failed"
             /\ mem' = m3
             /\ UNCHANGED index
        ELSE /\ mem' = m3
             /\ index' = idx
             /\ status' = IF DOMAIN m3 \subseteq Start .. End - 1
                             /\ Len(idx) <= IndexSize
                          THEN "running" ELSE "wild"

\* The disciplines: free whatever is live; free a block only if the memory
\* right behind it is a live block or the hole that ends the heap; never
\* free, as the kernel does.
MayFree(p) ==
    LET next == Footer(p) + FooterSize
    IN  \/ Discipline = "any"
        \/ /\ Discipline = "guarded"
           /\ \/ next + HeaderSize \in DOMAIN live
              \/ next < End /\ \A q \in DOMAIN live : q < next

Free(p) ==
    /\ status = "running"
    /\ p \in DOMAIN live
    /\ MayFree(p)
    /\ IF IsMagic(mem, Header(p)) /\ IsMagic(mem, Footer(p))
       THEN FreeBlock(p)
       ELSE /\ status' = "spinning"     \* "free failed: bad heap magic"
            /\ UNCHANGED <<mem, index>>
    /\ live' = [q \in DOMAIN live \ {p} |-> live[q]]

-----------------------------------------------------------------------------
\* A client writes all of its block.
Fill(p, w) ==
    /\ status = "running"
    /\ p \in DOMAIN live
    /\ mem' = Put(mem, p, [i \in 1 .. live[p].size |-> w])
    /\ live' = [live EXCEPT ![p].word = w]
    /\ UNCHANGED <<index, status>>

\* KernelHeap::init: one hole, with a header and no footer.
Init ==
    /\ mem = Put([a \in {} |-> 0], Start, HeaderWords(1, End - Start))
    /\ index = <<Start>>
    /\ status = "running"
    /\ live = [p \in {} |-> 0]

Next ==
    \/ \E r \in Requests : \/ Allocate(r.size, r.pageAlign)
                           \/ AllocateFails(r.size, r.pageAlign)
    \/ \E p \in DOMAIN live : Free(p)
    \/ \E p \in DOMAIN live, w \in Words : Fill(p, w)

Spec == Init /\ [][Next]_vars
=============================================================================
