-------------------------- MODULE KernelHeapProofs --------------------------
(***************************************************************************)
(* Proofs about KernelHeap, for heaps, pages, requests and words of every  *)
(* size, as long as clients are plain (PlainClients).                      *)
(*                                                                         *)
(* Holes and blocks are tiles that lie side by side, each marked by the    *)
(* words the code goes by: the header's magic number, isHole_ and size_,   *)
(* and, unless it is a hole that ends the heap, a footer that names the    *)
(* header.  So the word in front of a block tells free whether a hole ends *)
(* there, and the word behind it whether one begins there.  Two things the *)
(* marks do not give are added: no two holes are neighbours, and behind    *)
(* each hole but the last is a block of a client's, which bounds the holes *)
(* by the blocks and so by the room the index has.                         *)
(***************************************************************************)
EXTENDS KernelHeapProperties, FiniteSetTheorems, SequenceTheorems,
        WellFoundedInduction, TLAPS

-----------------------------------------------------------------------------
(* The invariant.                                                          *)

\* Addresses of the words something was written to.
Written(m) == DOMAIN m

\* Tiles lie side by side from the heap's start to its end.
Tiling(T, m) ==
    /\ Start \in T
    /\ \A t \in T :
          /\ t \in Nat /\ Start <= t /\ t < End
          /\ Size(m, t) \in Nat /\ Size(m, t) > 0
          /\ t + Size(m, t) \in T \cup {End}
          /\ t = Start \/ \E s \in T : s + Size(m, s) = t
    /\ \A t, u \in T : t < u => t + Size(m, t) <= u

FooterOf(m, t) == t + Size(m, t) - FooterSize

HasFooter(m, t) ==
    /\ Size(m, t) >= HeaderSize + FooterSize
    /\ IsMagic(m, FooterOf(m, t)) /\ Read(m, FooterOf(m, t) + 1) = t

\* A hole that is not the heap's end has a footer.
HoleMarked(m, t) ==
    /\ IsMagic(m, t) /\ Read(m, t + 1) = 1
    /\ Size(m, t) >= HeaderSize
    /\ t + Size(m, t) < End => HasFooter(m, t)

BlockMarked(m, t) ==
    /\ IsMagic(m, t) /\ Read(m, t + 1) = 0
    /\ HasFooter(m, t)

\* The holes H and the blocks B are the heap's tiles, and the memory m says so.
Marked(m, H, B) ==
    /\ H \cap B = {}
    /\ Tiling(H \cup B, m)
    /\ \A t \in H : HoleMarked(m, t)
    /\ \A t \in B : BlockMarked(m, t)

Apart(m, H) == \A h \in H : h + Size(m, h) \notin H

\* The d words of data in the tile at u.
Keeps(m, u, d, w) ==
    \A x \in u + HeaderSize .. u + HeaderSize + d - 1 : x \in Written(m) /\ Read(m, x) = w

\* A block has room for its client's data, which are as the client left them.
Holds(m, p, block) ==
    /\ block \in [size : Nat, pageAlign : {FALSE}, word : Words \cup {NoWord}]
    /\ block.size + HeaderSize + FooterSize <= Size(m, Header(p))
    /\ block.word # NoWord => Keeps(m, Header(p), block.size, block.word)

Held == \A p \in DOMAIN live : Holds(mem, p, live[p])

Word == {MAGIC} \cup 0 .. WordMod - 1

Worded(m) ==
    /\ Written(m) \subseteq Start .. End - 1
    /\ \A a \in Int : Read(m, a) \in Word

IndexOK ==
    /\ index \in Seq(Nat)
    /\ IndexOrdered

LiveOK ==
    /\ DOMAIN live \subseteq Nat
    /\ IsFiniteSet(DOMAIN live)
    /\ Cardinality(DOMAIN live) <= MaxLive

HInv ==
    /\ Worded(mem)
    /\ IndexOK
    /\ LiveOK
    /\ Marked(mem, Holes, Blocks)
    /\ Apart(mem, Holes)
    /\ Held
    /\ NeverStops

-----------------------------------------------------------------------------
(* Memory.                                                                 *)

\* A number of the heap's does not wrap around.
LEMMA NotWrapped ==
    ASSUME NEW n \in Nat, n < WordMod
    PROVE  U(n) = n
<1>1. WordMod \in Nat /\ WordMod > 0
  BY HeapAssumption
<1> QED
  BY <1>1 DEF U

\* What Put writes is read there, and the rest is as it was.
LEMMA PutOne ==
    ASSUME NEW m, NEW a \in Int, NEW v \in Int, NEW r, r = Put(m, a, <<v>>)
    PROVE  /\ Written(r) = Written(m) \cup {a}
           /\ Read(r, a) = v
           /\ \A x \in Int \ {a} : Read(r, x) = Read(m, x)
<1>1. a .. a + Len(<<v>>) - 1 = {a}
  OBVIOUS
<1> QED
  BY <1>1 DEF Put, Read, Written

LEMMA PutHeader ==
    ASSUME NEW m, NEW a \in Int, NEW isHole \in Int, NEW size \in Int,
           NEW r, r = Put(m, a, HeaderWords(isHole, size))
    PROVE  /\ Written(r) = Written(m) \cup {a, a + 1, a + 2}
           /\ Read(r, a) = MAGIC /\ Read(r, a + 1) = isHole /\ Read(r, a + 2) = size
           /\ \A x \in Int \ {a, a + 1, a + 2} : Read(r, x) = Read(m, x)
<1> DEFINE s == HeaderWords(isHole, size)
<1>1. Len(s) = 3 /\ s[1] = MAGIC /\ s[2] = isHole /\ s[3] = size
  BY DEF HeaderWords
<1>2. a .. a + Len(s) - 1 = {a, a + 1, a + 2}
  BY <1>1
<1> HIDE DEF s
<1>3. Written(Put(m, a, s)) = Written(m) \cup {a, a + 1, a + 2}
  BY <1>2 DEF Put, Written
<1>4. \A x \in {a, a + 1, a + 2} : Read(Put(m, a, s), x) = s[x - a + 1]
  BY <1>2 DEF Put, Read, Written
<1>5. \A x \in Int \ {a, a + 1, a + 2} : Read(Put(m, a, s), x) = Read(m, x)
  BY <1>2 DEF Put, Read, Written
<1>6. a - a + 1 = 1 /\ (a + 1) - a + 1 = 2 /\ (a + 2) - a + 1 = 3
  OBVIOUS
<1> QED
  BY <1>1, <1>3, <1>4, <1>5, <1>6 DEF s

LEMMA PutFooter ==
    ASSUME NEW m, NEW a \in Int, NEW header \in Int,
           NEW r, r = Put(m, a, FooterWords(header))
    PROVE  /\ Written(r) = Written(m) \cup {a, a + 1}
           /\ Read(r, a) = MAGIC /\ Read(r, a + 1) = header
           /\ \A x \in Int \ {a, a + 1} : Read(r, x) = Read(m, x)
<1> DEFINE s == FooterWords(header)
<1>1. Len(s) = 2 /\ s[1] = MAGIC /\ s[2] = header
  BY DEF FooterWords
<1>2. a .. a + Len(s) - 1 = {a, a + 1}
  BY <1>1
<1> HIDE DEF s
<1>3. Written(Put(m, a, s)) = Written(m) \cup {a, a + 1}
  BY <1>2 DEF Put, Written
<1>4. \A x \in {a, a + 1} : Read(Put(m, a, s), x) = s[x - a + 1]
  BY <1>2 DEF Put, Read, Written
<1>5. \A x \in Int \ {a, a + 1} : Read(Put(m, a, s), x) = Read(m, x)
  BY <1>2 DEF Put, Read, Written
<1>6. a - a + 1 = 1 /\ (a + 1) - a + 1 = 2
  OBVIOUS
<1> QED
  BY <1>1, <1>3, <1>4, <1>5, <1>6 DEF s

-----------------------------------------------------------------------------
(* The index.                                                              *)

Increasing(s) == \A i, j \in DOMAIN s : i < j => s[i] < s[j]
Elements(s) == {s[i] : i \in DOMAIN s}

\* Any set of positions has a first.
LEMMA FirstPosition ==
    ASSUME NEW T, T \subseteq Nat, T # {}
    PROVE  Min(T) \in T /\ \A i \in T : Min(T) <= i
<1>1. PICK x \in T : \A y \in T : ~(<<y, x>> \in OpToRel(<, Nat))
  BY NatLessThanWellFounded, WFMin
<1>2. \A y \in T : ~(y < x)
  <2>1. \A y \in T : y < x => <<y, x>> \in OpToRel(<, Nat)
    BY Zenon DEF OpToRel
  <2> QED
    BY <1>1, <2>1
<1>3. \A y \in T : x <= y
  BY <1>2
<1>4. Min(T) = CHOOSE z \in T : \A y \in T : z =< y
  BY DEF Min
<1> QED
  BY <1>3, <1>4, Zenon

LEMMA RemoveAtKeeps ==
    ASSUME NEW s \in Seq(Nat), Increasing(s), NEW i \in 1 .. Len(s)
    PROVE  /\ RemoveAt(s, i) \in Seq(Nat)
           /\ Len(RemoveAt(s, i)) = Len(s) - 1
           /\ Increasing(RemoveAt(s, i))
           /\ Elements(RemoveAt(s, i)) = Elements(s) \ {s[i]}
<1>1. PICK n : n = Len(s)
  OBVIOUS
<1>2. n \in Nat /\ i \in 1 .. n /\ DOMAIN s = 1 .. n /\ \A k \in 1 .. n : s[k] \in Nat
  BY <1>1, LenProperties, ElementOfSeq
<1>3. PICK j, k : j = i - 1 /\ k = i + 1
  OBVIOUS
<1>4. /\ j \in Int /\ k \in Int /\ 1 \in Int /\ n \in Int
      /\ \A x \in 1 .. j : s[x] \in Nat
      /\ \A x \in k .. n : s[x] \in Nat
  BY <1>2, <1>3
<1>5. PICK a, b : a = SubSeq(s, 1, j) /\ b = SubSeq(s, k, n)
  OBVIOUS
<1>6. /\ a \in Seq(Nat) /\ Len(a) = (IF 1 <= j THEN j - 1 + 1 ELSE 0)
      /\ \A x \in 1 .. j - 1 + 1 : a[x] = s[1 + x - 1]
  BY <1>4, <1>5, SubSeqProperties
<1>7. /\ b \in Seq(Nat) /\ Len(b) = (IF k <= n THEN n - k + 1 ELSE 0)
      /\ \A x \in 1 .. n - k + 1 : b[x] = s[k + x - 1]
  BY <1>4, <1>5, SubSeqProperties
<1>8. Len(a) = i - 1 /\ Len(b) = n - i /\ Len(a) \in Nat /\ Len(b) \in Nat
  BY <1>2, <1>3, <1>6, <1>7
<1>9. PICK r : r = a \o b
  OBVIOUS
<1>10. /\ r \in Seq(Nat) /\ Len(r) = Len(a) + Len(b)
       /\ \A x \in 1 .. Len(a) + Len(b) : r[x] = IF x <= Len(a) THEN a[x] ELSE b[x - Len(a)]
  BY <1>6, <1>7, <1>9, ConcatProperties
<1>11. r = RemoveAt(s, i)
  BY <1>1, <1>3, <1>5, <1>9 DEF RemoveAt
<1>12. /\ Len(r) = n - 1 /\ DOMAIN r = 1 .. n - 1
  BY <1>2, <1>8, <1>10, LenProperties
<1>13. \A x \in 1 .. n - 1 : r[x] = IF x < i THEN s[x] ELSE s[x + 1]
  <2> SUFFICES ASSUME NEW x \in 1 .. n - 1 PROVE r[x] = IF x < i THEN s[x] ELSE s[x + 1]
    OBVIOUS
  <2>1. CASE x < i
    <3>1. x \in 1 .. j - 1 + 1 /\ 1 + x - 1 = x /\ x <= Len(a) /\ x \in 1 .. Len(a) + Len(b)
      BY <1>2, <1>3, <1>8, <2>1
    <3> QED
      BY <2>1, <3>1, <1>6, <1>10
  <2>2. CASE ~(x < i)
    <3>1. PICK y : y = x - Len(a)
      OBVIOUS
    <3>2. y \in 1 .. n - k + 1 /\ k + y - 1 = x + 1 /\ ~(x <= Len(a)) /\ x \in 1 .. Len(a) + Len(b)
      BY <1>2, <1>3, <1>8, <2>2, <3>1
    <3> QED
      BY <2>2, <3>1, <3>2, <1>7, <1>10
  <2> QED
    BY <2>1, <2>2
<1>14. Increasing(r)
  <2> SUFFICES ASSUME NEW x \in 1 .. n - 1, NEW y \in 1 .. n - 1, x < y PROVE r[x] < r[y]
    BY <1>12 DEF Increasing
  <2>1. PICK u \in 1 .. n, v \in 1 .. n : u < v /\ r[x] = s[u] /\ r[y] = s[v]
    <3>1. PICK u, v : u = (IF x < i THEN x ELSE x + 1) /\ v = (IF y < i THEN y ELSE y + 1)
      OBVIOUS
    <3>2. u \in 1 .. n /\ v \in 1 .. n /\ u < v
      BY <1>2, <3>1
    <3>3. r[x] = s[u] /\ r[y] = s[v]
      BY <1>13, <3>1
    <3> QED
      BY <3>2, <3>3
  <2> QED
    BY <1>2, <2>1 DEF Increasing
<1>15. ASSUME NEW k1 \in 1 .. n, k1 # i PROVE s[k1] \in Elements(r) /\ s[k1] # s[i]
  <2>1. s[k1] # s[i]
    <3>1. k1 < i \/ i < k1
      BY <1>2, <1>15
    <3> QED
      BY <1>2, <3>1 DEF Increasing
  <2>2. PICK x : x = IF k1 < i THEN k1 ELSE k1 - 1
    OBVIOUS
  <2>3. x \in 1 .. n - 1 /\ k1 = IF x < i THEN x ELSE x + 1
    BY <1>2, <1>15, <2>2
  <2>4. r[x] = s[k1]
    BY <1>13, <2>3
  <2> QED
    BY <1>12, <2>1, <2>3, <2>4 DEF Elements
<1>16. ASSUME NEW x \in 1 .. n - 1 PROVE r[x] \in Elements(s) \ {s[i]}
  <2>1. PICK u \in 1 .. n : u # i /\ r[x] = s[u]
    <3>1. PICK u : u = IF x < i THEN x ELSE x + 1
      OBVIOUS
    <3>2. u \in 1 .. n /\ u # i
      BY <1>2, <3>1
    <3>3. r[x] = s[u]
      BY <1>13, <3>1
    <3> QED
      BY <3>2, <3>3
  <2> QED
    BY <1>2, <1>15, <2>1 DEF Elements
<1>17. Elements(r) = Elements(s) \ {s[i]}
  <2>1. Elements(r) \subseteq Elements(s) \ {s[i]}
    BY <1>12, <1>16 DEF Elements
  <2>2. Elements(s) \ {s[i]} \subseteq Elements(r)
    BY <1>2, <1>15 DEF Elements
  <2> QED
    BY <2>1, <2>2
<1> QED
  BY <1>1, <1>10, <1>11, <1>12, <1>14, <1>17

LEMMA FirstNotBelow ==
    ASSUME NEW s \in Seq(Nat), NEW h \in Nat
    PROVE  LET i == SelectInSeq(s, LAMBDA x : x >= h)
           IN  \/ i = 0 /\ \A k \in 1 .. Len(s) : s[k] < h
               \/ i \in 1 .. Len(s) /\ s[i] >= h /\ \A k \in 1 .. i - 1 : s[k] < h
<1>0. Len(s) \in Nat /\ \A k \in 1 .. Len(s) : s[k] \in Nat
  BY LenProperties, ElementOfSeq
<1>1. PICK I : I = {k \in 1 .. Len(s) : s[k] >= h}
  OBVIOUS
<1>2. SelectInSeq(s, LAMBDA x : x >= h) = IF I # {} THEN Min(I) ELSE 0
  BY <1>1, Zenon DEF SelectInSeq
<1>3. CASE I = {}
  <2>1. \A k \in 1 .. Len(s) : ~(s[k] >= h)
    BY <1>1, <1>3
  <2>2. \A k \in 1 .. Len(s) : s[k] < h
    BY <1>0, <2>1
  <2> QED
    BY <1>2, <1>3, <2>2
<1>4. CASE I # {}
  <2>1. I \subseteq Nat
    BY <1>0, <1>1
  <2>2. Min(I) \in I /\ \A k \in I : Min(I) <= k
    BY <1>4, <2>1, FirstPosition
  <2>3. PICK i : i = Min(I)
    OBVIOUS
  <2>4. i \in 1 .. Len(s) /\ s[i] >= h
    BY <1>1, <2>2, <2>3
  <2>5. \A k \in 1 .. i - 1 : s[k] < h
    BY <1>0, <1>1, <2>2, <2>3, <2>4
  <2> QED
    BY <1>2, <1>4, <2>3, <2>4, <2>5
<1> QED
  BY <1>3, <1>4

LEMMA FirstEqual ==
    ASSUME NEW s \in Seq(Nat), NEW h \in Nat
    PROVE  LET i == SelectInSeq(s, LAMBDA x : x = h)
           IN  \/ i = 0 /\ \A k \in 1 .. Len(s) : s[k] # h
               \/ i \in 1 .. Len(s) /\ s[i] = h
<1>0. Len(s) \in Nat
  BY LenProperties
<1>1. PICK I : I = {k \in 1 .. Len(s) : s[k] = h}
  OBVIOUS
<1>2. SelectInSeq(s, LAMBDA x : x = h) = IF I # {} THEN Min(I) ELSE 0
  BY <1>1, Zenon DEF SelectInSeq
<1>3. CASE I = {}
  BY <1>1, <1>2, <1>3
<1>4. CASE I # {}
  <2>1. I \subseteq Nat
    BY <1>0, <1>1
  <2>2. Min(I) \in I
    BY <1>4, <2>1, FirstPosition
  <2> QED
    BY <1>1, <1>2, <1>4, <2>2
<1> QED
  BY <1>3, <1>4

\* findSmallestHole returns a hole of the index that is large enough.
LEMMA HoleFound ==
    ASSUME index \in Seq(Nat), NEW need, FindSmallestHole(need, FALSE) # 0
    PROVE  LET i == FindSmallestHole(need, FALSE)
           IN  i \in 1 .. Len(index) /\ Size(mem, index[i]) >= need
<1>0. Len(index) \in Nat
  BY LenProperties
<1>1. PICK I : I = {k \in 1 .. Len(index) : Fits(mem, index[k], need, FALSE)}
  OBVIOUS
<1>2. FindSmallestHole(need, FALSE) = IF I # {} THEN Min(I) ELSE 0
  BY <1>1, Zenon DEF SelectInSeq, FindSmallestHole
<1>3. I \subseteq Nat /\ I # {}
  <2>1. I \subseteq Nat
    <3>1. I \subseteq 1 .. Len(index)
      BY <1>1, Zenon
    <3> QED
      BY <1>0, <3>1
  <2>2. I # {}
    BY <1>2
  <2> QED
    BY <2>1, <2>2
<1>4. Min(I) \in I
  BY <1>3, FirstPosition
<1> QED
  BY <1>1, <1>2, <1>3, <1>4 DEF Fits

LEMMA EraseKeeps ==
    ASSUME NEW s \in Seq(Nat), Increasing(s), NEW h \in Nat
    PROVE  /\ Erase(s, h) \in Seq(Nat)
           /\ Increasing(Erase(s, h))
           /\ Elements(Erase(s, h)) = Elements(s) \ {h}
<1>1. PICK i : i = SelectInSeq(s, LAMBDA x : x = h)
  OBVIOUS
<1>2. Erase(s, h) = IF i = 0 THEN s ELSE RemoveAt(s, i)
  BY <1>1, Zenon DEF Erase
<1>3. \/ i = 0 /\ \A k \in 1 .. Len(s) : s[k] # h
      \/ i \in 1 .. Len(s) /\ s[i] = h
  BY <1>1, FirstEqual
<1>4. CASE i = 0
  <2>1. DOMAIN s = 1 .. Len(s) /\ Len(s) \in Nat
    BY LenProperties
  <2>2. Elements(s) \ {h} = Elements(s)
    BY <1>3, <1>4, <2>1 DEF Elements
  <2> QED
    BY <1>2, <1>4, <2>2
<1>5. CASE i \in 1 .. Len(s) /\ s[i] = h
  <2>1. i # 0
    BY <1>5
  <2> QED
    BY <1>2, <1>5, <2>1, RemoveAtKeeps
<1> QED
  BY <1>3, <1>4, <1>5

\* A hole is entered where it belongs.
LEMMA AddKeeps ==
    ASSUME NEW s \in Seq(Nat), Increasing(s), NEW h \in Nat, h \notin Elements(s)
    PROVE  /\ Add(s, h) \in Seq(Nat)
           /\ Increasing(Add(s, h))
           /\ Elements(Add(s, h)) = Elements(s) \cup {h}
<1>1. PICK n : n = Len(s)
  OBVIOUS
<1>2. n \in Nat /\ DOMAIN s = 1 .. n /\ \A k \in 1 .. n : s[k] \in Nat
  BY <1>1, LenProperties, ElementOfSeq
<1>3. \A k \in 1 .. n : s[k] # h
  BY <1>2 DEF Elements
\* The place of h, and the sequence with h put there.
<1>4. PICK i \in 1 .. n + 1, r \in Seq(Nat) :
         /\ r = Add(s, h)
         /\ \A k \in 1 .. i - 1 : s[k] < h
         /\ i <= n => h < s[i]
         /\ Len(r) = n + 1
         /\ \A x \in 1 .. n + 1 : r[x] = IF x < i THEN s[x] ELSE IF x = i THEN h ELSE s[x - 1]
  <2>1. PICK j : j = SelectInSeq(s, LAMBDA x : x >= h)
    OBVIOUS
  <2>2. Add(s, h) = IF j = 0 THEN Append(s, h) ELSE InsertAt(s, j, h)
    BY <2>1, Zenon DEF Add
  <2>3. \/ j = 0 /\ \A k \in 1 .. Len(s) : s[k] < h
        \/ j \in 1 .. Len(s) /\ s[j] >= h /\ \A k \in 1 .. j - 1 : s[k] < h
    BY <2>1, FirstNotBelow
  <2>4. CASE j = 0
    <3>1. PICK r : r = Append(s, h)
      OBVIOUS
    <3>2. /\ r \in Seq(Nat) /\ Len(r) = n + 1
          /\ \A x \in 1 .. n : r[x] = s[x]
          /\ r[n + 1] = h
      BY <1>1, <3>1
    <3>3. PICK i : i = n + 1
      OBVIOUS
    <3>4. i \in 1 .. n + 1 /\ ~(i <= n)
      BY <1>2, <3>3
    <3>5. \A k \in 1 .. i - 1 : s[k] < h
      BY <1>1, <1>2, <2>3, <2>4, <3>3
    <3>6. \A x \in 1 .. n + 1 :
            r[x] = IF x < i THEN s[x] ELSE IF x = i THEN h ELSE s[x - 1]
      BY <1>2, <3>2, <3>3
    <3>7. r = Add(s, h)
      BY <2>2, <2>4, <3>1
    <3> QED
      BY <3>2, <3>4, <3>5, <3>6, <3>7
  <2>5. CASE j # 0
    <3>0. j \in 1 .. n /\ h < s[j]
      BY <1>1, <1>2, <1>3, <2>3, <2>5
    <3>1. PICK a, b, m : a = SubSeq(s, 1, m) /\ b = SubSeq(s, j, n) /\ m = j - 1
      OBVIOUS
    <3>2. /\ m \in Int /\ j \in Int /\ 1 \in Int /\ n \in Int
          /\ \A x \in 1 .. m : s[x] \in Nat
          /\ \A x \in j .. n : s[x] \in Nat
      BY <1>2, <3>0, <3>1
    <3>3. /\ a \in Seq(Nat) /\ Len(a) = (IF 1 <= m THEN m - 1 + 1 ELSE 0)
          /\ \A x \in 1 .. m - 1 + 1 : a[x] = s[1 + x - 1]
      BY <3>1, <3>2, SubSeqProperties
    <3>4. /\ b \in Seq(Nat) /\ Len(b) = (IF j <= n THEN n - j + 1 ELSE 0)
          /\ \A x \in 1 .. n - j + 1 : b[x] = s[j + x - 1]
      BY <3>1, <3>2, SubSeqProperties
    <3>5. Len(a) = j - 1 /\ Len(b) = n - j + 1 /\ Len(a) \in Nat /\ Len(b) \in Nat
      BY <1>2, <3>0, <3>1, <3>3, <3>4
    <3>6. PICK c, d, r : c = <<h>> /\ d = a \o c /\ r = d \o b
      OBVIOUS
    <3>7. c \in Seq(Nat) /\ Len(c) = 1 /\ c[1] = h
      BY <3>6
    <3>8. /\ d \in Seq(Nat) /\ Len(d) = Len(a) + Len(c)
          /\ \A x \in 1 .. Len(a) + Len(c) : d[x] = IF x <= Len(a) THEN a[x] ELSE c[x - Len(a)]
      BY <3>3, <3>6, <3>7, ConcatProperties
    <3>9. /\ r \in Seq(Nat) /\ Len(r) = Len(d) + Len(b)
          /\ \A x \in 1 .. Len(d) + Len(b) : r[x] = IF x <= Len(d) THEN d[x] ELSE b[x - Len(d)]
      BY <3>4, <3>6, <3>8, ConcatProperties
    <3>10. Len(d) = j /\ Len(r) = n + 1
      BY <1>2, <3>0, <3>5, <3>7, <3>8, <3>9
    <3>11. r = Add(s, h)
      BY <1>1, <2>2, <2>5, <3>1, <3>6 DEF InsertAt
    <3>12. ASSUME NEW x \in 1 .. n + 1
           PROVE  r[x] = IF x < j THEN s[x] ELSE IF x = j THEN h ELSE s[x - 1]
      <4>1. CASE x < j
        <5>1. /\ x \in 1 .. Len(d) + Len(b) /\ x <= Len(d) /\ x \in 1 .. Len(a) + Len(c)
              /\ x <= Len(a) /\ x \in 1 .. m - 1 + 1 /\ 1 + x - 1 = x
          BY <1>2, <3>0, <3>1, <3>5, <3>7, <3>10, <4>1
        <5> QED
          BY <3>3, <3>8, <3>9, <4>1, <5>1
      <4>2. CASE x = j
        <5>1. /\ x \in 1 .. Len(d) + Len(b) /\ x <= Len(d) /\ x \in 1 .. Len(a) + Len(c)
              /\ ~(x <= Len(a)) /\ x - Len(a) = 1 /\ ~(x < j)
          BY <1>2, <3>0, <3>1, <3>5, <3>7, <3>10, <4>2
        <5> QED
          BY <3>7, <3>8, <3>9, <4>2, <5>1
      <4>3. CASE x > j
        <5>1. PICK y : y = x - Len(d)
          OBVIOUS
        <5>2. /\ x \in 1 .. Len(d) + Len(b) /\ ~(x <= Len(d)) /\ y \in 1 .. n - j + 1
              /\ j + y - 1 = x - 1 /\ ~(x < j) /\ x # j
          BY <1>2, <3>0, <3>5, <3>10, <4>3, <5>1
        <5> QED
          BY <3>4, <3>9, <5>1, <5>2
      <4> QED
        BY <1>2, <3>0, <4>1, <4>2, <4>3
    <3>13. j \in 1 .. n + 1 /\ j <= n
      BY <1>2, <3>0
    <3>14. \A k \in 1 .. j - 1 : s[k] < h
      BY <1>1, <2>3, <2>5
    <3> QED
      BY <3>0, <3>9, <3>10, <3>11, <3>12, <3>13, <3>14
  <2> QED
    BY <2>4, <2>5
<1>5. DOMAIN r = 1 .. n + 1
  BY <1>2, <1>4, LenProperties
<1>6. \A k \in 1 .. n : IF k < i THEN s[k] < h ELSE h < s[k]
  <2> SUFFICES ASSUME NEW k \in 1 .. n PROVE IF k < i THEN s[k] < h ELSE h < s[k]
    OBVIOUS
  <2>1. CASE k < i
    BY <1>2, <1>4, <2>1
  <2>2. CASE k = i
    BY <1>2, <1>4, <2>2
  <2>3. CASE i < k
    <3>0. i \in 1 .. n /\ i <= n
      BY <1>2, <2>3
    <3>2. s[i] < s[k]
      BY <1>2, <2>3, <3>0 DEF Increasing
    <3>1. s[i] < s[k] /\ h < s[i] /\ s[i] \in Nat /\ s[k] \in Nat
      BY <1>2, <1>4, <3>0, <3>2
    <3> QED
      BY <1>2, <2>3, <3>1
  <2> QED
    BY <1>2, <2>1, <2>2, <2>3
<1>7. Increasing(r)
  <2> SUFFICES ASSUME NEW x \in 1 .. n + 1, NEW y \in 1 .. n + 1, x < y PROVE r[x] < r[y]
    BY <1>5 DEF Increasing
  <2>1. CASE x # i /\ y # i
    <3>1. PICK u, v : u = (IF x < i THEN x ELSE x - 1) /\ v = (IF y < i THEN y ELSE y - 1)
      OBVIOUS
    <3>2. u \in 1 .. n /\ v \in 1 .. n /\ u < v
      BY <1>2, <2>1, <3>1
    <3>3. r[x] = s[u] /\ r[y] = s[v]
      BY <1>4, <2>1, <3>1
    <3> QED
      BY <1>2, <3>2, <3>3 DEF Increasing
  <2>2. CASE x = i
    <3>1. y - 1 \in 1 .. n /\ ~(y - 1 < i) /\ ~(y < i) /\ y # i
      BY <1>2, <2>2
    <3> QED
      BY <1>4, <1>6, <2>2, <3>1
  <2>3. CASE y = i
    <3>1. x \in 1 .. n /\ x < i
      BY <1>2, <2>3
    <3> QED
      BY <1>4, <1>6, <2>3, <3>1
  <2> QED
    BY <2>1, <2>2, <2>3
<1>8. \A k \in 1 .. n : s[k] \in Elements(r)
  <2> SUFFICES ASSUME NEW k \in 1 .. n PROVE \E x \in 1 .. n + 1 : r[x] = s[k]
    BY <1>5 DEF Elements
  <2>1. PICK x : x = IF k < i THEN k ELSE k + 1
    OBVIOUS
  <2>2. x \in 1 .. n + 1 /\ x # i /\ k = IF x < i THEN x ELSE x - 1
    BY <1>2, <2>1
  <2> QED
    BY <1>4, <2>2
<1>9. \A x \in 1 .. n + 1 : r[x] \in Elements(s) \cup {h}
  <2>0. r[i] = h
    BY <1>4
  <2> SUFFICES ASSUME NEW x \in 1 .. n + 1, x # i PROVE \E k \in 1 .. n : r[x] = s[k]
    BY <1>2, <2>0 DEF Elements
  <2>1. PICK k : k = IF x < i THEN x ELSE x - 1
    OBVIOUS
  <2>2. k \in 1 .. n
    BY <1>2, <2>1
  <2> QED
    BY <1>4, <2>1, <2>2
<1>10. h \in Elements(r)
  BY <1>4, <1>5 DEF Elements
<1>11. Elements(r) = Elements(s) \cup {h}
  <2>1. Elements(r) \subseteq Elements(s) \cup {h}
    BY <1>5, <1>9 DEF Elements
  <2>2. Elements(s) \cup {h} \subseteq Elements(r)
    BY <1>2, <1>8, <1>10 DEF Elements
  <2> QED
    BY <2>1, <2>2
<1> QED
  BY <1>4, <1>7, <1>11

-----------------------------------------------------------------------------
(* Tiles.                                                                  *)

LEMMA TilesSame ==
    ASSUME NEW T, NEW m, Tiling(T, m), NEW m2, \A t \in T : Size(m2, t) = Size(m, t)
    PROVE  Tiling(T, m2)
BY DEF Tiling

LEMMA SplitTile ==
    ASSUME NEW T, NEW m, Tiling(T, m), NEW t \in T, NEW n \in Nat,
           0 < n, n < Size(m, t),
           NEW m2, Size(m2, t) = n, Size(m2, t + n) = Size(m, t) - n,
           \A u \in T \ {t} : Size(m2, u) = Size(m, u)
    PROVE  t + n \notin T /\ Tiling(T \cup {t + n}, m2)
<1>1. PICK b, z : b = t + n /\ z = Size(m, t)
  OBVIOUS
<1>2. /\ t \in Nat /\ z \in Nat /\ Start <= t /\ t < End /\ b \in Nat /\ t < b /\ b < t + z
      /\ t + z \in T \cup {End} /\ Start \in Nat /\ End \in Nat
  BY <1>1, HeapAssumption DEF Tiling
<1>3. \A u \in T : u # t => u + Size(m, u) <= t \/ t + z <= u
  <2> SUFFICES ASSUME NEW u \in T, u # t PROVE u + Size(m, u) <= t \/ t + z <= u
    OBVIOUS
  <2>1. u \in Nat /\ (u < t \/ t < u)
    BY <1>2 DEF Tiling
  <2> QED
    BY <1>1, <2>1 DEF Tiling
<1>4. \A u \in T : u \in Nat /\ Size(m, u) \in Nat /\ Size(m, u) > 0 /\ u < End /\ Start <= u
  BY DEF Tiling
<1>5. b \notin T
  BY <1>2, <1>3, <1>4
<1>6. t + z <= End
  BY <1>2, <1>4
<1>7. /\ Size(m2, t) = n /\ Size(m2, b) = z - n /\ b + (z - n) = t + z
      /\ \A u \in T \ {t} : Size(m2, u) = Size(m, u)
  BY <1>1, <1>2
<1>8. \A u \in T \cup {b} :
        /\ u \in Nat /\ Start <= u /\ u < End
        /\ Size(m2, u) \in Nat /\ Size(m2, u) > 0
        /\ u + Size(m2, u) \in (T \cup {b}) \cup {End}
  <2> SUFFICES ASSUME NEW u \in T \cup {b}
               PROVE  /\ u \in Nat /\ Start <= u /\ u < End
                      /\ Size(m2, u) \in Nat /\ Size(m2, u) > 0
                      /\ u + Size(m2, u) \in (T \cup {b}) \cup {End}
    OBVIOUS
  <2>1. CASE u = t
    BY <1>1, <1>2, <1>7, <2>1
  <2>2. CASE u = b
    <3>1. z - n \in Nat /\ z - n > 0 /\ b < End /\ Start <= b
      BY <1>1, <1>2, <1>6, HeapAssumption
    <3> QED
      BY <1>2, <1>7, <2>2, <3>1
  <2>3. CASE u \in T \ {t}
    BY <1>4, <1>7, <2>3 DEF Tiling
  <2> QED
    BY <2>1, <2>2, <2>3
<1>9. \A u \in T \cup {b} : u = Start \/ \E s \in T \cup {b} : s + Size(m2, s) = u
  <2> SUFFICES ASSUME NEW u \in T \cup {b}, u # Start
               PROVE  \E s \in T \cup {b} : s + Size(m2, s) = u
    OBVIOUS
  <2>1. CASE u = b
    BY <1>1, <1>7, <2>1
  <2>2. CASE u # b
    <3>1. PICK s \in T : s + Size(m, s) = u
      BY <2>2 DEF Tiling
    <3>2. CASE s = t
      <4>1. b + Size(m2, b) = u
        BY <1>1, <1>7, <3>1, <3>2
      <4> QED
        BY <4>1
    <3>3. CASE s # t
      BY <1>7, <3>1, <3>3
    <3> QED
      BY <3>2, <3>3
  <2> QED
    BY <2>1, <2>2
<1>10. \A u, v \in T \cup {b} : u < v => u + Size(m2, u) <= v
  <2> SUFFICES ASSUME NEW u \in T \cup {b}, NEW v \in T \cup {b}, u < v
               PROVE  u + Size(m2, u) <= v
    OBVIOUS
  <2>0. u \in Nat /\ v \in Nat
    BY <1>8
  <2>1. CASE u = t
    <3>1. v = b \/ t + z <= v
      BY <1>2, <1>3, <1>4, <2>0, <2>1
    <3> QED
      BY <1>1, <1>2, <1>7, <2>0, <2>1, <3>1
  <2>2. CASE u = b
    <3>1. v \in T /\ v # t
      BY <1>2, <2>0, <2>2
    <3>2. t + z <= v
      BY <1>2, <1>3, <1>4, <2>0, <2>2, <3>1
    <3> QED
      BY <1>7, <2>2, <3>2
  <2>3. CASE u \in T \ {t} /\ v = b
    <3>1. u + Size(m, u) <= t
      BY <1>2, <1>3, <1>4, <2>0, <2>3
    <3> QED
      BY <1>2, <1>4, <1>7, <2>3, <3>1
  <2>4. CASE u \in T \ {t} /\ v \in T
    BY <1>7, <2>4 DEF Tiling
  <2> QED
    BY <2>1, <2>2, <2>3, <2>4
<1> QED
  BY <1>1, <1>5, <1>8, <1>9, <1>10 DEF Tiling

\* A tile takes its right neighbour in.
Merging(T, m, m2, t, b) ==
    /\ Tiling(T, m) /\ t \in T /\ b \in T
    /\ b = t + Size(m, t)
    /\ Size(m2, t) = Size(m, t) + Size(m, b)
    /\ \A u \in T \ {t, b} : Size(m2, u) = Size(m, u)

LEMMA MergeTiles ==
    ASSUME NEW T, NEW m, NEW m2, NEW t, NEW b, Merging(T, m, m2, t, b)
    PROVE  Tiling(T \ {b}, m2)
<1> USE DEF Merging
<1>1. PICK y, z : y = Size(m, t) /\ z = Size(m, b)
  OBVIOUS
<1>2. /\ t \in Nat /\ b \in Nat /\ y \in Nat /\ z \in Nat /\ y > 0 /\ z > 0 /\ b = t + y /\ t < b
      /\ Start \in Nat /\ End \in Nat /\ Start <= t
  BY <1>1, HeapAssumption DEF Tiling
<1>3. \A u \in T : u \in Nat /\ Size(m, u) \in Nat /\ Size(m, u) > 0 /\ u < End /\ Start <= u
  BY DEF Tiling
<1>4. /\ Size(m2, t) = y + z
      /\ \A u \in T \ {t, b} : Size(m2, u) = Size(m, u)
  BY <1>1
<1>5. b + z \in (T \ {b}) \cup {End}
  BY <1>1, <1>2, <1>3 DEF Tiling
<1>6. \A u \in T \ {b} :
        /\ u \in Nat /\ Start <= u /\ u < End
        /\ Size(m2, u) \in Nat /\ Size(m2, u) > 0
        /\ u + Size(m2, u) \in (T \ {b}) \cup {End}
  <2> SUFFICES ASSUME NEW u \in T \ {b}
               PROVE  /\ u \in Nat /\ Start <= u /\ u < End
                      /\ Size(m2, u) \in Nat /\ Size(m2, u) > 0
                      /\ u + Size(m2, u) \in (T \ {b}) \cup {End}
    OBVIOUS
  <2>1. CASE u = t
    <3>1. t + (y + z) = b + z /\ y + z \in Nat /\ y + z > 0
      BY <1>2
    <3> QED
      BY <1>3, <1>4, <1>5, <2>1, <3>1
  <2>2. CASE u # t
    <3>1. u + Size(m, u) # b
      <4>1. u < t \/ t < u
        BY <1>2, <1>3, <2>2
      <4>2. CASE u < t
        <5>1. u + Size(m, u) <= t
          BY <4>2 DEF Tiling
        <5> QED
          BY <1>2, <1>3, <5>1
      <4>3. CASE t < u
        <5>1. b <= u
          BY <4>3 DEF Tiling
        <5> QED
          BY <1>2, <1>3, <5>1
      <4> QED
        BY <4>1, <4>2, <4>3
    <3>2. u + Size(m, u) \in T \cup {End}
      BY DEF Tiling
    <3> QED
      BY <1>3, <1>4, <2>2, <3>1, <3>2
  <2> QED
    BY <2>1, <2>2
<1>7. \A u \in T \ {b} : u = Start \/ \E s \in T \ {b} : s + Size(m2, s) = u
  <2> SUFFICES ASSUME NEW u \in T \ {b}, u # Start
               PROVE  \E s \in T \ {b} : s + Size(m2, s) = u
    OBVIOUS
  <2>1. PICK s \in T : s + Size(m, s) = u
    BY DEF Tiling
  <2>2. CASE s = b
    <3>1. t + Size(m2, t) = u /\ t \in T \ {b}
      BY <1>1, <1>2, <1>4, <2>1, <2>2
    <3> QED
      BY <3>1
  <2>3. CASE s # b
    <3>1. s # t
      BY <2>1
    <3> QED
      BY <1>4, <2>1, <2>3, <3>1
  <2> QED
    BY <2>2, <2>3
<1>8. \A u, v \in T \ {b} : u < v => u + Size(m2, u) <= v
  <2> SUFFICES ASSUME NEW u \in T \ {b}, NEW v \in T \ {b}, u < v
               PROVE  u + Size(m2, u) <= v
    OBVIOUS
  <2>1. CASE u = t
    <3>1. b <= v /\ b # v
      BY <1>2, <2>1 DEF Tiling
    <3>2. b < v
      BY <1>2, <1>3, <3>1
    <3>3. b + z <= v
      BY <1>1, <3>2 DEF Tiling
    <3> QED
      BY <1>2, <1>3, <1>4, <2>1, <3>3
  <2>2. CASE u # t
    BY <1>4, <2>2 DEF Tiling
  <2> QED
    BY <2>1, <2>2
<1>9. Start \in T \ {b}
  BY <1>2 DEF Tiling
<1> QED
  BY <1>6, <1>7, <1>8, <1>9 DEF Tiling

\* The tiles are as apart as that.
LEMMA TilesApart ==
    ASSUME NEW T, NEW m, Tiling(T, m), NEW t \in T, NEW u \in T, t # u
    PROVE  u + Size(m, u) <= t \/ t + Size(m, t) <= u
<1>1. t \in Nat /\ u \in Nat
  BY DEF Tiling
<1>2. t < u \/ u < t
  BY <1>1
<1> QED
  BY <1>2 DEF Tiling

LEMMA TileInHeap ==
    ASSUME NEW T, NEW m, Tiling(T, m), NEW t \in T
    PROVE  /\ t \in Nat /\ Size(m, t) \in Nat /\ Size(m, t) > 0
           /\ Start <= t /\ t + Size(m, t) <= End
           /\ Start \in Nat /\ End \in Nat /\ End < WordMod /\ WordMod \in Nat
  BY HeapAssumption DEF Tiling

-----------------------------------------------------------------------------
(* What marks a tile.                                                      *)

LEMMA TileKept ==
    ASSUME NEW m, NEW m2, NEW t \in Nat, Size(m, t) \in Nat, Size(m, t) >= HeaderSize,
           \A x \in t .. t + Size(m, t) - 1 : Read(m2, x) = Read(m, x)
    PROVE  /\ Size(m2, t) = Size(m, t)
           /\ HoleMarked(m, t) => HoleMarked(m2, t)
           /\ BlockMarked(m, t) => BlockMarked(m2, t)
<1>1. PICK n : n = Size(m, t)
  OBVIOUS
<1>2. n \in Nat /\ n >= 3 /\ \A x \in t .. t + n - 1 : Read(m2, x) = Read(m, x)
  BY <1>1 DEF HeaderSize
<1>3. t \in t .. t + n - 1 /\ t + 1 \in t .. t + n - 1 /\ t + 2 \in t .. t + n - 1
  BY <1>2
<1>4. Size(m2, t) = n
  BY <1>1, <1>2, <1>3 DEF Size
<1>5. HasFooter(m, t) => HasFooter(m2, t)
  <2> SUFFICES ASSUME HasFooter(m, t) PROVE HasFooter(m2, t)
    OBVIOUS
  <2>1. PICK f : f = t + n - 2
    OBVIOUS
  <2>2. /\ n >= 5 /\ FooterOf(m, t) = f /\ FooterOf(m2, t) = f
        /\ f \in t .. t + n - 1 /\ f + 1 \in t .. t + n - 1
    BY <1>1, <1>2, <1>4, <2>1 DEF HasFooter, FooterOf, HeaderSize, FooterSize
  <2> QED
    BY <1>1, <1>2, <1>4, <2>2 DEF HasFooter, IsMagic
<1> QED
  BY <1>1, <1>2, <1>3, <1>4, <1>5 DEF HoleMarked, BlockMarked, IsMagic

\* A header and the footer that belongs to it.
Framed(m, t, isHole, n) ==
    Put(Put(m, t, HeaderWords(isHole, n)), t + n - FooterSize, FooterWords(t))

LEMMA FramedMarks ==
    ASSUME NEW m, NEW t \in Nat, NEW isHole \in {0, 1}, NEW n \in Nat, n >= 5, n < WordMod,
           t < WordMod
    PROVE  LET r == Framed(m, t, isHole, n)
           IN  /\ Size(r, t) = n
               /\ isHole = 1 => HoleMarked(r, t)
               /\ isHole = 0 => BlockMarked(r, t)
               /\ \A x \in Int \ (t .. t + n - 1) : Read(r, x) = Read(m, x)
               /\ \A x \in Int : Read(r, x) = Read(m, x) \/ Read(r, x) \in Word
               /\ Written(m) \subseteq Written(r)
               /\ Written(r) \subseteq Written(m) \cup (t .. t + n - 1)
<1>1. PICK m1, f, r : /\ m1 = Put(m, t, HeaderWords(isHole, n)) /\ f = t + n - FooterSize
                      /\ r = Put(m1, f, FooterWords(t))
  OBVIOUS
<1>2. r = Framed(m, t, isHole, n)
  BY <1>1 DEF Framed
<1>3. /\ f \in Int /\ f = t + n - 2 /\ t + 3 <= f
      /\ t \in Int /\ isHole \in Int /\ n \in Int
  BY <1>1 DEF FooterSize
<1>4. /\ Written(m1) = Written(m) \cup {t, t + 1, t + 2}
      /\ Read(m1, t) = MAGIC /\ Read(m1, t + 1) = isHole /\ Read(m1, t + 2) = n
      /\ \A x \in Int \ {t, t + 1, t + 2} : Read(m1, x) = Read(m, x)
  BY <1>1, <1>3, PutHeader
<1>5. /\ Written(r) = Written(m1) \cup {f, f + 1}
      /\ Read(r, f) = MAGIC /\ Read(r, f + 1) = t
      /\ \A x \in Int \ {f, f + 1} : Read(r, x) = Read(m1, x)
  BY <1>1, <1>3, PutFooter
<1>6. Read(r, t) = MAGIC /\ Read(r, t + 1) = isHole /\ Read(r, t + 2) = n
  BY <1>3, <1>4, <1>5
<1>7. Size(r, t) = n
  BY <1>6 DEF Size
<1>8. HasFooter(r, t)
  BY <1>3, <1>5, <1>7 DEF HasFooter, FooterOf, IsMagic, HeaderSize, FooterSize
<1>9. \A x \in Int \ (t .. t + n - 1) : Read(r, x) = Read(m, x)
  BY <1>3, <1>4, <1>5
<1>10. \A x \in Int : Read(r, x) = Read(m, x) \/ Read(r, x) \in Word
  <2> SUFFICES ASSUME NEW x \in Int PROVE Read(r, x) = Read(m, x) \/ Read(r, x) \in Word
    OBVIOUS
  <2>1. x \in {t, t + 1, t + 2, f, f + 1} \/ Read(r, x) = Read(m, x)
    BY <1>4, <1>5
  <2>2. WordMod \in Nat /\ WordMod > 0
    BY HeapAssumption
  <2>3. MAGIC \in Word /\ isHole \in Word /\ n \in Word /\ t \in Word
    BY <2>2 DEF Word
  <2> QED
    BY <1>5, <1>6, <2>1, <2>3
<1>11. Written(m) \subseteq Written(r) /\ Written(r) \subseteq Written(m) \cup (t .. t + n - 1)
  <2>1. {t, t + 1, t + 2, f, f + 1} \subseteq t .. t + n - 1
    BY <1>3
  <2> QED
    BY <1>4, <1>5, <2>1
<1>12. Size(r, t) >= HeaderSize
  BY <1>7 DEF HeaderSize
<1> QED
  BY <1>2, <1>6, <1>7, <1>8, <1>9, <1>10, <1>11, <1>12 DEF HoleMarked, BlockMarked, IsMagic

-----------------------------------------------------------------------------
(* allocate.                                                               *)

\* Memory m2 differs from m between two addresses only, and by words.
SameOutside(m, m2, from, to) ==
    \A x \in Int \ (from .. to - 1) : Read(m2, x) = Read(m, x)

ByWords(m, m2) ==
    \A x \in Int : Read(m2, x) = Read(m, x) \/ Read(m2, x) \in Word

Grown(m, m2, from, to) ==
    /\ Written(m) \subseteq Written(m2)
    /\ Written(m2) \subseteq Written(m) \cup (from .. to - 1)

Within(m, m2, from, to) ==
    SameOutside(m, m2, from, to) /\ ByWords(m, m2) /\ Grown(m, m2, from, to)

LEMMA WithinWider ==
    ASSUME NEW m, NEW m2, NEW a \in Int, NEW b \in Int, Within(m, m2, a, b),
           NEW c \in Int, NEW d \in Int, c <= a, b <= d
    PROVE  Within(m, m2, c, d)
<1>1. a .. b - 1 \subseteq c .. d - 1
  OBVIOUS
<1>2. SameOutside(m, m2, c, d)
  BY <1>1 DEF Within, SameOutside
<1>3. Grown(m, m2, c, d)
  BY <1>1, Zenon DEF Within, Grown
<1> QED
  BY <1>2, <1>3 DEF Within

LEMMA WithinBoth ==
    ASSUME NEW m, NEW m1, NEW m2, NEW a, NEW b, Within(m, m1, a, b), Within(m1, m2, a, b)
    PROVE  Within(m, m2, a, b)
<1>1. SameOutside(m, m2, a, b)
  BY Zenon DEF Within, SameOutside
<1>2. ByWords(m, m2)
  BY DEF Within, ByWords
<1>3. Grown(m, m2, a, b)
  BY Zenon DEF Within, Grown
<1> QED
  BY <1>1, <1>2, <1>3 DEF Within

LEMMA FramedWithin ==
    ASSUME NEW m, NEW t \in Nat, NEW isHole \in {0, 1}, NEW n \in Nat, n >= 5, n < WordMod,
           t < WordMod, NEW m2, m2 = Framed(m, t, isHole, n)
    PROVE  /\ Size(m2, t) = n
           /\ isHole = 1 => HoleMarked(m2, t)
           /\ isHole = 0 => BlockMarked(m2, t)
           /\ Within(m, m2, t, t + n)
<1>1. PICK z : z = t + n
  OBVIOUS
<1>2. t .. t + n - 1 = t .. z - 1
  BY <1>1
<1>3. /\ Size(m2, t) = n
      /\ isHole = 1 => HoleMarked(m2, t)
      /\ isHole = 0 => BlockMarked(m2, t)
      /\ \A x \in Int \ (t .. t + n - 1) : Read(m2, x) = Read(m, x)
      /\ \A x \in Int : Read(m2, x) = Read(m, x) \/ Read(m2, x) \in Word
      /\ Written(m) \subseteq Written(m2)
      /\ Written(m2) \subseteq Written(m) \cup (t .. t + n - 1)
  BY FramedMarks
<1>4. SameOutside(m, m2, t, z)
  BY <1>2, <1>3 DEF SameOutside
<1>5. ByWords(m, m2)
  BY <1>3 DEF ByWords
<1>6. Grown(m, m2, t, z)
  BY <1>2, <1>3, Zenon DEF Grown
<1> QED
  BY <1>1, <1>3, <1>4, <1>5, <1>6 DEF Within

LEMMA FramedBlock ==
    ASSUME NEW m, NEW t \in Nat, NEW n \in Nat, n >= 5, n < WordMod, t < WordMod,
           NEW m2, m2 = Framed(m, t, 0, n)
    PROVE  Size(m2, t) = n /\ BlockMarked(m2, t) /\ Within(m, m2, t, t + n)
BY FramedWithin

LEMMA FramedHole ==
    ASSUME NEW m, NEW t \in Nat, NEW n \in Nat, n >= 5, n < WordMod, t < WordMod,
           NEW m2, m2 = Framed(m, t, 1, n)
    PROVE  Size(m2, t) = n /\ HoleMarked(m2, t) /\ Within(m, m2, t, t + n)
BY FramedWithin

\* Other tiles do not notice.
LEMMA OthersKept ==
    ASSUME NEW m, NEW H, NEW B, Marked(m, H, B), NEW t \in H \cup B, NEW m2,
           Within(m, m2, t, t + Size(m, t))
    PROVE  \A u \in (H \cup B) \ {t} :
              /\ Size(m2, u) = Size(m, u)
              /\ u \in H => HoleMarked(m2, u)
              /\ u \in B => BlockMarked(m2, u)
<1> SUFFICES ASSUME NEW u \in (H \cup B) \ {t}
             PROVE  /\ Size(m2, u) = Size(m, u)
                    /\ u \in H => HoleMarked(m2, u)
                    /\ u \in B => BlockMarked(m2, u)
  OBVIOUS
<1>1. PICK T : T = H \cup B
  OBVIOUS
<1>2. Tiling(T, m) /\ t \in T /\ u \in T /\ t # u
  BY <1>1 DEF Marked
<1>3. t \in Nat /\ u \in Nat /\ Size(m, t) \in Nat /\ Size(m, u) \in Nat
  BY <1>2, TileInHeap
<1>4. u + Size(m, u) <= t \/ t + Size(m, t) <= u
  BY <1>2, TilesApart
<1>0. PICK e : e = t + Size(m, t)
  OBVIOUS
<1>5. \A x \in u .. u + Size(m, u) - 1 : x \in Int \ (t .. e - 1)
  BY <1>0, <1>3, <1>4
<1>6. \A x \in u .. u + Size(m, u) - 1 : Read(m2, x) = Read(m, x)
  <2>1. SameOutside(m, m2, t, e)
    BY <1>0 DEF Within
  <2> QED
    BY <1>5, <2>1, Zenon DEF SameOutside
<1>7. Size(m, u) >= HeaderSize
  <2>1. HoleMarked(m, u) \/ BlockMarked(m, u)
    BY DEF Marked
  <2>2. Size(m, u) >= HeaderSize \/ Size(m, u) >= HeaderSize + FooterSize
    BY <2>1 DEF HoleMarked, BlockMarked, HasFooter
  <2> QED
    BY <1>3, <2>2 DEF HeaderSize, FooterSize
<1>8. /\ Size(m2, u) = Size(m, u)
      /\ HoleMarked(m, u) => HoleMarked(m2, u)
      /\ BlockMarked(m, u) => BlockMarked(m2, u)
  BY <1>3, <1>6, <1>7, TileKept
<1> QED
  BY <1>8 DEF Marked

\* A hole that is used whole.
LEMMA AllocateWhole ==
    ASSUME NEW m, NEW H, NEW B, Marked(m, H, B), Apart(m, H), NEW h \in H,
           Size(m, h) >= 5, NEW m2, m2 = Framed(m, h, 0, Size(m, h))
    PROVE  /\ Marked(m2, H \ {h}, B \cup {h})
           /\ Apart(m2, H \ {h})
           /\ Within(m, m2, h, h + Size(m, h))
           /\ Size(m2, h) = Size(m, h)
           /\ \A u \in (H \cup B) \ {h} : Size(m2, u) = Size(m, u)
<1>1. PICK T, n : T = H \cup B /\ n = Size(m, h)
  OBVIOUS
<1>2. Tiling(T, m) /\ h \in T /\ H \cap B = {}
  BY <1>1 DEF Marked
<1>3. h \in Nat /\ n \in Nat /\ n >= 5 /\ n < WordMod /\ h < WordMod
  <2>1. /\ h \in Nat /\ n \in Nat /\ Start <= h /\ h + n <= End
        /\ Start \in Nat /\ End \in Nat /\ End < WordMod /\ WordMod \in Nat
    BY <1>1, <1>2, TileInHeap
  <2> QED
    BY <1>1, <2>1
<1>4. Size(m2, h) = n /\ BlockMarked(m2, h) /\ Within(m, m2, h, h + n)
  BY <1>1, <1>3, FramedWithin
<1>5. \A u \in (H \cup B) \ {h} :
        /\ Size(m2, u) = Size(m, u)
        /\ u \in H => HoleMarked(m2, u)
        /\ u \in B => BlockMarked(m2, u)
  BY <1>1, <1>4, OthersKept
<1>6. Tiling(T, m2)
  BY <1>1, <1>2, <1>4, <1>5, TilesSame
<1>7. (H \ {h}) \cup (B \cup {h}) = T /\ (H \ {h}) \cap (B \cup {h}) = {}
  BY <1>1, <1>2
<1>8. Marked(m2, H \ {h}, B \cup {h})
  <2>1. \A t \in H \ {h} : HoleMarked(m2, t)
    BY <1>5
  <2>2. \A t \in B \cup {h} : BlockMarked(m2, t)
    BY <1>2, <1>4, <1>5
  <2> QED
    BY <1>6, <1>7, <2>1, <2>2 DEF Marked
<1>9. Apart(m2, H \ {h})
  BY <1>5 DEF Apart
<1> QED
  BY <1>1, <1>4, <1>5, <1>8, <1>9

\* A hole that is split.
LEMMA AllocateSplit ==
    ASSUME NEW m, NEW H, NEW B, Marked(m, H, B), Apart(m, H), NEW h \in H,
           NEW n \in Nat, n >= 5, Size(m, h) - n >= 5,
           NEW m1, m1 = Framed(m, h, 0, n),
           NEW m2, m2 = Framed(m1, h + n, 1, Size(m, h) - n)
    PROVE  /\ h + n \notin H \cup B
           /\ Marked(m2, (H \ {h}) \cup {h + n}, B \cup {h})
           /\ Apart(m2, (H \ {h}) \cup {h + n})
           /\ Within(m, m2, h, h + Size(m, h))
           /\ Size(m2, h) = n
           /\ \A u \in (H \cup B) \ {h} : Size(m2, u) = Size(m, u)
<1>1. PICK T, b, z, w : T = H \cup B /\ z = Size(m, h) /\ b = h + n /\ w = z - n
  OBVIOUS
<1>2. Tiling(T, m) /\ h \in T /\ H \cap B = {}
  BY <1>1 DEF Marked
<1>3. /\ h \in Nat /\ z \in Nat /\ w \in Nat /\ w >= 5 /\ b \in Nat /\ b + w = h + z
      /\ n < z /\ n < WordMod /\ h < WordMod /\ w < WordMod /\ b < WordMod /\ h < b
  <2>1. /\ h \in Nat /\ z \in Nat /\ Start <= h /\ h + z <= End
        /\ Start \in Nat /\ End \in Nat /\ End < WordMod /\ WordMod \in Nat
    BY <1>1, <1>2, TileInHeap
  <2> QED
    BY <1>1, <2>1
<1>4. Size(m1, h) = n /\ BlockMarked(m1, h) /\ Within(m, m1, h, h + n)
  BY <1>3, FramedBlock
<1>5. Size(m2, b) = w /\ HoleMarked(m2, b) /\ Within(m1, m2, b, b + w)
  <2>1. /\ b \in Nat /\ w \in Nat /\ w >= 5 /\ w < WordMod /\ b < WordMod
        /\ m2 = Framed(m1, b, 1, w)
    BY <1>1, <1>3
  <2> QED
    BY <2>1, FramedHole
<1>6. Within(m, m2, h, h + z)
  <2>1. Within(m, m1, h, h + z)
    BY <1>1, <1>3, <1>4, WithinWider
  <2>2. Within(m1, m2, h, h + z)
    BY <1>1, <1>3, <1>5, WithinWider
  <2> QED
    BY <2>1, <2>2, WithinBoth
<1>7. \A u \in (H \cup B) \ {h} :
        /\ Size(m2, u) = Size(m, u)
        /\ u \in H => HoleMarked(m2, u)
        /\ u \in B => BlockMarked(m2, u)
  BY <1>1, <1>6, OthersKept
<1>8. Size(m2, h) = n /\ BlockMarked(m2, h)
  <2>1. \A x \in h .. h + Size(m1, h) - 1 : x \in Int \ (b .. b + w - 1)
    BY <1>1, <1>3, <1>4
  <2>2. \A x \in h .. h + Size(m1, h) - 1 : Read(m2, x) = Read(m1, x)
    <3>1. PICK e : e = b + w
      OBVIOUS
    <3>2. SameOutside(m1, m2, b, e)
      BY <1>5, <3>1 DEF Within
    <3>3. \A x \in h .. h + Size(m1, h) - 1 : x \in Int \ (b .. e - 1)
      BY <2>1, <3>1, <1>3
    <3> QED
      BY <3>2, <3>3, Zenon DEF SameOutside
  <2>3. Size(m1, h) \in Nat /\ Size(m1, h) >= HeaderSize
    BY <1>4 DEF HeaderSize
  <2> QED
    BY <1>3, <1>4, <2>2, <2>3, TileKept
<1>9. b \notin T /\ Tiling(T \cup {b}, m2)
  <2>1. 0 < n /\ n < Size(m, h) /\ Size(m2, h + n) = Size(m, h) - n
    BY <1>1, <1>3, <1>5
  <2> QED
    BY <1>1, <1>2, <1>7, <1>8, <2>1, SplitTile
<1>10. PICK H2, B2 : H2 = (H \ {h}) \cup {b} /\ B2 = B \cup {h}
  OBVIOUS
<1>11. Marked(m2, H2, B2)
  <2>1. H2 \cup B2 = T \cup {b} /\ H2 \cap B2 = {}
    BY <1>1, <1>2, <1>9, <1>10
  <2>2. \A t \in H2 : HoleMarked(m2, t)
    BY <1>5, <1>7, <1>10
  <2>3. \A t \in B2 : BlockMarked(m2, t)
    BY <1>2, <1>7, <1>8, <1>10
  <2> QED
    BY <1>9, <2>1, <2>2, <2>3 DEF Marked
<1>12. Apart(m2, H2)
  <2> SUFFICES ASSUME NEW g \in H2 PROVE g + Size(m2, g) \notin H2
    BY DEF Apart
  <2>1. CASE g = b
    <3>1. g + Size(m2, g) = h + z
      BY <1>3, <1>5, <2>1
    <3>2. h + z \notin H
      BY <1>1 DEF Apart
    <3>3. h + z # b
      BY <1>1, <1>3
    <3> QED
      BY <1>10, <3>1, <3>2, <3>3
  <2>2. CASE g # b
    <3>1. g \in H /\ g # h /\ g \in T /\ Size(m2, g) = Size(m, g) /\ g + Size(m, g) \notin H
      BY <1>1, <1>7, <1>10, <2>2 DEF Apart
    <3>2. g \in Nat /\ Size(m, g) \in Nat
      BY <1>2, <3>1, TileInHeap
    <3>3. g + Size(m, g) <= h \/ h + z <= g
      BY <1>1, <1>2, <3>1, TilesApart
    <3>4. Size(m, g) > 0
      BY <1>2, <3>1, TileInHeap
    <3>5. g + Size(m, g) # b
      BY <1>1, <1>3, <3>2, <3>3, <3>4
    <3> QED
      BY <1>10, <3>1, <3>5
  <2> QED
    BY <2>1, <2>2
<1> QED
  BY <1>1, <1>6, <1>7, <1>8, <1>9, <1>10, <1>11, <1>12

-----------------------------------------------------------------------------
(* free.                                                                   *)

LEMMA PutWithin ==
    ASSUME NEW m, NEW a \in Int, NEW v \in Word, v \in Int, NEW m2, m2 = Put(m, a, <<v>>)
    PROVE  Within(m, m2, a, a + 1)
<1>1. /\ Written(m2) = Written(m) \cup {a} /\ Read(m2, a) = v
      /\ \A x \in Int \ {a} : Read(m2, x) = Read(m, x)
  BY PutOne
<1>2. PICK e : e = a + 1
  OBVIOUS
<1>3. a .. e - 1 = {a}
  BY <1>2
<1>4. SameOutside(m, m2, a, e)
  BY <1>1, <1>3 DEF SameOutside
<1>5. ByWords(m, m2)
  BY <1>1 DEF ByWords
<1>6. Grown(m, m2, a, e)
  BY <1>1, <1>3, Zenon DEF Grown
<1> QED
  BY <1>2, <1>4, <1>5, <1>6 DEF Within

LEMMA TileOutside ==
    ASSUME NEW m, NEW H, NEW B, Marked(m, H, B), NEW u \in H \cup B, NEW m2,
           NEW a \in Int, NEW b \in Int, Within(m, m2, a, b), u + Size(m, u) <= a \/ b <= u
    PROVE  /\ Size(m2, u) = Size(m, u)
           /\ u \in H => HoleMarked(m2, u)
           /\ u \in B => BlockMarked(m2, u)
<1>1. PICK T : T = H \cup B
  OBVIOUS
<1>2. Tiling(T, m) /\ u \in T
  BY <1>1 DEF Marked
<1>3. u \in Nat /\ Size(m, u) \in Nat
  BY <1>2, TileInHeap
<1>4. \A x \in u .. u + Size(m, u) - 1 : x \in Int \ (a .. b - 1)
  BY <1>3
<1>5. SameOutside(m, m2, a, b)
  BY DEF Within
<1>6. \A x \in u .. u + Size(m, u) - 1 : Read(m2, x) = Read(m, x)
  BY <1>4, <1>5, Zenon DEF SameOutside
<1>7. Size(m, u) >= HeaderSize
  <2>1. HoleMarked(m, u) \/ BlockMarked(m, u)
    BY DEF Marked
  <2>2. Size(m, u) >= HeaderSize \/ Size(m, u) >= HeaderSize + FooterSize
    BY <2>1 DEF HoleMarked, BlockMarked, HasFooter
  <2> QED
    BY <1>3, <2>2 DEF HeaderSize, FooterSize
<1>8. /\ Size(m2, u) = Size(m, u)
      /\ HoleMarked(m, u) => HoleMarked(m2, u)
      /\ BlockMarked(m, u) => BlockMarked(m2, u)
  BY <1>3, <1>6, <1>7, TileKept
<1> QED
  BY <1>8 DEF Marked

\* A block becomes a hole.
LEMMA BlockFreed ==
    ASSUME NEW m, NEW H, NEW B, Marked(m, H, B), NEW f \in B,
           NEW m2, m2 = Put(m, f + 1, << 1 >>)
    PROVE  /\ Marked(m2, H \cup {f}, B \ {f})
           /\ \A u \in H \cup B : Size(m2, u) = Size(m, u)
           /\ HasFooter(m2, f)
           /\ Within(m, m2, f, f + Size(m, f))
<1>1. PICK T, n : T = H \cup B /\ n = Size(m, f)
  OBVIOUS
<1>2. Tiling(T, m) /\ f \in T /\ H \cap B = {} /\ BlockMarked(m, f)
  BY <1>1 DEF Marked
<1>3. f \in Nat /\ n \in Nat /\ n >= 5 /\ WordMod \in Nat /\ WordMod > 1
  <2>1. f \in Nat /\ n \in Nat /\ n >= 5
    BY <1>1, <1>2, TileInHeap DEF BlockMarked, HasFooter, HeaderSize, FooterSize
  <2>2. /\ Start <= f /\ f + n <= End
        /\ Start \in Nat /\ End \in Nat /\ End < WordMod /\ WordMod \in Nat
    BY <1>1, <1>2, TileInHeap
  <2> QED
    BY <2>1, <2>2
<1>4. PICK a : a = f + 1
  OBVIOUS
<1>5. a \in Int /\ 1 \in Word /\ 1 \in Int
  BY <1>3, <1>4 DEF Word
<1>6. Within(m, m2, a, a + 1)
  BY <1>4, <1>5, PutWithin
<1>7. Within(m, m2, f, f + n)
  BY <1>3, <1>4, <1>6, WithinWider
<1>8. \A u \in (H \cup B) \ {f} :
        /\ Size(m2, u) = Size(m, u)
        /\ u \in H => HoleMarked(m2, u)
        /\ u \in B => BlockMarked(m2, u)
  BY <1>1, <1>7, OthersKept
<1>9. Read(m2, a) = 1 /\ \A x \in Int \ {a} : Read(m2, x) = Read(m, x)
  BY <1>4, <1>5, PutOne
<1>10. Size(m2, f) = n
  <2>1. f + 2 \in Int \ {a}
    BY <1>3, <1>4
  <2> QED
    BY <1>1, <1>9, <2>1 DEF Size
<1>11. HasFooter(m2, f)
  <2>1. PICK g : g = f + n - 2
    OBVIOUS
  <2>2. /\ FooterOf(m, f) = g /\ FooterOf(m2, f) = g
        /\ g \in Int \ {a} /\ g + 1 \in Int \ {a}
    BY <1>1, <1>3, <1>4, <1>10, <2>1 DEF FooterOf, FooterSize
  <2>3. IsMagic(m, g) /\ Read(m, g + 1) = f
    BY <1>2, <2>2 DEF BlockMarked, HasFooter
  <2>4. IsMagic(m2, g) /\ Read(m2, g + 1) = f
    BY <1>9, <2>2, <2>3 DEF IsMagic
  <2>5. Size(m2, f) >= HeaderSize + FooterSize
    BY <1>3, <1>10 DEF HeaderSize, FooterSize
  <2> QED
    BY <2>2, <2>4, <2>5 DEF HasFooter
<1>12. HoleMarked(m2, f)
  <2>1. f \in Int \ {a} /\ IsMagic(m, f)
    BY <1>2, <1>3, <1>4 DEF BlockMarked
  <2>2. IsMagic(m2, f)
    BY <1>9, <2>1 DEF IsMagic
  <2>3. Size(m2, f) >= HeaderSize
    BY <1>3, <1>10 DEF HeaderSize
  <2> QED
    BY <1>4, <1>9, <1>11, <2>2, <2>3 DEF HoleMarked
<1>13. \A u \in T : Size(m2, u) = Size(m, u)
  BY <1>1, <1>8, <1>10
<1>14. Tiling(T, m2)
  BY <1>2, <1>13, TilesSame
<1>15. (H \cup {f}) \cup (B \ {f}) = T /\ (H \cup {f}) \cap (B \ {f}) = {}
  BY <1>1, <1>2
<1>16. Marked(m2, H \cup {f}, B \ {f})
  <2>1. \A t \in H \cup {f} : HoleMarked(m2, t)
    BY <1>2, <1>8, <1>12
  <2>2. \A t \in B \ {f} : BlockMarked(m2, t)
    BY <1>8
  <2> QED
    BY <1>14, <1>15, <2>1, <2>2 DEF Marked
<1> QED
  BY <1>1, <1>7, <1>11, <1>13, <1>16

\* What two holes have become one.
LEMMA HolesMerged ==
    ASSUME NEW m, NEW H, NEW B, Marked(m, H, B), NEW l \in H, NEW r \in H,
           r = l + Size(m, l), NEW m2, NEW n, n = Size(m, l) + Size(m, r),
           Within(m, m2, l, l + n), Size(m2, l) = n, HoleMarked(m2, l)
    PROVE  /\ Marked(m2, H \ {r}, B)
           /\ \A u \in (H \cup B) \ {l, r} : Size(m2, u) = Size(m, u)
<1>1. PICK T : T = H \cup B
  OBVIOUS
<1>2. Tiling(T, m) /\ l \in T /\ r \in T /\ H \cap B = {}
  BY <1>1 DEF Marked
<1>3. /\ l \in Nat /\ r \in Nat /\ Size(m, l) \in Nat /\ Size(m, r) \in Nat /\ Size(m, l) > 0
      /\ Size(m, r) > 0 /\ n \in Nat /\ r # l /\ l + n = r + Size(m, r) /\ l < r
  BY <1>2, TileInHeap
<1>4. ASSUME NEW u \in T \ {l, r}
      PROVE  /\ Size(m2, u) = Size(m, u)
             /\ u \in H => HoleMarked(m2, u)
             /\ u \in B => BlockMarked(m2, u)
  <2>1. u \in Nat /\ Size(m, u) \in Nat /\ Size(m, u) > 0
    BY <1>2, TileInHeap
  <2>2. u + Size(m, u) <= l \/ l + Size(m, l) <= u
    BY <1>2, TilesApart
  <2>3. u + Size(m, u) <= r \/ r + Size(m, r) <= u
    BY <1>2, TilesApart
  <2>4. u + Size(m, u) <= l \/ l + n <= u
    BY <1>3, <2>1, <2>2, <2>3
  <2>5. PICK e \in Int : e = l + n
    BY <1>3
  <2> QED
    BY <1>1, <1>3, <2>4, <2>5, TileOutside
<1>5. Tiling(T \ {r}, m2)
  <2>1. \A u \in T \ {l, r} : Size(m2, u) = Size(m, u)
    BY <1>4
  <2>2. Size(m2, l) = Size(m, l) + Size(m, r) /\ r = l + Size(m, l)
    OBVIOUS
  <2>3. Merging(T, m, m2, l, r)
    BY <1>2, <2>1, <2>2 DEF Merging
  <2> QED
    BY <2>3, MergeTiles
<1>6. (H \ {r}) \cup B = T \ {r} /\ (H \ {r}) \cap B = {}
  BY <1>1, <1>2
<1>7. \A t \in H \ {r} : HoleMarked(m2, t)
  BY <1>1, <1>4
<1>8. \A t \in B : BlockMarked(m2, t)
  BY <1>1, <1>2, <1>4
<1>9. Marked(m2, H \ {r}, B)
  BY <1>5, <1>6, <1>7, <1>8 DEF Marked
<1> QED
  BY <1>1, <1>4, <1>9

\* The hole at f becomes part of the one at l in front of it.
LeftMerging(m, H, B, l, f, n, m2) ==
    /\ Marked(m, H, B) /\ l \in H /\ f \in H
    /\ f = l + Size(m, l) /\ HasFooter(m, f) /\ n = Size(m, l) + Size(m, f)
    /\ m2 = SetSize(MoveFooter(m, FooterOf(m, f), l), l, n)

LeftMerged(m, H, B, l, f, n, m2) ==
    /\ Marked(m2, H \ {f}, B)
    /\ \A u \in (H \cup B) \ {l, f} : Size(m2, u) = Size(m, u)
    /\ Size(m2, l) = n
    /\ Within(m, m2, l, l + n)

LEMMA LeftMerge ==
    ASSUME NEW m, NEW H, NEW B, NEW l, NEW f, NEW n, NEW m2, LeftMerging(m, H, B, l, f, n, m2)
    PROVE  LeftMerged(m, H, B, l, f, n, m2)
<1> USE DEF LeftMerging
<1>1. PICK T, y, z, g : T = H \cup B /\ y = Size(m, l) /\ z = Size(m, f) /\ g = FooterOf(m, f) + 1
  OBVIOUS
<1>2. Tiling(T, m) /\ l \in T /\ f \in T /\ HoleMarked(m, l)
  BY <1>1 DEF Marked
<1>3. /\ l \in Nat /\ y \in Nat /\ f \in Nat /\ z \in Nat /\ Start <= l /\ f + z <= End
      /\ Start \in Nat /\ End \in Nat /\ End < WordMod /\ WordMod \in Nat
  BY <1>1, <1>2, TileInHeap
<1>4. y >= 3 /\ z >= 5
  BY <1>1, <1>2 DEF HoleMarked, HasFooter, HeaderSize, FooterSize
<1>5. g = f + z - 1 /\ f = l + y /\ n = y + z
  BY <1>1, <1>3 DEF FooterOf, FooterSize
<1>6. n \in Nat /\ n < WordMod /\ l < WordMod /\ U(n) = n
  <2>1. n \in Nat /\ n < WordMod /\ l < WordMod
    BY <1>3, <1>5
  <2> QED
    BY <1>3, <2>1, NotWrapped
<1>7. g \in Int /\ n \in Word /\ n \in Int /\ l \in Word /\ l \in Int
  BY <1>3, <1>5, <1>6 DEF Word
<1>8. PICK mf : mf = Put(m, g, <<l>>)
  OBVIOUS
<1>9. /\ Read(mf, g) = l
      /\ \A x \in Int \ {g} : Read(mf, x) = Read(m, x)
      /\ Within(m, mf, g, g + 1)
  BY <1>7, <1>8, PutOne, PutWithin
<1>10. PICK a : a = l + 2
  OBVIOUS
<1>11. a \in Int /\ m2 = Put(mf, a, <<n>>)
  BY <1>1, <1>3, <1>6, <1>8, <1>10 DEF SetSize, MoveFooter
<1>12. /\ Read(m2, a) = n
       /\ \A x \in Int \ {a} : Read(m2, x) = Read(mf, x)
       /\ Within(mf, m2, a, a + 1)
  BY <1>7, <1>11, PutOne, PutWithin
<1>13. Within(m, m2, l, l + n)
  <2>1. PICK e : e = l + n
    OBVIOUS
  <2>2. /\ e \in Int /\ l <= g /\ g + 1 <= e /\ l <= a /\ a + 1 <= e
        /\ g + 1 \in Int /\ a + 1 \in Int
    BY <1>3, <1>4, <1>5, <1>10, <2>1
  <2>3. Within(m, mf, l, e)
    BY <1>7, <1>9, <2>2, WithinWider
  <2>4. Within(mf, m2, l, e)
    BY <1>7, <1>11, <1>12, <2>2, WithinWider
  <2> QED
    BY <2>1, <2>3, <2>4, WithinBoth
<1>14. \A x \in Int \ {a, g} : Read(m2, x) = Read(m, x)
  BY <1>9, <1>12
<1>15. Size(m2, l) = n
  BY <1>10, <1>12 DEF Size
<1>16. HasFooter(m2, l)
  <2>1. PICK e : e = l + n - 2
    OBVIOUS
  <2>2. /\ FooterOf(m2, l) = e /\ FooterOf(m, f) = e /\ e + 1 = g /\ e \in Int \ {a, g}
        /\ g \in Int \ {a}
    BY <1>1, <1>3, <1>4, <1>5, <1>10, <1>15, <2>1 DEF FooterOf, FooterSize
  <2>3. IsMagic(m2, e)
    BY <1>14, <2>2 DEF HasFooter, IsMagic
  <2>4. Read(m2, e + 1) = l
    BY <1>9, <1>12, <2>2
  <2>5. Size(m2, l) >= HeaderSize + FooterSize
    BY <1>3, <1>4, <1>5, <1>15 DEF HeaderSize, FooterSize
  <2> QED
    BY <2>2, <2>3, <2>4, <2>5 DEF HasFooter
<1>17. HoleMarked(m2, l)
  <2>1. l \in Int \ {a, g} /\ l + 1 \in Int \ {a, g}
    BY <1>3, <1>4, <1>5, <1>10
  <2>2. Size(m2, l) >= HeaderSize
    BY <1>3, <1>4, <1>5, <1>15 DEF HeaderSize
  <2> QED
    BY <1>2, <1>14, <1>16, <2>1, <2>2 DEF HoleMarked, IsMagic
<1>18. /\ Marked(m2, H \ {f}, B)
       /\ \A u \in (H \cup B) \ {l, f} : Size(m2, u) = Size(m, u)
  BY <1>13, <1>15, <1>17, HolesMerged
<1> QED
  BY <1>13, <1>15, <1>18 DEF LeftMerged

\* The hole merged on the right ends the heap: its footer is not missed.
RightMerging(m, H, B, l, r, n, m2) ==
    /\ Marked(m, H, B) /\ l \in H /\ r \in H
    /\ r = l + Size(m, l) /\ n = Size(m, l) + Size(m, r)
    /\ r + Size(m, r) = End
    /\ m2 = SetSize(m, l, n)

LEMMA RightMerge ==
    ASSUME NEW m, NEW H, NEW B, NEW l, NEW r, NEW n, NEW m2, RightMerging(m, H, B, l, r, n, m2)
    PROVE  /\ Marked(m2, H \ {r}, B)
           /\ \A u \in (H \cup B) \ {l, r} : Size(m2, u) = Size(m, u)
           /\ Size(m2, l) = n
           /\ Within(m, m2, l, l + n)
<1> USE DEF RightMerging
<1>1. PICK T, y, z : T = H \cup B /\ y = Size(m, l) /\ z = Size(m, r)
  OBVIOUS
<1>2. Tiling(T, m) /\ l \in T /\ r \in T /\ HoleMarked(m, l)
  BY <1>1 DEF Marked
<1>3. /\ l \in Nat /\ y \in Nat /\ r \in Nat /\ z \in Nat /\ Start <= l /\ r + z <= End
      /\ Start \in Nat /\ End \in Nat /\ End < WordMod /\ WordMod \in Nat
  BY <1>1, <1>2, TileInHeap
<1>4. y >= 3
  BY <1>1, <1>2 DEF HoleMarked, HeaderSize
<1>5. n \in Nat /\ n = y + z /\ n < WordMod /\ U(n) = n /\ l + n = End
  <2>1. n \in Nat /\ n = y + z /\ n < WordMod /\ l + n = End
    BY <1>1, <1>3
  <2> QED
    BY <1>3, <2>1, NotWrapped
<1>6. n \in Word /\ n \in Int
  BY <1>3, <1>5 DEF Word
<1>7. PICK a : a = l + 2
  OBVIOUS
<1>8. a \in Int /\ m2 = Put(m, a, <<n>>)
  BY <1>3, <1>5, <1>7 DEF SetSize
<1>9. /\ Read(m2, a) = n
      /\ \A x \in Int \ {a} : Read(m2, x) = Read(m, x)
      /\ Within(m, m2, a, a + 1)
  BY <1>6, <1>8, PutOne, PutWithin
<1>10. Within(m, m2, l, l + n)
  <2>1. PICK e : e = l + n
    OBVIOUS
  <2>2. e \in Int /\ l <= a /\ a + 1 <= e /\ a + 1 \in Int
    BY <1>3, <1>4, <1>5, <1>7, <2>1
  <2> QED
    BY <1>3, <1>8, <1>9, <2>1, <2>2, WithinWider
<1>11. Size(m2, l) = n
  BY <1>7, <1>9 DEF Size
<1>12. HoleMarked(m2, l)
  <2>1. l \in Int \ {a} /\ l + 1 \in Int \ {a}
    BY <1>3, <1>7
  <2>2. Size(m2, l) >= HeaderSize
    BY <1>3, <1>4, <1>5, <1>11 DEF HeaderSize
  <2>3. ~(l + Size(m2, l) < End)
    BY <1>3, <1>5, <1>11
  <2> QED
    BY <1>2, <1>9, <2>1, <2>2, <2>3 DEF HoleMarked, IsMagic
<1>13. /\ Marked(m2, H \ {r}, B)
       /\ \A u \in (H \cup B) \ {l, r} : Size(m2, u) = Size(m, u)
  BY <1>10, <1>11, <1>12, HolesMerged
<1> QED
  BY <1>10, <1>11, <1>13

\* The word in front of a header tells whether a hole ends there.
LEMMA LeftNeighbour ==
    ASSUME NEW m, NEW H, NEW B, Marked(m, H, B), Written(m) \subseteq Start .. End - 1,
           NEW f \in H \cup B
    PROVE  /\ MergesLeft(m, f) =>
                 /\ Read(m, f - FooterSize + 1) \in H
                 /\ Read(m, f - FooterSize + 1) + Size(m, Read(m, f - FooterSize + 1)) = f
           /\ ~MergesLeft(m, f) => \A h \in H : h + Size(m, h) # f
<1>1. PICK T, g : T = H \cup B /\ g = f - 2
  OBVIOUS
<1>2. Tiling(T, m) /\ f \in T /\ H \cap B = {}
  BY <1>1 DEF Marked
<1>3. /\ f \in Nat /\ Start <= f /\ f < End /\ Start \in Nat /\ End \in Nat
      /\ f - FooterSize = g /\ f - FooterSize + 1 = g + 1 /\ g \in Int
  BY <1>1, <1>2, HeapAssumption DEF Tiling, FooterSize
<1>4. ASSUME NEW s \in T, s + Size(m, s) = f
      PROVE  IsMagic(m, g) /\ Read(m, g + 1) = s
  <2>1. HasFooter(m, s)
    BY <1>1, <1>3, <1>4 DEF Marked, HoleMarked, BlockMarked
  <2>2. s \in Nat /\ Size(m, s) \in Nat
    BY <1>2, TileInHeap
  <2>3. FooterOf(m, s) = g
    BY <1>1, <1>4, <2>2 DEF FooterOf, FooterSize
  <2> QED
    BY <2>1, <2>3 DEF HasFooter
<1>5. ASSUME NEW s \in T PROVE IsHole(m, s) <=> s \in H
  BY <1>1, <1>2 DEF Marked, HoleMarked, BlockMarked, IsHole
<1>6. MergesLeft(m, f) <=> IsMagic(m, g) /\ IsHole(m, Read(m, g + 1))
  BY <1>3 DEF MergesLeft
<1>7. CASE f = Start
  <2>1. Read(m, g) = 0
    <3>1. g \notin Start .. End - 1
      BY <1>1, <1>3, <1>7
    <3>2. g \notin Written(m)
      BY <3>1, Zenon
    <3> QED
      BY <3>2 DEF Read, Written
  <2>2. ~MergesLeft(m, f)
    BY <1>6, <2>1 DEF IsMagic, MAGIC
  <2>3. ASSUME NEW h \in H PROVE h + Size(m, h) # f
    <3>1. /\ h \in Nat /\ Size(m, h) \in Nat /\ Size(m, h) > 0 /\ Start <= h
      BY <1>1, <1>2, TileInHeap
    <3> QED
      BY <1>3, <1>7, <3>1
  <2> QED
    BY <2>2, <2>3
<1>8. CASE f # Start
  <2>1. PICK s \in T : s + Size(m, s) = f
    BY <1>2, <1>8 DEF Tiling
  <2>2. IsMagic(m, g) /\ Read(m, g + 1) = s
    BY <1>4, <2>1
  <2>3. MergesLeft(m, f) <=> s \in H
    BY <1>5, <1>6, <2>2
  <2>4. ASSUME NEW h \in H, h + Size(m, h) = f PROVE h = s
    BY <1>1, <1>4, <2>2, <2>4
  <2> QED
    BY <1>3, <2>1, <2>2, <2>3, <2>4
<1> QED
  BY <1>7, <1>8

\* The word at a header tells whether it is a hole's.
LEMMA RightNeighbour ==
    ASSUME NEW m, NEW H, NEW B, Marked(m, H, B), NEW t \in H \cup B
    PROVE  MergesRight(m, t) <=> t \in H
BY DEF Marked, HoleMarked, BlockMarked, IsHole, MergesRight

\* free, up to the merge on the left: l is the hole the block is now part of.
FreedLeft(m, H, B, f, l, m2) ==
    /\ l \in Nat /\ Start <= l /\ l <= f
    /\ l \in H \cup {f}
    /\ Marked(m2, H \cup {l}, B \ {f})
    /\ Size(m2, l) \in Nat /\ l + Size(m2, l) = f + Size(m, f)
    /\ \A u \in (H \cup B) \ {l, f} : Size(m2, u) = Size(m, u)
    /\ Within(m, m2, l, f + Size(m, f))
    /\ \A h \in H : h + Size(m, h) # l

FreeingLeft(m, H, B, f, m1, l, m2) ==
    /\ Marked(m, H, B) /\ Apart(m, H) /\ Written(m) \subseteq Start .. End - 1 /\ f \in B
    /\ m1 = Put(m, f + 1, <<1>>)
    /\ l = IF MergesLeft(m1, f) THEN Read(m1, f - FooterSize + 1) ELSE f
    /\ m2 = IF MergesLeft(m1, f)
            THEN SetSize(MoveFooter(m1, FooterOf(m, f), l), l, Size(m1, l) + Size(m1, f))
            ELSE m1

LEMMA LeftSide ==
    ASSUME NEW m, NEW H, NEW B, NEW f, NEW m1, NEW l, NEW m2, FreeingLeft(m, H, B, f, m1, l, m2)
    PROVE  FreedLeft(m, H, B, f, l, m2) /\ (MergesLeft(m1, f) <=> l \in H)
<1>0. Marked(m, H, B) /\ Apart(m, H) /\ f \in B
  BY DEF FreeingLeft
<1>1. PICK T, n, e : T = H \cup B /\ n = Size(m, f) /\ e = f + n
  OBVIOUS
<1>2. Tiling(T, m) /\ f \in T /\ H \cap B = {} /\ f \notin H
  BY <1>0, <1>1 DEF Marked
<1>3. f \in Nat /\ n \in Nat /\ n > 0 /\ Start <= f /\ e <= End /\ e \in Nat /\ Start \in Nat /\ End \in Nat
  BY <1>1, <1>2, TileInHeap
<1>4. /\ Marked(m1, H \cup {f}, B \ {f})
      /\ \A u \in H \cup B : Size(m1, u) = Size(m, u)
      /\ HasFooter(m1, f)
      /\ Within(m, m1, f, e)
  <2>1. /\ Marked(m1, H \cup {f}, B \ {f})
        /\ \A u \in H \cup B : Size(m1, u) = Size(m, u)
        /\ HasFooter(m1, f)
        /\ Within(m, m1, f, f + Size(m, f))
    <3>1. m1 = Put(m, f + 1, <<1>>)
      BY DEF FreeingLeft
    <3> QED
      BY <1>0, <3>1, BlockFreed
  <2> QED
    BY <1>1, <2>1
<1>5. Written(m1) \subseteq Start .. End - 1
  <2>1. f .. e - 1 \subseteq Start .. End - 1
    BY <1>3
  <2>2. Written(m1) \subseteq Written(m) \cup (f .. e - 1)
    BY <1>4, Zenon DEF Within, Grown
  <2>3. Written(m) \subseteq Start .. End - 1
    BY DEF FreeingLeft
  <2> QED
    BY <2>1, <2>2, <2>3, Zenon
<1>6. /\ MergesLeft(m1, f) =>
           /\ Read(m1, f - FooterSize + 1) \in H \cup {f}
           /\ Read(m1, f - FooterSize + 1) + Size(m1, Read(m1, f - FooterSize + 1)) = f
      /\ ~MergesLeft(m1, f) => \A h \in H \cup {f} : h + Size(m1, h) # f
  <2>1. f \in (H \cup {f}) \cup (B \ {f})
    OBVIOUS
  <2> QED
    BY <1>4, <1>5, <2>1, LeftNeighbour
<1>7. CASE MergesLeft(m1, f)
  <2>1. l \in H \cup {f} /\ l + Size(m1, l) = f
    BY <1>6, <1>7 DEF FreeingLeft
  <2>2. l # f
    BY <1>0, <1>1, <1>3, <1>4, <2>1
  <2>3. l \in H /\ l \in T /\ Size(m1, l) = Size(m, l) /\ Size(m1, f) = n /\ l + Size(m, l) = f
    BY <1>0, <1>1, <1>4, <2>1, <2>2
  <2>4. l \in Nat /\ Size(m, l) \in Nat /\ Start <= l /\ l <= f
    BY <1>2, <1>3, <2>3, TileInHeap
  <2>5. PICK y : y = Size(m1, l) + Size(m1, f)
    OBVIOUS
  <2>6. y \in Nat /\ l + y = e
    BY <1>1, <1>3, <2>3, <2>4, <2>5
  <2>7. FooterOf(m1, f) = FooterOf(m, f)
    BY <1>0, <1>1, <1>4 DEF FooterOf
  <2>8. m2 = SetSize(MoveFooter(m1, FooterOf(m1, f), l), l, y)
    BY <1>7, <2>5, <2>7 DEF FreeingLeft
  <2>9. PICK H1, B1 : H1 = H \cup {f} /\ B1 = B \ {f}
    OBVIOUS
  <2>10. Marked(m1, H1, B1) /\ l \in H1 /\ f \in H1 /\ f = l + Size(m1, l)
    BY <1>4, <2>1, <2>9
  <2>11. /\ Marked(m2, H1 \ {f}, B1)
         /\ \A u \in (H1 \cup B1) \ {l, f} : Size(m2, u) = Size(m1, u)
         /\ Size(m2, l) = y
         /\ Within(m1, m2, l, l + y)
    <3>1. LeftMerging(m1, H1, B1, l, f, y, m2)
      BY <1>4, <2>5, <2>8, <2>10 DEF LeftMerging
    <3>2. LeftMerged(m1, H1, B1, l, f, y, m2)
      BY <3>1, LeftMerge
    <3> QED
      BY <3>2, Zenon DEF LeftMerged
  <2>12. H1 \ {f} = H \cup {l} /\ (H1 \cup B1) = H \cup B
    BY <1>0, <1>2, <2>3, <2>9
  <2>13. Within(m, m2, l, e)
    <3>1. Within(m, m1, l, e)
      BY <1>3, <1>4, <2>4, WithinWider
    <3> QED
      BY <2>6, <2>11, <3>1, WithinBoth
  <2>14. \A h \in H : h + Size(m, h) # l
    BY <1>0, <2>3 DEF Apart
  <2>15. \A u \in (H \cup B) \ {l, f} : Size(m2, u) = Size(m, u)
    BY <1>4, <2>11, <2>12
  <2>16. Marked(m2, H \cup {l}, B \ {f})
    BY <2>9, <2>11, <2>12
  <2>17. FreedLeft(m, H, B, f, l, m2)
    BY <1>1, <2>3, <2>4, <2>6, <2>11, <2>13, <2>14, <2>15, <2>16 DEF FreedLeft
  <2> QED
    BY <1>7, <2>3, <2>17
<1>8. CASE ~MergesLeft(m1, f)
  <2>1. l = f /\ m2 = m1
    BY <1>8 DEF FreeingLeft
  <2>2. \A h \in H : h + Size(m, h) # l
    BY <1>4, <1>6, <1>8, <2>1
  <2>3. Size(m2, l) = n
    BY <1>0, <1>1, <1>4, <2>1
  <2>4. /\ l \in Nat /\ Start <= l /\ l <= f /\ l \in H \cup {f}
        /\ Size(m2, l) \in Nat /\ l + Size(m2, l) = f + Size(m, f)
    BY <1>1, <1>3, <2>1, <2>3
  <2>5. /\ Marked(m2, H \cup {l}, B \ {f})
        /\ \A u \in (H \cup B) \ {l, f} : Size(m2, u) = Size(m, u)
        /\ Within(m, m2, l, f + Size(m, f))
    BY <1>0, <1>1, <1>4, <2>1
  <2>6. FreedLeft(m, H, B, f, l, m2)
    BY <2>2, <2>4, <2>5 DEF FreedLeft
  <2> QED
    BY <1>2, <1>8, <2>1, <2>6
<1> QED
  BY <1>7, <1>8

\* What is right behind the freed block: a block, or the hole that ends the heap.
Guarded(m, H, B, next) ==
    \/ next \in B
    \/ next \in H /\ next + Size(m, next) = End

\* All of free, as far as the memory goes.
Freed(m, H, B, f, l, next, m3) ==
    /\ Marked(m3, (H \ {next}) \cup {l}, B \ {f})
    /\ Apart(m3, (H \ {next}) \cup {l})
    /\ \E e \in Nat :
          /\ e <= End
          /\ Within(m, m3, l, e)
          /\ \A u \in B \ {f} : u + Size(m, u) <= l \/ e <= u
    /\ \A u \in B \ {f} : Size(m3, u) = Size(m, u)

FreeingRight(m, H, B, f, l, m2, next, m3) ==
    /\ Marked(m, H, B) /\ Apart(m, H) /\ f \in B /\ FreedLeft(m, H, B, f, l, m2)
    /\ next = f + Size(m, f) /\ Guarded(m, H, B, next)
    /\ m3 = IF MergesRight(m2, next)
            THEN SetSize(m2, l, Size(m2, l) + Size(m2, next)) ELSE m2

LEMMA RightSide ==
    ASSUME NEW m, NEW H, NEW B, NEW f, NEW l, NEW m2, NEW next, NEW m3,
           FreeingRight(m, H, B, f, l, m2, next, m3)
    PROVE  Freed(m, H, B, f, l, next, m3) /\ (MergesRight(m2, next) <=> next \in H)
<1>0. /\ Marked(m, H, B) /\ Apart(m, H) /\ f \in B /\ FreedLeft(m, H, B, f, l, m2)
      /\ next = f + Size(m, f) /\ Guarded(m, H, B, next)
  BY DEF FreeingRight
<1>1. PICK T, n : T = H \cup B /\ n = Size(m, f)
  OBVIOUS
<1>2. Tiling(T, m) /\ f \in T /\ H \cap B = {} /\ next \in T
  BY <1>0, <1>1 DEF Marked, Guarded
<1>3. /\ f \in Nat /\ n \in Nat /\ n > 0 /\ next = f + n /\ next \in Nat /\ Start \in Nat /\ End \in Nat
      /\ Size(m, next) \in Nat /\ Size(m, next) > 0 /\ next + Size(m, next) <= End
  BY <1>0, <1>1, <1>2, TileInHeap
<1>4. /\ l \in Nat /\ Start <= l /\ l <= f /\ l \in H \cup {f}
      /\ Marked(m2, H \cup {l}, B \ {f})
      /\ Size(m2, l) \in Nat /\ l + Size(m2, l) = next
      /\ \A u \in (H \cup B) \ {l, f} : Size(m2, u) = Size(m, u)
      /\ Within(m, m2, l, next)
      /\ \A h \in H : h + Size(m, h) # l
  BY <1>0 DEF FreedLeft
<1>5. next # f /\ next # l /\ Size(m2, next) = Size(m, next)
  BY <1>1, <1>2, <1>3, <1>4
<1>6. MergesRight(m2, next) <=> next \in H
  <2>1. next \in (H \cup {l}) \cup (B \ {f})
    BY <1>1, <1>2, <1>5
  <2> QED
    BY <1>4, <1>5, <2>1, RightNeighbour
<1>7. \A u \in (H \cup B) \ {l, f} : u \in Nat /\ Size(m, u) \in Nat /\ Size(m, u) > 0
  BY <1>1, <1>2, TileInHeap
<1>8. \A u \in (H \cup B) \ {l, f} : u + Size(m, u) <= l \/ next <= u
  <2> SUFFICES ASSUME NEW u \in (H \cup B) \ {l, f} PROVE u + Size(m, u) <= l \/ next <= u
    OBVIOUS
  <2>1. u + Size(m, u) <= f \/ f + n <= u
    BY <1>1, <1>2, TilesApart
  <2>2. PICK T2 : T2 = (H \cup {l}) \cup (B \ {f})
    OBVIOUS
  <2>3. Tiling(T2, m2) /\ u \in T2 /\ l \in T2
    BY <1>4, <2>2 DEF Marked
  <2>4. u + Size(m2, u) <= l \/ l + Size(m2, l) <= u
    BY <2>3, TilesApart
  <2> QED
    BY <1>4, <2>4
<1>9. CASE next \in B
  <2>1. m3 = m2 /\ next \notin H
    BY <1>2, <1>6, <1>9 DEF FreeingRight
  <2>2. (H \ {next}) \cup {l} = H \cup {l}
    BY <2>1
  <2>3. Apart(m3, (H \ {next}) \cup {l})
    <3> SUFFICES ASSUME NEW h \in H \cup {l} PROVE h + Size(m2, h) \notin H \cup {l}
      BY <2>1, <2>2 DEF Apart
    <3>1. CASE h = l
      BY <1>4, <1>5, <2>1, <3>1
    <3>2. CASE h # l
      <4>1. h \in H /\ h # f
        BY <1>0, <1>2, <3>2
      <4>2. Size(m2, h) = Size(m, h)
        BY <1>4, <3>2, <4>1
      <4> QED
        BY <1>0, <1>4, <4>1, <4>2 DEF Apart
    <3> QED
      BY <3>1, <3>2
  <2>4. \E e \in Nat :
          /\ e <= End
          /\ Within(m, m3, l, e)
          /\ \A u \in B \ {f} : u + Size(m, u) <= l \/ e <= u
    <3>1. \A u \in B \ {f} : u + Size(m, u) <= l \/ next <= u
      BY <1>2, <1>4, <1>8
    <3>2. next <= End
      BY <1>3
    <3> QED
      BY <1>3, <1>4, <2>1, <3>1, <3>2
  <2>5. \A u \in B \ {f} : Size(m3, u) = Size(m, u)
    BY <1>2, <1>4, <2>1
  <2> QED
    BY <1>4, <1>6, <2>1, <2>2, <2>3, <2>4, <2>5 DEF Freed
<1>10. CASE next \in H /\ next + Size(m, next) = End
  <2>1. PICK H2, B2, y : H2 = H \cup {l} /\ B2 = B \ {f} /\ y = Size(m2, l) + Size(m2, next)
    OBVIOUS
  <2>2. /\ Marked(m2, H2, B2) /\ l \in H2 /\ next \in H2 /\ next = l + Size(m2, l)
        /\ next + Size(m2, next) = End /\ m3 = SetSize(m2, l, y)
    BY <1>4, <1>5, <1>6, <1>10, <2>1 DEF FreeingRight
  <2>3. /\ Marked(m3, H2 \ {next}, B2)
        /\ \A u \in (H2 \cup B2) \ {l, next} : Size(m3, u) = Size(m2, u)
        /\ Size(m3, l) = y
        /\ Within(m2, m3, l, l + y)
    <3>1. RightMerging(m2, H2, B2, l, next, y, m3)
      BY <2>1, <2>2 DEF RightMerging
    <3> QED
      BY <3>1, RightMerge
  <2>4. l + y = End
    BY <1>3, <1>4, <1>5, <1>10, <2>1
  <2>5. H2 \ {next} = (H \ {next}) \cup {l}
    BY <1>5, <2>1
  <2>6. Within(m, m3, l, End)
    <3>1. Within(m, m2, l, End)
      BY <1>3, <1>4, WithinWider
    <3> QED
      BY <2>3, <2>4, <3>1, WithinBoth
  <2>7. \A u \in (H \cup B) \ {l, f, next} : Size(m3, u) = Size(m, u)
    BY <1>4, <2>1, <2>3
  <2>8. Apart(m3, (H \ {next}) \cup {l})
    <3> SUFFICES ASSUME NEW h \in (H \ {next}) \cup {l} PROVE h + Size(m3, h) \notin (H \ {next}) \cup {l}
      BY DEF Apart
    <3>1. CASE h = l
      <4>1. End \notin T
        BY <1>2, <1>3 DEF Tiling
      <4>2. l # End
        BY <1>3, <1>4
      <4> QED
        BY <1>1, <2>3, <2>4, <3>1, <4>1, <4>2
    <3>2. CASE h # l
      <4>1. h \in H /\ h # f /\ h # next
        BY <1>0, <1>2, <3>2
      <4>2. Size(m3, h) = Size(m, h)
        BY <2>7, <3>2, <4>1
      <4> QED
        BY <1>0, <1>4, <4>1, <4>2 DEF Apart
    <3> QED
      BY <3>1, <3>2
  <2>9. \A u \in B \ {f} : u \in (H \cup B) \ {l, f, next}
    BY <1>2, <1>4, <1>10
  <2>10. \A u \in B \ {f} : u + Size(m, u) <= l \/ End <= u
    <3> SUFFICES ASSUME NEW u \in B \ {f} PROVE u + Size(m, u) <= l
      BY <1>3
    <3>1. u + Size(m, u) <= l \/ next <= u
      BY <1>8, <2>9
    <3>2. next + Size(m, next) <= u \/ u + Size(m, u) <= next
      BY <1>1, <1>2, <2>9, TilesApart
    <3>3. u < End
      BY <1>1, <1>2 DEF Tiling
    <3> QED
      <4>1. u \in Nat /\ Size(m, u) \in Nat /\ Size(m, u) > 0
        BY <1>7, <2>9
      <4> QED
        BY <1>3, <1>10, <3>1, <3>2, <3>3, <4>1
  <2>11. \E e \in Nat :
          /\ e <= End
          /\ Within(m, m3, l, e)
          /\ \A u \in B \ {f} : u + Size(m, u) <= l \/ e <= u
    <3>1. End <= End
      BY <1>3
    <3> QED
      BY <1>3, <2>6, <2>10, <3>1
  <2>12. \A u \in B \ {f} : Size(m3, u) = Size(m, u)
    BY <2>7, <2>9
  <2> QED
    BY <1>6, <1>10, <2>1, <2>3, <2>5, <2>8, <2>11, <2>12 DEF Freed
<1> QED
  BY <1>0, <1>6, <1>9, <1>10 DEF Guarded

-----------------------------------------------------------------------------
(* Counting holes.                                                         *)

\* Behind every hole but the last is a block of its own: the index has at most
\* one entry more than clients hold blocks.
LEMMA FewHoles ==
    ASSUME NEW s \in Seq(Nat), Increasing(s), NEW L, IsFiniteSet(L), NEW m,
           NEW B, \A b \in B : b + HeaderSize \in L,
           Marked(m, Elements(s), B), Apart(m, Elements(s))
    PROVE  Len(s) <= Cardinality(L) + 1
<1>1. PICK n, H, T : n = Len(s) /\ H = Elements(s) /\ T = H \cup B
  OBVIOUS
<1>2. n \in Nat /\ DOMAIN s = 1 .. n /\ \A k \in 1 .. n : s[k] \in Nat
  BY <1>1, LenProperties, ElementOfSeq
<1>3. Tiling(T, m) /\ H \cap B = {} /\ Apart(m, H)
  BY <1>1 DEF Marked
<1>4. \A k \in 1 .. n : s[k] \in H /\ s[k] \in T
  BY <1>1, <1>2 DEF Elements
<1>5. ASSUME NEW k \in 1 .. n, NEW j \in 1 .. n, k < j
      PROVE  /\ s[k] + Size(m, s[k]) <= s[j] /\ s[k] + Size(m, s[k]) \in Nat
             /\ s[j] < End /\ Size(m, s[j]) \in Nat /\ Size(m, s[j]) > 0
  <2>1. s[k] < s[j]
    BY <1>2, <1>5 DEF Increasing
  <2>2. /\ s[k] + Size(m, s[k]) <= s[j] /\ s[k] \in Nat /\ Size(m, s[k]) \in Nat
        /\ s[j] < End /\ Size(m, s[j]) \in Nat /\ Size(m, s[j]) > 0
    BY <1>3, <1>4, <2>1 DEF Tiling
  <2> QED
    BY <2>2
<1>6. PICK g : g = [k \in 1 .. n - 1 |-> s[k] + Size(m, s[k]) + HeaderSize]
  OBVIOUS
<1>7. ASSUME NEW k \in 1 .. n - 1 PROVE g[k] \in L
  <2>1. k \in 1 .. n /\ k + 1 \in 1 .. n /\ k < k + 1
    BY <1>2
  <2>2. s[k] + Size(m, s[k]) <= s[k + 1] /\ s[k + 1] < End /\ s[k] + Size(m, s[k]) \in Nat
    BY <1>5, <2>1
  <2>3. s[k] + Size(m, s[k]) # End
    BY <1>2, <2>1, <2>2, HeapAssumption
  <2>4. s[k] + Size(m, s[k]) \in T
    BY <1>3, <1>4, <2>1, <2>3 DEF Tiling
  <2>5. s[k] + Size(m, s[k]) \notin H
    BY <1>3, <1>4, <2>1 DEF Apart
  <2>6. s[k] + Size(m, s[k]) \in B
    BY <1>1, <2>4, <2>5
  <2>7. g[k] = s[k] + Size(m, s[k]) + HeaderSize
    BY <1>6
  <2> QED
    BY <2>6, <2>7
<1>8. ASSUME NEW k \in 1 .. n - 1, NEW j \in 1 .. n - 1, k < j PROVE g[k] # g[j]
  <2>1. k \in 1 .. n /\ j \in 1 .. n /\ j + 1 \in 1 .. n /\ j < j + 1
    BY <1>2
  <2>2. /\ s[k] + Size(m, s[k]) <= s[j] /\ s[k] + Size(m, s[k]) \in Nat
        /\ Size(m, s[j]) \in Nat /\ Size(m, s[j]) > 0 /\ s[j] \in Nat
    BY <1>2, <1>5, <1>8, <2>1
  <2>3. g[k] = s[k] + Size(m, s[k]) + 3 /\ g[j] = s[j] + Size(m, s[j]) + 3
    BY <1>6 DEF HeaderSize
  <2> QED
    BY <2>2, <2>3
<1>9. g \in Injection(1 .. n - 1, L)
  <2>1. g \in [1 .. n - 1 -> L]
    BY <1>6, <1>7
  <2>2. \A k, j \in 1 .. n - 1 : g[k] = g[j] => k = j
    <3> SUFFICES ASSUME NEW k \in 1 .. n - 1, NEW j \in 1 .. n - 1, k # j PROVE g[k] # g[j]
      OBVIOUS
    <3>1. k < j \/ j < k
      BY <1>2
    <3> QED
      BY <1>8, <3>1
  <2> QED
    BY <2>1, <2>2 DEF Injection, IsInjective
<1>10. Cardinality(1 .. n - 1) <= Cardinality(L)
  BY <1>9, FS_Injection
<1>11. Cardinality(1 .. n - 1) = IF 1 > n - 1 THEN 0 ELSE n - 1 - 1 + 1
  <2>1. 1 \in Int /\ n - 1 \in Int
    BY <1>2
  <2> QED
    BY <2>1, FS_Interval
<1>12. Cardinality(L) \in Nat
  BY FS_CardinalityType
<1> QED
  BY <1>1, <1>2, <1>10, <1>11, <1>12

-----------------------------------------------------------------------------
(* What a step keeps.                                                      *)

LEMMA WordsKept ==
    ASSUME NEW m, Worded(m), NEW m2, NEW a \in Int, NEW b \in Int, Within(m, m2, a, b),
           Start <= a, b <= End
    PROVE  Worded(m2)
<1>1. a .. b - 1 \subseteq Start .. End - 1
  BY HeapAssumption
<1>2. Written(m2) \subseteq Written(m) \cup (a .. b - 1)
  BY DEF Within, Grown
<1>3. Written(m2) \subseteq Start .. End - 1
  BY <1>1, <1>2, Zenon DEF Worded
<1>4. \A x \in Int : Read(m2, x) \in Word
  <2>1. ByWords(m, m2)
    BY DEF Within
  <2> QED
    BY <2>1, Zenon DEF ByWords, Worded
<1> QED
  BY <1>3, <1>4 DEF Worded

\* Data do not notice what is written outside of their tile.
LEMMA DataKept ==
    ASSUME NEW m, NEW m2, NEW a \in Int, NEW b \in Int, Within(m, m2, a, b),
           NEW u \in Nat, NEW n \in Nat, NEW d \in Nat, NEW w,
           d + HeaderSize + FooterSize <= n, u + n <= a \/ b <= u, Keeps(m, u, d, w)
    PROVE  Keeps(m2, u, d, w)
<1>1. PICK c, e : c = u + HeaderSize /\ e = c + d
  OBVIOUS
<1>2. c \in Nat /\ e \in Nat /\ c .. e - 1 = u + HeaderSize .. u + HeaderSize + d - 1
  BY <1>1 DEF HeaderSize
<1>3. \A x \in c .. e - 1 : x \in Int \ (a .. b - 1)
  BY <1>1, <1>2 DEF HeaderSize, FooterSize
<1>4. SameOutside(m, m2, a, b) /\ Written(m) \subseteq Written(m2)
  BY DEF Within, Grown
<1>5. \A x \in c .. e - 1 : x \in Written(m) /\ Read(m, x) = w
  BY <1>2 DEF Keeps
<1>6. \A x \in c .. e - 1 : x \in Written(m2) /\ Read(m2, x) = w
  BY <1>3, <1>4, <1>5, Zenon DEF SameOutside
<1> QED
  BY <1>2, <1>6 DEF Keeps

LEMMA HoldsKept ==
    ASSUME NEW m, NEW m2, NEW a \in Int, NEW b \in Int, Within(m, m2, a, b),
           NEW p, NEW block, Holds(m, p, block), Header(p) \in Nat, Size(m, Header(p)) \in Nat,
           Size(m2, Header(p)) = Size(m, Header(p)),
           Header(p) + Size(m, Header(p)) <= a \/ b <= Header(p)
    PROVE  Holds(m2, p, block)
<1>1. PICK u, n, d, w : u = Header(p) /\ n = Size(m, u) /\ d = block.size /\ w = block.word
  OBVIOUS
<1>2. u \in Nat /\ n \in Nat /\ d \in Nat /\ d + HeaderSize + FooterSize <= n /\ (u + n <= a \/ b <= u)
  BY <1>1 DEF Holds
<1>3. Keeps(m, u, d, w) => Keeps(m2, u, d, w)
  BY <1>2, DataKept
<1> QED
  BY <1>1, <1>3 DEF Holds

-----------------------------------------------------------------------------
(* The actions.                                                            *)

StatusAfter ==
    IF Written(mem') \subseteq Start .. End - 1 /\ Len(index') <= IndexSize
    THEN "running" ELSE "wild"

\* What allocate does: the hole at h gives a block.
Takes(h, size) ==
    /\ h \in Holes
    /\ index' \in Seq(Nat) /\ Increasing(index')
    /\ Marked(mem', Elements(index'), Blocks \cup {h})
    /\ Apart(mem', Elements(index'))
    /\ Within(mem, mem', h, h + Size(mem, h))
    /\ size + HeaderSize + FooterSize <= Size(mem', h)
    /\ \A u \in Blocks : Size(mem', u) = Size(mem, u)
    /\ live' = [p \in DOMAIN live \cup {h + HeaderSize} |->
                   IF p = h + HeaderSize
                   THEN [size |-> size, pageAlign |-> FALSE, word |-> NoWord]
                   ELSE live[p]]
    /\ status' = StatusAfter

LEMMA RestFramed ==
    ASSUME NEW m, NEW t \in Nat, NEW n \in Nat, n >= 5, t + n <= End
    PROVE  RestHole(m, t, n) = Framed(m, t, 1, n)
<1>1. PICK f : f = t + n - FooterSize
  OBVIOUS
<1>2. f \in Nat /\ f < End /\ f < WordMod
  BY <1>1, HeapAssumption DEF FooterSize
<1>3. U(t + n - FooterSize) = f
  BY <1>1, <1>2, NotWrapped
<1> QED
  BY <1>1, <1>2, <1>3 DEF RestHole, Framed

LEMMA AllocateTakes ==
    ASSUME HInv, NEW size \in Nat, Allocate(size, FALSE)
    PROVE  \E h : Takes(h, size)
<1>1. PICK need, i : /\ need = size + HeaderSize + FooterSize
                     /\ i = FindSmallestHole(need, FALSE)
  OBVIOUS
<1>2. i # 0 /\ AllocateFrom(i, size, FALSE)
  BY <1>1 DEF Allocate
<1>3. PICK h, z, total : h = index[i] /\ z = Size(mem, h) /\ total = Total(z, need)
  OBVIOUS
<1>4. PICK m2, rest : m2 = Block(mem, h, total) /\ rest = U(z - total)
  OBVIOUS
<1>5. /\ mem' = IF rest > 0 THEN RestHole(m2, h + total, rest) ELSE m2
      /\ index' = IF rest > 0 THEN Add(RemoveAt(index, i), h + total) ELSE RemoveAt(index, i)
      /\ live' = [p \in DOMAIN live \cup {h + HeaderSize} |->
                   IF p = h + HeaderSize
                   THEN [size |-> size, pageAlign |-> FALSE, word |-> NoWord]
                   ELSE live[p]]
      /\ status' = StatusAfter
  BY <1>1, <1>2, <1>3, <1>4 DEF AllocateFrom, StatusAfter, Written
<1>6. /\ index \in Seq(Nat) /\ Increasing(index) /\ Holes = Elements(index)
      /\ Marked(mem, Holes, Blocks) /\ Apart(mem, Holes)
  BY DEF HInv, IndexOK, IndexOrdered, Increasing, Holes, Elements
<1>7. i \in 1 .. Len(index) /\ z >= need
  BY <1>1, <1>2, <1>3, <1>6, HoleFound
<1>8. h \in Holes
  <2>1. DOMAIN index = 1 .. Len(index)
    BY <1>6, LenProperties
  <2> QED
    BY <1>3, <1>7, <2>1 DEF Holes
<1>9. /\ h \in Nat /\ z \in Nat /\ Start <= h /\ h + z <= End
      /\ Start \in Nat /\ End \in Nat /\ End < WordMod /\ WordMod \in Nat
  <2>1. PICK T : T = Holes \cup Blocks
    OBVIOUS
  <2>2. Tiling(T, mem) /\ h \in T
    BY <1>6, <1>8, <2>1 DEF Marked
  <2> QED
    BY <1>3, <2>2, TileInHeap
<1>10. /\ RemoveAt(index, i) \in Seq(Nat)
       /\ Increasing(RemoveAt(index, i))
       /\ Elements(RemoveAt(index, i)) = Holes \ {h}
  BY <1>3, <1>6, <1>7, RemoveAtKeeps
<1>11. need \in Nat /\ need >= 5
  BY <1>1 DEF HeaderSize, FooterSize
<1>12. U(z - need) = z - need
  <2>1. z - need \in Nat /\ z - need < WordMod
    BY <1>7, <1>9, <1>11
  <2> QED
    BY <2>1, NotWrapped
<1>13. m2 = Framed(mem, h, 0, total)
  BY <1>4 DEF Block, Framed
<1>14. CASE z - need < 5
  <2>1. total = z
    BY <1>3, <1>12, <1>14 DEF Total, HeaderSize, FooterSize
  <2>2. rest = 0
    <3>1. z - total = 0 /\ 0 < WordMod
      BY <1>9, <2>1
    <3> QED
      BY <1>4, <3>1, NotWrapped
  <2>3. mem' = m2 /\ index' = RemoveAt(index, i)
    BY <1>5, <2>2
  <2>4. Size(mem, h) >= 5 /\ mem' = Framed(mem, h, 0, Size(mem, h))
    <3>1. z >= 5
      BY <1>7, <1>9, <1>11
    <3>2. mem' = Framed(mem, h, 0, z)
      BY <1>13, <2>1, <2>3
    <3> QED
      BY <1>3, <3>1, <3>2
  <2>5. PICK H, B, mm : H = Holes /\ B = Blocks /\ mm = mem'
    OBVIOUS
  <2>6. /\ Marked(mm, H \ {h}, B \cup {h})
        /\ Apart(mm, H \ {h})
        /\ Within(mem, mm, h, h + Size(mem, h))
        /\ Size(mm, h) = Size(mem, h)
        /\ \A u \in (H \cup B) \ {h} : Size(mm, u) = Size(mem, u)
    <3>1. Marked(mem, H, B) /\ Apart(mem, H) /\ h \in H /\ mm = Framed(mem, h, 0, Size(mem, h))
      BY <1>6, <1>8, <2>4, <2>5
    <3> QED
      BY <2>4, <3>1, AllocateWhole
  <2>7. H \cap B = {}
    BY <1>6, <2>5 DEF Marked
  <2>8. need <= Size(mm, h)
    BY <1>3, <1>7, <1>9, <1>11, <2>6
  <2>9. Elements(index') = H \ {h} /\ h \in H
    BY <1>8, <1>10, <2>3, <2>5
  <2>10. \A u \in B : Size(mm, u) = Size(mem, u)
    BY <2>6, <2>7, <2>9
  <2>11. Takes(h, size)
    BY <1>1, <1>5, <1>8, <1>10, <2>3, <2>5, <2>6, <2>8, <2>9, <2>10 DEF Takes
  <2> QED
    BY <2>11
<1>15. CASE ~(z - need < 5)
  <2>1. total = need
    BY <1>3, <1>12, <1>15 DEF Total, HeaderSize, FooterSize
  <2>2. rest = z - need /\ rest \in Nat /\ rest >= 5 /\ rest > 0
    BY <1>4, <1>7, <1>9, <1>11, <1>12, <1>15, <2>1
  <2>3. PICK t : t = h + need
    OBVIOUS
  <2>4. t \in Nat /\ t + rest <= End
    BY <1>9, <1>11, <2>2, <2>3
  <2>5. mem' = RestHole(m2, t, rest) /\ index' = Add(RemoveAt(index, i), t)
    BY <1>5, <2>1, <2>2, <2>3
  <2>6. mem' = Framed(m2, t, 1, rest)
    BY <2>2, <2>4, <2>5, RestFramed
  <2>7. PICK H, B, mm : H = Holes /\ B = Blocks /\ mm = mem'
    OBVIOUS
  <2>8. /\ t \notin H \cup B
        /\ Marked(mm, (H \ {h}) \cup {t}, B \cup {h})
        /\ Apart(mm, (H \ {h}) \cup {t})
        /\ Within(mem, mm, h, h + Size(mem, h))
        /\ Size(mm, h) = need
        /\ \A u \in (H \cup B) \ {h} : Size(mm, u) = Size(mem, u)
    <3>1. /\ Marked(mem, H, B) /\ Apart(mem, H) /\ h \in H /\ need \in Nat /\ need >= 5
          /\ Size(mem, h) - need >= 5
      BY <1>3, <1>6, <1>8, <1>11, <2>2, <2>7
    <3>2. m2 = Framed(mem, h, 0, need)
      BY <1>13, <2>1
    <3>3. mm = Framed(m2, h + need, 1, Size(mem, h) - need)
      BY <1>3, <2>2, <2>3, <2>6, <2>7
    <3>4. /\ h + need \notin H \cup B
          /\ Marked(mm, (H \ {h}) \cup {h + need}, B \cup {h})
          /\ Apart(mm, (H \ {h}) \cup {h + need})
          /\ Within(mem, mm, h, h + Size(mem, h))
          /\ Size(mm, h) = need
          /\ \A u \in (H \cup B) \ {h} : Size(mm, u) = Size(mem, u)
      BY <3>1, <3>2, <3>3, AllocateSplit
    <3> QED
      BY <2>3, <3>4
  <2>9. H \cap B = {} /\ h \in H
    BY <1>6, <1>8, <2>7 DEF Marked
  <2>10. /\ index' \in Seq(Nat) /\ Increasing(index')
         /\ Elements(index') = (H \ {h}) \cup {t}
    <3>1. t \notin Elements(RemoveAt(index, i))
      BY <1>10, <2>7, <2>8
    <3> QED
      BY <1>10, <2>4, <2>5, <2>7, <3>1, AddKeeps
  <2>11. need <= Size(mm, h)
    BY <1>11, <2>8
  <2>12. \A u \in B : Size(mm, u) = Size(mem, u)
    BY <2>8, <2>9
  <2>13. Takes(h, size)
    BY <1>1, <1>5, <1>8, <2>7, <2>8, <2>10, <2>11, <2>12 DEF Takes
  <2> QED
    BY <2>13
<1> QED
  BY <1>14, <1>15

\* The index has room for the holes, and nothing is written outside of the heap.
LEMMA StatusKept ==
    ASSUME PlainClients, Worded(mem'), LiveOK', IndexOK', Marked(mem', Holes', Blocks'),
           Apart(mem', Holes'), status' = StatusAfter
    PROVE  NeverStops'
<1>1. PICK s, L, B, m : s = index' /\ L = DOMAIN live' /\ B = Blocks' /\ m = mem'
  OBVIOUS
<1>2. s \in Seq(Nat) /\ Increasing(s) /\ Holes' = Elements(s)
  BY <1>1 DEF IndexOK, IndexOrdered, Increasing, Holes, Elements
<1>3. L \subseteq Nat /\ IsFiniteSet(L) /\ Cardinality(L) <= MaxLive
  BY <1>1 DEF LiveOK
<1>4. \A b \in B : b + HeaderSize \in L
  <2>1. B = {Header(p) : p \in L}
    BY <1>1 DEF Blocks, Header
  <2>2. \A p \in L : Header(p) + HeaderSize = p
    BY <1>3 DEF Header, HeaderSize
  <2> QED
    BY <2>1, <2>2
<1>5. Marked(m, Elements(s), B) /\ Apart(m, Elements(s))
  BY <1>1, <1>2
<1>6. Len(s) <= Cardinality(L) + 1
  BY <1>2, <1>3, <1>4, <1>5, FewHoles
<1>7. Len(s) <= IndexSize
  <2>1. Cardinality(L) \in Nat /\ Len(s) \in Nat
    BY <1>2, <1>3, FS_CardinalityType, LenProperties
  <2>2. MaxLive < IndexSize /\ MaxLive \in Nat /\ IndexSize \in Nat
    BY HeapAssumption DEF PlainClients
  <2> QED
    BY <1>3, <1>6, <2>1, <2>2
<1>8. Written(mem') \subseteq Start .. End - 1
  BY DEF Worded
<1> QED
  BY <1>1, <1>7, <1>8 DEF StatusAfter, NeverStops

LEMMA AllocateKeeps ==
    ASSUME HInv, PlainClients, NEW size \in Nat, Allocate(size, FALSE)
    PROVE  HInv'
<1>1. PICK h : Takes(h, size)
  BY AllocateTakes
<1>2. PICK T, q, n : T = Holes \cup Blocks /\ q = h + HeaderSize /\ n = Size(mem, h)
  OBVIOUS
<1>3. /\ Tiling(T, mem) /\ h \in T /\ Blocks \subseteq T /\ Holes \cap Blocks = {}
      /\ h \in Holes /\ Worded(mem) /\ LiveOK /\ Held
  BY <1>1, <1>2 DEF HInv, Marked, Takes
<1>4. /\ h \in Nat /\ n \in Nat /\ Start <= h /\ h + n <= End /\ h + n \in Nat
      /\ Start \in Nat /\ End \in Nat
  BY <1>2, <1>3, TileInHeap
<1>5. Within(mem, mem', h, h + n)
  BY <1>1, <1>2 DEF Takes
<1>6. Worded(mem')
  BY <1>3, <1>4, <1>5, WordsKept
<1>7. /\ DOMAIN live' = DOMAIN live \cup {q}
      /\ live'[q] = [size |-> size, pageAlign |-> FALSE, word |-> NoWord]
      /\ \A p \in DOMAIN live \ {q} : live'[p] = live[p]
  BY <1>1, <1>2 DEF Takes
<1>8. q \in Nat /\ Header(q) = h
  BY <1>2, <1>4 DEF Header, HeaderSize
<1>9. \A p \in DOMAIN live : Header(p) \in Blocks /\ p # q
  <2>1. \A p \in DOMAIN live : Header(p) \in Blocks
    BY DEF Blocks
  <2>2. h \notin Blocks
    BY <1>3
  <2> QED
    BY <1>8, <2>1, <2>2
<1>10. LiveOK'
  <2>1. DOMAIN live \subseteq Nat /\ IsFiniteSet(DOMAIN live) /\ Cardinality(DOMAIN live) \in Nat
    BY <1>3, FS_CardinalityType DEF LiveOK
  <2>2. Cardinality(DOMAIN live) < MaxLive /\ MaxLive \in Nat
    BY HeapAssumption DEF Allocate
  <2>3. IsFiniteSet(DOMAIN live') /\ Cardinality(DOMAIN live') <= Cardinality(DOMAIN live) + 1
    <3>1. /\ IsFiniteSet(DOMAIN live \cup {q})
          /\ Cardinality(DOMAIN live \cup {q}) =
               IF q \in DOMAIN live THEN Cardinality(DOMAIN live) ELSE Cardinality(DOMAIN live) + 1
      BY <2>1, FS_AddElement
    <3> QED
      BY <1>7, <2>1, <3>1
  <2>4. DOMAIN live' \subseteq Nat
    BY <1>7, <1>8, <2>1
  <2>5. Cardinality(DOMAIN live') <= MaxLive
    <3>1. Cardinality(DOMAIN live') \in Nat
      BY <2>3, FS_CardinalityType
    <3> QED
      BY <2>1, <2>2, <2>3, <3>1
  <2> QED
    BY <2>3, <2>4, <2>5 DEF LiveOK
<1>11. Blocks' = Blocks \cup {h}
  <2>1. Blocks' = {Header(p) : p \in DOMAIN live'}
    BY DEF Blocks, Header
  <2> QED
    BY <1>7, <1>8, <2>1 DEF Blocks
<1>12. Holes' = Elements(index')
  BY DEF Holes, Elements
<1>13. IndexOK'
  BY <1>1 DEF Takes, IndexOK, IndexOrdered, Increasing
<1>14. Marked(mem', Holes', Blocks') /\ Apart(mem', Holes')
  BY <1>1, <1>11, <1>12 DEF Takes
<1>15. Held'
  <2> SUFFICES ASSUME NEW p \in DOMAIN live' PROVE Holds(mem', p, live'[p])
    BY DEF Held, Holds, Keeps, Read, Written, Size, Header
  <2>1. CASE p = q
    <3>1. size + HeaderSize + FooterSize <= Size(mem', h)
      BY <1>1 DEF Takes
    <3>2. PICK r : r = [size |-> size, pageAlign |-> FALSE, word |-> NoWord]
      OBVIOUS
    <3>3. /\ r \in [size : Nat, pageAlign : {FALSE}, word : Words \cup {NoWord}]
          /\ r.size = size /\ r.word = NoWord
      BY <3>2
    <3>4. live'[p] = r /\ Header(p) = h
      BY <1>7, <1>8, <2>1, <3>2
    <3> QED
      BY <3>1, <3>3, <3>4 DEF Holds
  <2>2. CASE p # q
    <3>1. p \in DOMAIN live /\ live'[p] = live[p]
      BY <1>7, <2>2
    <3>2. PICK u : u = Header(p)
      OBVIOUS
    <3>3. u \in Blocks /\ u \in T /\ u # h
      BY <1>3, <1>9, <3>1, <3>2
    <3>4. u \in Nat /\ Size(mem, u) \in Nat
      BY <1>3, <3>3, TileInHeap
    <3>5. u + Size(mem, u) <= h \/ h + n <= u
      BY <1>2, <1>3, <3>3, TilesApart
    <3>6. Size(mem', u) = Size(mem, u)
      BY <1>1, <3>3 DEF Takes
    <3>7. Holds(mem, p, live[p])
      BY <1>3, <3>1 DEF Held
    <3>8. Holds(mem', p, live[p])
      BY <1>4, <1>5, <3>2, <3>4, <3>5, <3>6, <3>7, HoldsKept
    <3> QED
      BY <3>1, <3>8
  <2> QED
    BY <2>1, <2>2
<1>16. NeverStops'
  BY <1>1, <1>6, <1>10, <1>12, <1>13, <1>14, StatusKept DEF Takes
<1>17. Worded(mem)'
  BY <1>6 DEF Worded, Read, Written
<1>18. Marked(mem, Holes, Blocks)' /\ Apart(mem, Holes)'
  BY <1>14
<1> QED
  BY <1>10, <1>13, <1>15, <1>16, <1>17, <1>18 DEF HInv

\* What free does: the block at p becomes part of the hole at l.
Frees(p, l, next) ==
    /\ l \in Nat /\ Start <= l
    /\ index' \in Seq(Nat) /\ Increasing(index')
    /\ Elements(index') = (Holes \ {next}) \cup {l}
    /\ Freed(mem, Holes, Blocks, Header(p), l, next, mem')
    /\ live' = [q \in DOMAIN live \ {p} |-> live[q]]
    /\ status' = StatusAfter

\* A client that does not free a block in front of a hole in the middle.
LEMMA FreeGuarded ==
    ASSUME HInv, PlainClients, NEW p \in DOMAIN live, MayFree(p),
           NEW next, next = Header(p) + Size(mem, Header(p))
    PROVE  Guarded(mem, Holes, Blocks, next)
<1>1. PICK T, f : T = Holes \cup Blocks /\ f = Header(p)
  OBVIOUS
<1>2. /\ Tiling(T, mem) /\ f \in T /\ Apart(mem, Holes) /\ DOMAIN live \subseteq Nat
  BY <1>1 DEF HInv, Marked, Blocks, LiveOK
<1>3. f \in Nat /\ Size(mem, f) \in Nat /\ next = f + Size(mem, f) /\ next \in Nat /\ End \in Nat
  BY <1>1, <1>2, TileInHeap
<1>4. Footer(p) + FooterSize = next
  BY <1>1, <1>3 DEF Footer, FooterSize
<1>5. \/ next + HeaderSize \in DOMAIN live
      \/ next < End /\ \A q \in DOMAIN live : q < next
  BY <1>4 DEF MayFree, PlainClients
<1>6. CASE next + HeaderSize \in DOMAIN live
  <2>1. Header(next + HeaderSize) = next
    BY <1>3 DEF Header, HeaderSize
  <2>2. Header(next + HeaderSize) \in Blocks
    BY <1>6 DEF Blocks
  <2> QED
    BY <2>1, <2>2 DEF Guarded
<1>7. CASE next < End /\ \A q \in DOMAIN live : q < next
  <2>1. ASSUME NEW b \in Blocks PROVE b \in Nat /\ b < next
    <3>1. PICK q \in DOMAIN live : b = Header(q)
      BY DEF Blocks
    <3>2. q \in Nat /\ q < next /\ b = q - 3
      BY <1>2, <1>7, <3>1 DEF Header, HeaderSize
    <3>3. b \in Nat
      BY <1>1, <1>2, TileInHeap
    <3> QED
      BY <1>3, <3>2, <3>3
  <2>2. next \in T
    BY <1>2, <1>3, <1>7 DEF Tiling
  <2>3. next \in Holes
    BY <1>1, <1>3, <2>1, <2>2
  <2>4. PICK e : e = next + Size(mem, next)
    OBVIOUS
  <2>5. e \in T \cup {End} /\ Size(mem, next) > 0 /\ Size(mem, next) \in Nat
    BY <1>2, <2>2, <2>4 DEF Tiling
  <2>6. e \notin Holes
    BY <1>2, <2>3, <2>4 DEF Apart
  <2>7. e \notin Blocks
    BY <1>3, <2>1, <2>4, <2>5
  <2>8. e = End
    BY <1>1, <2>5, <2>6, <2>7
  <2> QED
    BY <2>3, <2>4, <2>8 DEF Guarded
<1> QED
  BY <1>5, <1>6, <1>7

LEMMA FreeFrees ==
    ASSUME HInv, PlainClients, NEW p \in DOMAIN live, Free(p)
    PROVE  \E l, next : Frees(p, l, next)
<1>1. PICK H, B, f, next : /\ H = Holes /\ B = Blocks /\ f = Header(p)
                           /\ next = f + Size(mem, f)
  OBVIOUS
<1>2. /\ Marked(mem, H, B) /\ Apart(mem, H) /\ f \in B /\ Worded(mem)
      /\ index \in Seq(Nat) /\ Increasing(index) /\ H = Elements(index)
  BY <1>1 DEF HInv, Blocks, IndexOK, IndexOrdered, Increasing, Holes, Elements
<1>3. PICK T : T = H \cup B
  OBVIOUS
<1>4. Tiling(T, mem) /\ f \in T /\ H \cap B = {}
  BY <1>2, <1>3 DEF Marked
<1>5. f \in Nat /\ Size(mem, f) \in Nat /\ next \in Nat /\ End \in Nat
  BY <1>1, <1>4, TileInHeap
<1>6. Footer(p) = FooterOf(mem, f) /\ Footer(p) + FooterSize = next
  BY <1>1, <1>5 DEF Footer, FooterOf, FooterSize
<1>7. IsMagic(mem, Header(p)) /\ IsMagic(mem, Footer(p))
  BY <1>1, <1>2, <1>6 DEF Marked, BlockMarked, HasFooter
<1>8. MayFree(p) /\ FreeBlock(p) /\ live' = [q \in DOMAIN live \ {p} |-> live[q]]
  BY <1>7 DEF Free
<1>9. Guarded(mem, H, B, next)
  BY <1>1, <1>8, FreeGuarded
<1>10. next \in T /\ next < End
  BY <1>3, <1>4, <1>9 DEF Guarded, Tiling
<1>11. PICK m1 : m1 = Put(mem, f + 1, <<1>>)
  OBVIOUS
<1>12. PICK l : l = IF MergesLeft(m1, f) THEN Read(m1, f - FooterSize + 1) ELSE f
  OBVIOUS
<1>13. PICK m2 : m2 = IF MergesLeft(m1, f)
                      THEN SetSize(MoveFooter(m1, FooterOf(mem, f), l), l,
                                   Size(m1, l) + Size(m1, f))
                      ELSE m1
  OBVIOUS
<1>14. PICK m3 : m3 = IF MergesRight(m2, next)
                      THEN SetSize(m2, l, Size(m2, l) + Size(m2, next)) ELSE m2
  OBVIOUS
<1>15. FreedLeft(mem, H, B, f, l, m2) /\ (MergesLeft(m1, f) <=> l \in H)
  <2>1. FreeingLeft(mem, H, B, f, m1, l, m2)
    BY <1>2, <1>11, <1>12, <1>13 DEF FreeingLeft, Worded
  <2> QED
    BY <2>1, LeftSide
<1>16. Freed(mem, H, B, f, l, next, m3) /\ (MergesRight(m2, next) <=> next \in H)
  <2>1. FreeingRight(mem, H, B, f, l, m2, next, m3)
    BY <1>1, <1>2, <1>9, <1>14, <1>15 DEF FreeingRight
  <2> QED
    BY <2>1, RightSide
<1>17. l \in Nat /\ Start <= l /\ l <= f /\ l \in H \cup {f} /\ l # next
  <2>1. l \in Nat /\ Start <= l /\ l <= f /\ l \in H \cup {f}
    BY <1>15 DEF FreedLeft
  <2>2. Size(mem, f) > 0
    BY <1>4, TileInHeap
  <2> QED
    BY <1>1, <1>5, <2>1, <2>2
<1>18. PICK once, kept : /\ once = Erase(index, next)
                         /\ kept = IF MergesRight(m2, next) THEN Erase(once, next) ELSE once
  OBVIOUS
<1>19. kept \in Seq(Nat) /\ Increasing(kept) /\ Elements(kept) = H \ {next}
  <2>1. once \in Seq(Nat) /\ Increasing(once) /\ Elements(once) = H \ {next}
    BY <1>2, <1>5, <1>18, EraseKeeps
  <2>2. /\ Erase(once, next) \in Seq(Nat) /\ Increasing(Erase(once, next))
        /\ Elements(Erase(once, next)) = Elements(once) \ {next}
    BY <1>5, <2>1, EraseKeeps
  <2> QED
    BY <1>18, <2>1, <2>2
<1>20. PICK idx : idx = IF MergesLeft(m1, f) THEN kept ELSE Add(kept, l)
  OBVIOUS
<1>21. idx \in Seq(Nat) /\ Increasing(idx) /\ Elements(idx) = (H \ {next}) \cup {l}
  <2>1. CASE MergesLeft(m1, f)
    <3>1. (H \ {next}) \cup {l} = H \ {next}
      BY <1>15, <1>17, <2>1
    <3> QED
      BY <1>19, <1>20, <2>1, <3>1
  <2>2. CASE ~MergesLeft(m1, f)
    <3>1. l \notin Elements(kept)
      BY <1>15, <1>19, <2>2
    <3> QED
      BY <1>17, <1>19, <1>20, <2>2, <3>1, AddKeeps
  <2> QED
    BY <2>1, <2>2
<1>22. ~(next >= End) /\ ~(MergesRight(m2, next) /\ ~Contains(index, next))
  <2>1. next \in H => Contains(index, next)
    <3>1. DOMAIN index = 1 .. Len(index)
      BY <1>2, LenProperties
    <3> QED
      BY <1>2, <3>1 DEF Contains, Elements
  <2> QED
    BY <1>5, <1>10, <1>16, <2>1
<1>23. /\ mem' = m3 /\ index' = idx
       /\ status' = IF DOMAIN m3 \subseteq Start .. End - 1 /\ Len(idx) <= IndexSize
                    THEN "running" ELSE "wild"
  BY <1>1, <1>6, <1>8, <1>11, <1>12, <1>13, <1>14, <1>18, <1>20, <1>22 DEF FreeBlock
<1>24. Frees(p, l, next)
  BY <1>1, <1>8, <1>16, <1>17, <1>21, <1>23 DEF Frees, StatusAfter, Written
<1> QED
  BY <1>24

LEMMA FreeKeeps ==
    ASSUME HInv, PlainClients, NEW p \in DOMAIN live, Free(p)
    PROVE  HInv'
<1>1. PICK l, next : Frees(p, l, next)
  BY FreeFrees
<1>2. PICK f, H, B : f = Header(p) /\ H = (Holes \ {next}) \cup {l} /\ B = Blocks \ {f}
  OBVIOUS
<1>3. Marked(mem, Holes, Blocks) /\ Worded(mem) /\ LiveOK /\ Held
  BY DEF HInv
<1>4. l \in Nat /\ Start <= l /\ Marked(mem', H, B) /\ Apart(mem', H) /\ Start \in Nat /\ End \in Nat
  BY <1>1, <1>2, HeapAssumption DEF Frees, Freed
<1>5. PICK e \in Nat : /\ e <= End /\ Within(mem, mem', l, e)
                       /\ \A u \in B : u + Size(mem, u) <= l \/ e <= u
  BY <1>1, <1>2 DEF Frees, Freed
<1>6. Worded(mem')
  BY <1>3, <1>4, <1>5, WordsKept
<1>7. DOMAIN live' = DOMAIN live \ {p} /\ \A q \in DOMAIN live \ {p} : live'[q] = live[q]
  BY <1>1 DEF Frees
<1>8. LiveOK'
  <2>1. DOMAIN live \subseteq Nat /\ IsFiniteSet(DOMAIN live) /\ Cardinality(DOMAIN live) <= MaxLive
    BY <1>3 DEF LiveOK
  <2>2. /\ IsFiniteSet(DOMAIN live \ {p})
        /\ Cardinality(DOMAIN live \ {p}) =
             IF p \in DOMAIN live THEN Cardinality(DOMAIN live) - 1 ELSE Cardinality(DOMAIN live)
    BY <2>1, FS_RemoveElement
  <2>3. Cardinality(DOMAIN live) \in Nat /\ MaxLive \in Nat
    BY <2>1, FS_CardinalityType, HeapAssumption
  <2> QED
    BY <1>7, <2>1, <2>2, <2>3 DEF LiveOK
<1>9. \A q \in DOMAIN live \ {p} : Header(q) # f
  BY <1>2, <1>3 DEF Header, HeaderSize, LiveOK
<1>10. Blocks' = B
  <2>1. Blocks' = {Header(q) : q \in DOMAIN live'}
    BY DEF Blocks, Header
  <2>2. Blocks' \subseteq B
    BY <1>2, <1>7, <1>9, <2>1 DEF Blocks
  <2>3. B \subseteq Blocks'
    BY <1>2, <1>7, <2>1 DEF Blocks
  <2> QED
    BY <2>2, <2>3
<1>11. Holes' = H
  <2>1. Holes' = Elements(index')
    BY DEF Holes, Elements
  <2> QED
    BY <1>1, <1>2, <2>1 DEF Frees
<1>12. IndexOK'
  BY <1>1 DEF Frees, IndexOK, IndexOrdered, Increasing
<1>13. Marked(mem', Holes', Blocks') /\ Apart(mem', Holes')
  BY <1>4, <1>10, <1>11
<1>14. Held'
  <2> SUFFICES ASSUME NEW q \in DOMAIN live' PROVE Holds(mem', q, live'[q])
    BY DEF Held, Holds, Keeps, Read, Written, Size, Header
  <2>1. q \in DOMAIN live \ {p} /\ live'[q] = live[q]
    BY <1>7
  <2>2. PICK u, T : u = Header(q) /\ T = Holes \cup Blocks
    OBVIOUS
  <2>3. u \in B /\ u \in T /\ Tiling(T, mem)
    BY <1>2, <1>3, <1>9, <2>1, <2>2 DEF Blocks, Marked
  <2>4. u \in Nat /\ Size(mem, u) \in Nat
    BY <2>3, TileInHeap
  <2>5. Size(mem', u) = Size(mem, u)
    BY <1>1, <1>2, <2>3 DEF Frees, Freed
  <2>6. u + Size(mem, u) <= l \/ e <= u
    BY <1>5, <2>3
  <2>7. Holds(mem, q, live[q])
    BY <1>3, <2>1 DEF Held
  <2>8. Holds(mem', q, live[q])
    BY <1>4, <1>5, <2>2, <2>4, <2>5, <2>6, <2>7, HoldsKept
  <2> QED
    BY <2>1, <2>8
<1>15. NeverStops'
  BY <1>1, <1>6, <1>8, <1>12, <1>13, StatusKept DEF Frees
<1>16. Worded(mem)'
  BY <1>6 DEF Worded, Read, Written
<1>17. Marked(mem, Holes, Blocks)' /\ Apart(mem, Holes)'
  BY <1>13
<1> QED
  BY <1>8, <1>12, <1>14, <1>15, <1>16, <1>17 DEF HInv

\* Data written into a block leave its header and its footer alone.
LEMMA BlockFilled ==
    ASSUME NEW m, NEW H, NEW B, Marked(m, H, B), NEW u \in B, NEW d \in Nat,
           d + HeaderSize + FooterSize <= Size(m, u),
           NEW a, a = u + HeaderSize, NEW b, b = a + d, NEW m2, Within(m, m2, a, b)
    PROVE  Marked(m2, H, B) /\ \A t \in H \cup B : Size(m2, t) = Size(m, t)
<1>1. PICK T, n : T = H \cup B /\ n = Size(m, u)
  OBVIOUS
<1>2. Tiling(T, m) /\ u \in T /\ H \cap B = {} /\ BlockMarked(m, u)
  BY <1>1 DEF Marked
<1>3. /\ u \in Nat /\ n \in Nat /\ a = u + 3 /\ a \in Int /\ b \in Int /\ b = a + d
      /\ b + 2 <= u + n
  BY <1>1, <1>2, TileInHeap DEF HeaderSize, FooterSize
<1>4. ASSUME NEW t \in T, t # u
      PROVE  /\ Size(m2, t) = Size(m, t)
             /\ t \in H => HoleMarked(m2, t)
             /\ t \in B => BlockMarked(m2, t)
  <2>1. t + Size(m, t) <= u \/ u + n <= t
    BY <1>1, <1>2, <1>4, TilesApart
  <2>2. t \in Nat /\ Size(m, t) \in Nat
    BY <1>2, TileInHeap
  <2>3. t + Size(m, t) <= a \/ b <= t
    BY <1>3, <2>1, <2>2
  <2> QED
    BY <1>1, <1>3, <2>3, TileOutside
<1>5. PICK f : f = u + n - 2
  OBVIOUS
<1>6. \A x \in {u, u + 1, u + 2, f, f + 1} : Read(m2, x) = Read(m, x)
  <2>1. \A x \in {u, u + 1, u + 2, f, f + 1} : x \in Int \ (a .. b - 1)
    BY <1>3, <1>5
  <2>2. SameOutside(m, m2, a, b)
    BY DEF Within
  <2> QED
    BY <2>1, <2>2, Zenon DEF SameOutside
<1>7. Size(m2, u) = n
  BY <1>1, <1>6 DEF Size
<1>8. BlockMarked(m2, u)
  <2>1. FooterOf(m, u) = f /\ FooterOf(m2, u) = f
    BY <1>1, <1>3, <1>5, <1>7 DEF FooterOf, FooterSize
  <2>2. HasFooter(m2, u)
    BY <1>1, <1>2, <1>6, <1>7, <2>1 DEF HasFooter, BlockMarked, IsMagic
  <2> QED
    BY <1>2, <1>6, <2>2 DEF BlockMarked, IsMagic
<1>9. \A t \in T : Size(m2, t) = Size(m, t)
  BY <1>1, <1>4, <1>7
<1>10. Tiling(T, m2)
  BY <1>2, <1>9, TilesSame
<1>11. \A t \in H : HoleMarked(m2, t)
  BY <1>1, <1>2, <1>4
<1>12. \A t \in B : BlockMarked(m2, t)
  BY <1>1, <1>4, <1>8
<1> QED
  BY <1>1, <1>2, <1>9, <1>10, <1>11, <1>12 DEF Marked

Filling(m, a, d, b, w, m2) ==
    /\ a \in Int /\ d \in Nat /\ b = a + d /\ w \in Word
    /\ m2 = Put(m, a, [i \in 1 .. d |-> w])

FilledWith(m2, a, b, w) == \A x \in a .. b - 1 : x \in Written(m2) /\ Read(m2, x) = w

LEMMA PutData ==
    ASSUME NEW m, NEW a, NEW d, NEW b, NEW w, NEW m2, Filling(m, a, d, b, w, m2)
    PROVE  Within(m, m2, a, b) /\ FilledWith(m2, a, b, w)
<1>0. a \in Int /\ d \in Nat /\ b = a + d /\ w \in Word
  BY DEF Filling
<1>1. PICK s : s = [i \in 1 .. d |-> w]
  OBVIOUS
<1>2. Len(s) = d /\ \A i \in 1 .. d : s[i] = w
  BY <1>0, <1>1
<1>3. b \in Int /\ a .. a + Len(s) - 1 = a .. b - 1
  BY <1>0, <1>2
<1>4. \A x \in a .. b - 1 : s[x - a + 1] = w
  <2>1. \A x \in a .. b - 1 : x - a + 1 \in 1 .. d
    BY <1>0
  <2> QED
    BY <1>2, <2>1
<1>5. PICK I : I = a .. b - 1
  OBVIOUS
<1>6. m2 = [x \in DOMAIN m \cup I |-> IF x \in I THEN s[x - a + 1] ELSE m[x]]
  BY <1>1, <1>3, <1>5 DEF Put, Filling
<1>7. Written(m2) = Written(m) \cup I
  BY <1>6 DEF Written
<1>8. \A x \in I : Read(m2, x) = w
  BY <1>4, <1>5, <1>6 DEF Read
<1>9. \A x \in Int \ I : Read(m2, x) = Read(m, x)
  BY <1>6 DEF Read
<1>10. SameOutside(m, m2, a, b)
  BY <1>5, <1>9 DEF SameOutside
<1>11. ByWords(m, m2)
  BY <1>0, <1>8, <1>9 DEF ByWords
<1>12. Grown(m, m2, a, b)
  BY <1>5, <1>7, Zenon DEF Grown
<1> QED
  BY <1>5, <1>7, <1>8, <1>10, <1>11, <1>12, Zenon DEF Within, FilledWith

LEMMA FillKeeps ==
    ASSUME HInv, NEW p \in DOMAIN live, NEW w \in Words, Fill(p, w)
    PROVE  HInv'
<1>1. PICK u, d, b, H, B, T : /\ u = Header(p) /\ d = live[p].size /\ b = p + d
                              /\ H = Holes /\ B = Blocks /\ T = H \cup B
  OBVIOUS
<1>2. /\ Marked(mem, H, B) /\ Apart(mem, H) /\ u \in B /\ Worded(mem) /\ LiveOK /\ Held /\ IndexOK
  BY <1>1 DEF HInv, Blocks
<1>3. Tiling(T, mem) /\ u \in T
  BY <1>1, <1>2 DEF Marked
<1>4. p \in Nat /\ u \in Nat /\ p = u + HeaderSize
  BY <1>1, <1>2, <1>3, TileInHeap DEF Header, HeaderSize, LiveOK
<1>5. d \in Nat /\ d + HeaderSize + FooterSize <= Size(mem, u) /\ b \in Int
  <2>1. Holds(mem, p, live[p])
    BY <1>2 DEF Held
  <2>2. live[p].size \in Nat /\ live[p].size + HeaderSize + FooterSize <= Size(mem, Header(p))
    BY <2>1 DEF Holds
  <2>3. d \in Nat /\ d + HeaderSize + FooterSize <= Size(mem, u)
    BY <1>1, <2>2
  <2>4. b \in Int
    BY <1>1, <1>4, <2>3
  <2> QED
    BY <2>3, <2>4
<1>6. /\ mem' = Put(mem, p, [i \in 1 .. d |-> w])
      /\ live' = [live EXCEPT ![p].word = w]
      /\ index' = index /\ status' = status
  BY <1>1 DEF Fill
<1>7. w \in Word
  BY HeapAssumption DEF Word
<1>8. /\ Within(mem, mem', p, b)
      /\ \A x \in p .. b - 1 : x \in Written(mem') /\ Read(mem', x) = w
  <2>1. p \in Int /\ b = p + d
    BY <1>1, <1>4
  <2>2. Filling(mem, p, d, b, w, mem')
    BY <1>5, <1>6, <1>7, <2>1 DEF Filling
  <2> QED
    BY <2>2, PutData DEF FilledWith
<1>9. Marked(mem', H, B) /\ \A t \in H \cup B : Size(mem', t) = Size(mem, t)
  <2>1. b = p + d
    BY <1>1
  <2> QED
    BY <1>2, <1>4, <1>5, <1>8, <2>1, BlockFilled
<1>10. Apart(mem', H)
  BY <1>2, <1>9 DEF Apart
<1>11. Worded(mem')
  <2>1. /\ u + Size(mem, u) <= End /\ Size(mem, u) \in Nat /\ Start <= u
        /\ Start \in Nat /\ End \in Nat
    BY <1>3, TileInHeap
  <2>2. Start <= p /\ b <= End
    BY <1>1, <1>4, <1>5, <2>1 DEF HeaderSize, FooterSize
  <2>3. p \in Int
    BY <1>4
  <2> QED
    BY <1>2, <1>5, <1>8, <2>2, <2>3, WordsKept
<1>12. DOMAIN live' = DOMAIN live
  BY <1>6
<1>13. LiveOK'
  BY <1>2, <1>12 DEF LiveOK
<1>14. IndexOK' /\ Holes' = H /\ Blocks' = B
  BY <1>1, <1>2, <1>6, <1>12 DEF IndexOK, IndexOrdered, Holes, Blocks, Header
<1>15. Held'
  <2> SUFFICES ASSUME NEW q \in DOMAIN live PROVE Holds(mem', q, live'[q])
    BY <1>12 DEF Held, Holds, Keeps, Read, Written, Size, Header
  <2>1. CASE q = p
    <3>1. PICK r : r = live'[p]
      OBVIOUS
    <3>2. r = [live[p] EXCEPT !.word = w]
      BY <1>6, <3>1
    <3>3. /\ r \in [size : Nat, pageAlign : {FALSE}, word : Words \cup {NoWord}]
          /\ r.word = w /\ r.size = d
      <4>1. live[p] \in [size : Nat, pageAlign : {FALSE}, word : Words \cup {NoWord}]
        BY <1>2 DEF Held, Holds
      <4> QED
        BY <1>1, <3>2, <4>1
    <3>4. Keeps(mem', u, d, w)
      <4>1. u + HeaderSize .. u + HeaderSize + d - 1 = p .. b - 1
        BY <1>1, <1>4, <1>5
      <4> QED
        BY <1>8, <4>1 DEF Keeps
    <3>5. d + HeaderSize + FooterSize <= Size(mem', u)
      BY <1>1, <1>2, <1>5, <1>9
    <3> QED
      BY <1>1, <1>5, <2>1, <3>1, <3>3, <3>4, <3>5 DEF Holds
  <2>2. CASE q # p
    <3>1. live'[q] = live[q]
      BY <1>6, <2>2
    <3>2. PICK v : v = Header(q)
      OBVIOUS
    <3>3. v \in B /\ v \in T /\ v # u
      BY <1>1, <1>2, <1>4, <2>2, <3>2 DEF Blocks, Header, HeaderSize, LiveOK
    <3>4. v \in Nat /\ Size(mem, v) \in Nat /\ Size(mem, u) \in Nat
      BY <1>3, <3>3, TileInHeap
    <3>5. v + Size(mem, v) <= u \/ u + Size(mem, u) <= v
      BY <1>3, <3>3, TilesApart
    <3>6. v + Size(mem, v) <= p \/ b <= v
      BY <1>1, <1>4, <1>5, <3>4, <3>5 DEF HeaderSize, FooterSize
    <3>7. Holds(mem, q, live[q]) /\ Size(mem', v) = Size(mem, v) /\ p \in Int
      BY <1>1, <1>2, <1>4, <1>9, <3>3 DEF Held
    <3>8. Holds(mem', q, live[q])
      BY <1>5, <1>8, <3>2, <3>4, <3>6, <3>7, HoldsKept
    <3> QED
      BY <3>1, <3>8
  <2> QED
    BY <2>1, <2>2
<1>16. NeverStops'
  BY <1>6 DEF HInv, NeverStops
<1>17. Worded(mem)' /\ Marked(mem, Holes, Blocks)' /\ Apart(mem, Holes)'
  BY <1>9, <1>10, <1>11, <1>14
<1> QED
  BY <1>13, <1>14, <1>15, <1>16, <1>17 DEF HInv

-----------------------------------------------------------------------------
(* The invariant holds.                                                    *)

LEMMA InitHolds == Init => HInv
<1> SUFFICES ASSUME Init PROVE HInv
  OBVIOUS
<1>1. PICK m0, n : m0 = [a \in {} |-> 0] /\ n = End - Start
  OBVIOUS
<1>2. /\ mem = Put(m0, Start, HeaderWords(1, n)) /\ index = <<Start>>
      /\ status = "running" /\ live = [p \in {} |-> 0]
  BY <1>1 DEF Init
<1>3. /\ Start \in Nat /\ End \in Nat /\ n \in Nat /\ n >= 3 /\ Start + n = End
      /\ End < WordMod /\ WordMod \in Nat /\ MaxLive \in Nat
  BY <1>1, HeapAssumption DEF HeaderSize
<1>4. /\ Written(mem) = Written(m0) \cup {Start, Start + 1, Start + 2}
      /\ Read(mem, Start) = MAGIC /\ Read(mem, Start + 1) = 1 /\ Read(mem, Start + 2) = n
      /\ \A x \in Int \ {Start, Start + 1, Start + 2} : Read(mem, x) = Read(m0, x)
  <2>1. Start \in Int /\ 1 \in Int /\ n \in Int
    BY <1>3
  <2> QED
    BY <1>2, <2>1, PutHeader
<1>5. Written(m0) = {} /\ \A x \in Int : Read(m0, x) = 0
  BY <1>1 DEF Written, Read
<1>6. Worded(mem)
  <2>1. {Start, Start + 1, Start + 2} \subseteq Start .. End - 1
    BY <1>3
  <2>2. Written(mem) \subseteq Start .. End - 1
    BY <1>4, <1>5, <2>1
  <2>3. \A x \in Int : Read(mem, x) \in {MAGIC, 1, n, 0}
    BY <1>4, <1>5
  <2>4. {MAGIC, 1, n, 0} \subseteq Word
    BY <1>3 DEF Word
  <2> QED
    BY <2>2, <2>3, <2>4 DEF Worded
<1>7. DOMAIN live = {}
  BY <1>2
<1>8. LiveOK
  BY <1>3, <1>7, FS_EmptySet DEF LiveOK
<1>9. Holes = {Start} /\ Blocks = {}
  BY <1>2, <1>7 DEF Holes, Blocks
<1>10. IndexOK
  BY <1>2, <1>3 DEF IndexOK, IndexOrdered
<1>11. Size(mem, Start) = n
  BY <1>4 DEF Size
<1>12. Tiling({Start}, mem)
  BY <1>3, <1>11 DEF Tiling
<1>13. HoleMarked(mem, Start)
  BY <1>3, <1>4, <1>11 DEF HoleMarked, IsMagic, HeaderSize
<1>14. Marked(mem, Holes, Blocks)
  <2>1. Holes \cup Blocks = {Start} /\ Holes \cap Blocks = {}
    BY <1>9
  <2> QED
    BY <1>9, <1>12, <1>13, <2>1 DEF Marked
<1>15. Apart(mem, Holes)
  BY <1>3, <1>9, <1>11 DEF Apart
<1>16. Held /\ NeverStops
  BY <1>2, <1>7 DEF Held, NeverStops
<1> QED
  BY <1>6, <1>8, <1>10, <1>14, <1>15, <1>16 DEF HInv

LEMMA NextKeeps == PlainClients /\ HInv /\ [Next]_vars => HInv'
<1> SUFFICES ASSUME PlainClients, HInv, [Next]_vars PROVE HInv'
  OBVIOUS
<1>1. ASSUME NEW r \in Requests, Allocate(r.size, r.pageAlign) PROVE HInv'
  <2>1. r.size \in Nat /\ r.pageAlign = FALSE
    BY HeapAssumption DEF PlainClients
  <2> QED
    BY <1>1, <2>1, AllocateKeeps
<1>2. CASE UNCHANGED vars
  <2>1. mem' = mem /\ index' = index /\ status' = status /\ live' = live
    BY <1>2 DEF vars
  <2> QED
    BY <2>1 DEF HInv, IndexOK, IndexOrdered, LiveOK, Holes, Blocks, Header, Held, NeverStops
<1>3. ASSUME NEW r \in Requests, AllocateFails(r.size, r.pageAlign) PROVE HInv'
  BY <1>2, <1>3 DEF AllocateFails
<1>4. ASSUME NEW p \in DOMAIN live, Free(p) PROVE HInv'
  BY <1>4, FreeKeeps
<1>5. ASSUME NEW p \in DOMAIN live, NEW w \in Words, Fill(p, w) PROVE HInv'
  BY <1>5, FillKeeps
<1> QED
  BY <1>1, <1>2, <1>3, <1>4, <1>5 DEF Next

\* The marks and the client's data are right after every allocate, free and store.
THEOREM Invariance == ASSUME PlainClients PROVE Spec => []HInv
<1>1. Init => HInv
  BY InitHolds
<1>2. HInv /\ [Next]_vars => HInv'
  BY NextKeeps
<1> QED
  BY <1>1, <1>2, PTL DEF Spec

-----------------------------------------------------------------------------
(* What it implies.                                                        *)

LEMMA TiledFollows == HInv => Tiled
<1> SUFFICES ASSUME HInv PROVE Tiled
  OBVIOUS
<1>1. PICK T : T = Holes \cup Blocks
  OBVIOUS
<1>2. Tiling(T, mem) /\ Holes \cap Blocks = {}
  BY <1>1 DEF HInv, Marked
<1>3. ASSUME NEW t \in T PROVE IsMagic(mem, t) /\ IsHole(mem, t) = (t \in Holes)
  <2>1. t \in Holes => IsMagic(mem, t) /\ Read(mem, t + 1) = 1
    BY DEF HInv, Marked, HoleMarked
  <2>2. t \in Blocks => IsMagic(mem, t) /\ Read(mem, t + 1) = 0
    BY DEF HInv, Marked, BlockMarked
  <2> QED
    BY <1>1, <1>2, <2>1, <2>2 DEF IsHole
<1>4. \A t \in T :
        /\ Size(mem, t) > 0
        /\ t + Size(mem, t) \in T \cup {End}
        /\ \A u \in T : t < u => t + Size(mem, t) <= u
  BY <1>2 DEF Tiling
<1>5. Start \in T
  BY <1>2 DEF Tiling
<1> QED
  BY <1>1, <1>2, <1>3, <1>4, <1>5 DEF Tiled

LEMMA BlocksFollow == HInv => BlocksSound
<1> SUFFICES ASSUME HInv PROVE BlocksSound
  OBVIOUS
<1>1. PICK T : T = Holes \cup Blocks
  OBVIOUS
<1>2. Tiling(T, mem) /\ DOMAIN live \subseteq Nat /\ Held
  BY <1>1 DEF HInv, Marked, LiveOK
<1>3. ASSUME NEW p \in DOMAIN live
      PROVE  /\ Header(p) \in T /\ p \in Nat /\ Header(p) = p - 3
             /\ live[p].size \in Nat /\ live[p].pageAlign = FALSE
             /\ live[p].size + 5 <= Size(mem, Header(p)) /\ Size(mem, Header(p)) \in Nat
             /\ Start <= Header(p) /\ Header(p) + Size(mem, Header(p)) <= End
  <2>1. PICK h : h = Header(p)
    OBVIOUS
  <2>2. h \in T /\ p \in Nat /\ h = p - 3
    BY <1>1, <1>2, <2>1 DEF Blocks, Header, HeaderSize
  <2>3. Holds(mem, p, live[p])
    BY <1>2 DEF Held
  <2>4. /\ live[p].size \in Nat /\ live[p].pageAlign = FALSE
        /\ live[p].size + HeaderSize + FooterSize <= Size(mem, Header(p))
    BY <2>3 DEF Holds
  <2>5. Size(mem, h) \in Nat /\ Start <= h /\ h + Size(mem, h) <= End
    BY <1>2, <2>2, TileInHeap
  <2> QED
    BY <2>1, <2>2, <2>4, <2>5 DEF HeaderSize, FooterSize
<1>4. \A p \in DOMAIN live :
        /\ Data(p) \subseteq Start + HeaderSize .. End - 1
        /\ live[p].pageAlign => p % PageSize = 0
  <2> SUFFICES ASSUME NEW p \in DOMAIN live
               PROVE  /\ Data(p) \subseteq Start + HeaderSize .. End - 1
                      /\ live[p].pageAlign => p % PageSize = 0
    OBVIOUS
  <2>1. PICK d : d = live[p].size
    OBVIOUS
  <2>2. PICK z : z = Size(mem, Header(p))
    OBVIOUS
  <2>3. /\ p \in Nat /\ d \in Nat /\ z \in Nat /\ d + 5 <= z /\ Start <= p - 3 /\ p - 3 + z <= End
        /\ live[p].pageAlign = FALSE
    BY <1>3, <2>1, <2>2
  <2>4. p .. p + d - 1 \subseteq Start + HeaderSize .. End - 1
    BY <2>3, HeapAssumption DEF HeaderSize
  <2> QED
    BY <2>1, <2>3, <2>4 DEF Data
<1>5. \A p, q \in DOMAIN live : p < q => p + live[p].size <= q
  <2> SUFFICES ASSUME NEW p \in DOMAIN live, NEW q \in DOMAIN live, p < q
               PROVE  p + live[p].size <= q
    OBVIOUS
  <2>1. PICK h, g, z, d : h = Header(p) /\ g = Header(q) /\ z = Size(mem, h) /\ d = live[p].size
    OBVIOUS
  <2>2. /\ p \in Nat /\ q \in Nat /\ h = p - 3 /\ g = q - 3 /\ d \in Nat /\ z \in Nat /\ d + 5 <= z
        /\ h \in T /\ g \in T
    BY <1>3, <2>1
  <2>3. h < g
    BY <2>2
  <2>4. h + z <= g
    BY <1>2, <2>1, <2>2, <2>3 DEF Tiling
  <2> QED
    BY <2>1, <2>2, <2>4
<1> QED
  BY <1>4, <1>5 DEF BlocksSound

LEMMA DataFollow == HInv => DataPreserved
<1> SUFFICES ASSUME HInv, NEW p \in DOMAIN live, live[p].word # NoWord, NEW a \in Data(p)
             PROVE  mem[a] = live[p].word
  BY DEF DataPreserved
<1>1. Keeps(mem, Header(p), live[p].size, live[p].word)
  BY DEF HInv, Held, Holds
<1>2. p \in Nat /\ Header(p) + HeaderSize = p
  BY DEF HInv, LiveOK, Header, HeaderSize
<1>3. a \in Written(mem) /\ Read(mem, a) = live[p].word
  BY <1>1, <1>2 DEF Keeps, Data
<1> QED
  BY <1>3 DEF Read, Written

LEMMA TypeFollows == PlainClients /\ HInv => TypeOK
<1> SUFFICES ASSUME PlainClients, HInv PROVE TypeOK
  OBVIOUS
<1>1. status = "running"
  BY DEF HInv, NeverStops
<1>2. ASSUME NEW a \in DOMAIN mem
      PROVE  /\ Start <= a /\ a < End
             /\ mem[a] = MAGIC \/ (0 <= mem[a] /\ mem[a] < WordMod)
  <2>1. a \in Start .. End - 1 /\ Start \in Nat /\ End \in Nat /\ WordMod \in Nat
    BY HeapAssumption DEF HInv, Worded, Written
  <2>2. Read(mem, a) \in Word
    BY <2>1 DEF HInv, Worded
  <2>3. mem[a] \in Word
    BY <2>2 DEF Read
  <2> QED
    BY <2>1, <2>3 DEF Word
<1>3. Len(index) <= IndexSize + 1
  <2>1. index \in Seq(Nat) /\ Increasing(index) /\ Holes = Elements(index)
    BY DEF HInv, IndexOK, IndexOrdered, Increasing, Holes, Elements
  <2>2. PICK L, B : L = DOMAIN live /\ B = Blocks
    OBVIOUS
  <2>3. L \subseteq Nat /\ IsFiniteSet(L) /\ Cardinality(L) <= MaxLive
    BY <2>2 DEF HInv, LiveOK
  <2>4. \A b \in B : b + HeaderSize \in L
    BY <2>2, <2>3 DEF Blocks, Header, HeaderSize
  <2>5. Marked(mem, Elements(index), B) /\ Apart(mem, Elements(index))
    BY <2>1, <2>2 DEF HInv
  <2>6. Len(index) <= Cardinality(L) + 1
    BY <2>1, <2>3, <2>4, <2>5, FewHoles
  <2>7. Cardinality(L) \in Nat /\ Len(index) \in Nat
    BY <2>1, <2>3, FS_CardinalityType, LenProperties
  <2>8. MaxLive < IndexSize /\ MaxLive \in Nat /\ IndexSize \in Nat
    BY HeapAssumption DEF PlainClients
  <2> QED
    BY <2>3, <2>6, <2>7, <2>8
<1>4. IsInjective(index)
  <2>1. index \in Seq(Nat) /\ Increasing(index)
    BY DEF HInv, IndexOK, IndexOrdered, Increasing
  <2>2. ASSUME NEW i \in DOMAIN index, NEW j \in DOMAIN index, index[i] = index[j] PROVE i = j
    <3>1. i \in Nat /\ j \in Nat /\ index[i] \in Nat
      BY <2>1, LenProperties, ElementOfSeq
    <3>2. i < j => index[i] < index[j]
      BY <2>1 DEF Increasing
    <3>3. j < i => index[j] < index[i]
      BY <2>1 DEF Increasing
    <3> QED
      BY <2>2, <3>1, <3>2, <3>3
  <2> QED
    BY <2>2 DEF IsInjective
<1>5. \A p \in DOMAIN live : live[p].word \in Words \cup {NoWord}
  <2> SUFFICES ASSUME NEW p \in DOMAIN live PROVE live[p].word \in Words \cup {NoWord}
    OBVIOUS
  <2>1. live[p] \in [size : Nat, pageAlign : {FALSE}, word : Words \cup {NoWord}]
    BY DEF HInv, Held, Holds
  <2> QED
    BY <2>1
<1> QED
  BY <1>1, <1>2, <1>3, <1>4, <1>5 DEF TypeOK

\* The heap's variables stay in their ranges: no word outside of the heap is
\* written, and the index has room for all holes.
THEOREM HeapTypes == ASSUME PlainClients PROVE Spec => []TypeOK
<1>1. HInv => TypeOK
  BY TypeFollows
<1> QED
  BY <1>1, Invariance, PTL

\* No client of allocate and free makes the heap spin or leave its memory.
THEOREM HeapNeverStops == ASSUME PlainClients PROVE Spec => []NeverStops
<1>1. HInv => NeverStops
  BY DEF HInv
<1> QED
  BY <1>1, Invariance, PTL

\* Holes and blocks tile the heap, each with the size its header says.
THEOREM HeapTiled == ASSUME PlainClients PROVE Spec => []Tiled
<1>1. HInv => Tiled
  BY TiledFollows
<1> QED
  BY <1>1, Invariance, PTL

\* free merges every pair of neighbouring holes.
THEOREM HeapCoalesced == ASSUME PlainClients PROVE Spec => []Coalesced
<1>1. HInv => Coalesced
  BY DEF HInv, Apart, Coalesced
<1> QED
  BY <1>1, Invariance, PTL

\* Blocks in use lie in the heap and do not overlap.
THEOREM HeapBlocksSound == ASSUME PlainClients PROVE Spec => []BlocksSound
<1>1. HInv => BlocksSound
  BY BlocksFollow
<1> QED
  BY <1>1, Invariance, PTL

\* No allocate and no free changes the data of a block in use.
THEOREM HeapDataPreserved == ASSUME PlainClients PROVE Spec => []DataPreserved
<1>1. HInv => DataPreserved
  BY DataFollow
<1> QED
  BY <1>1, Invariance, PTL

\* OrderedArray's add and erase keep the index in the order of addresses.
THEOREM HeapIndexOrdered == ASSUME PlainClients PROVE Spec => []IndexOrdered
<1>1. HInv => IndexOrdered
  BY DEF HInv, IndexOK
<1> QED
  BY <1>1, Invariance, PTL
=============================================================================
