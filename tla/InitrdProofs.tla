---------------------------- MODULE InitrdProofs ----------------------------
(***************************************************************************)
(* Proofs about Initrd, for any files, names, sizes and readers; what is   *)
(* printed needs NamesTerminated and OneReader.                            *)
(*                                                                         *)
(* The image: FlattenSeq holds each part behind the parts before it, so    *)
(* the offset that mk_initrd summed up is where the file begins.           *)
(* FlattenSeq is defined by recursion; what it computes is shown by the    *)
(* least number for which it would be wrong (NoLeast).  The names: the     *)
(* kernel's strncmp compares one character more than it is asked for, and  *)
(* so finds the file of that very name.  Then the place of the only reader *)
(* in its loop determines what it has printed (Place).                     *)
(***************************************************************************)
EXTENDS InitrdProperties, SequenceTheorems, WellFoundedInduction, TLAPS

-----------------------------------------------------------------------------
(* Sequences put together.                                                 *)

\* Any set of numbers has a least element.
LEMMA Least ==
    ASSUME NEW T, T \subseteq Nat, T # {}
    PROVE  Min(T) \in T /\ \A i \in T : Min(T) <= i
<1>1. PICK x \in T : \A y \in T : ~(<<y, x>> \in OpToRel(<, Nat))
  BY NatLessThanWellFounded, WFMin
<1>2. \A y \in T : ~(y < x)
  <2>1. \A y \in T : y < x => <<y, x>> \in OpToRel(<, Nat)
    BY Zenon DEF OpToRel
  <2> QED
    BY <1>1, <2>1
<1>3. \A y \in T : x <= y
  BY <1>2
<1>4. Min(T) = CHOOSE z \in T : \A y \in T : z =< y
  BY DEF Min
<1> QED
  BY <1>3, <1>4, Zenon

\* What holds of no least number holds of none: induction, by sets.
LEMMA NoLeast ==
    ASSUME NEW n \in Nat, NEW T, T \subseteq 1 .. n,
           \A i \in T : i > 1 /\ i - 1 \in T
    PROVE  T = {}
<1> SUFFICES ASSUME T # {} PROVE FALSE
  OBVIOUS
<1>1. T \subseteq Nat
  OBVIOUS
<1>2. PICK m \in T : \A i \in T : m <= i
  BY <1>1, Least
<1>3. m \in Nat /\ m > 1 /\ m - 1 \in T
  BY <1>1
<1>4. m <= m - 1
  BY <1>2, <1>3
<1> QED
  BY <1>3, <1>4

Joined(s, t, r) ==
    /\ Len(s) \in Nat /\ Len(t) \in Nat /\ Len(r) = Len(s) + Len(t)
    /\ \A k \in 1 .. Len(s) : r[k] = s[k]
    /\ \A k \in 1 .. Len(t) : r[Len(s) + k] = t[k]

LEMMA Join ==
    ASSUME NEW S, NEW s \in Seq(S), NEW t \in Seq(S)
    PROVE  s \o t \in Seq(S) /\ Joined(s, t, s \o t)
<1>1. PICK r : r = s \o t
  OBVIOUS
<1>2. PICK m, n : m = Len(s) /\ n = Len(t)
  OBVIOUS
<1>3. m \in Nat /\ n \in Nat
  BY <1>2, LenProperties
<1>4. /\ r \in Seq(S) /\ Len(r) = m + n
      /\ \A k \in 1 .. m + n : r[k] = IF k <= m THEN s[k] ELSE t[k - m]
  BY <1>1, <1>2, ConcatProperties
<1>5. ASSUME NEW k \in 1 .. n PROVE r[m + k] = t[k]
  <2>1. PICK l : l = m + k
    OBVIOUS
  <2>2. l \in 1 .. m + n /\ ~(l <= m) /\ l - m = k
    BY <1>3, <2>1
  <2> QED
    BY <1>4, <2>1, <2>2
<1>6. Joined(s, t, r)
  BY <1>2, <1>3, <1>4, <1>5 DEF Joined
<1> QED
  BY <1>1, <1>4, <1>6

\* g[i] is the first i sequences of ss, one behind the other.
Flattens(g, ss) ==
    g = [i \in 1 .. Len(ss) |-> IF i = 1 THEN ss[i] ELSE g[i - 1] \o ss[i]]

LEMMA FlattenExists ==
    ASSUME NEW ss, Len(ss) \in Nat \ {0}
    PROVE  \E g : Flattens(g, ss)
<1>0. PICK n \in Nat \ {0} : n = Len(ss)
  OBVIOUS
<1> DEFINE Upwards(g, m) == g = [i \in 1 .. m |-> IF i = 1 THEN ss[i] ELSE g[i - 1] \o ss[i]]
<1> DEFINE T == {m \in 1 .. n : ~ \E g : Upwards(g, m)}
<1>1. ASSUME NEW m \in T PROVE m > 1 /\ m - 1 \in T
  <2>1. m # 1
    <3> SUFFICES ASSUME m = 1 PROVE FALSE
      OBVIOUS
    <3>1. PICK g : g = [i \in 1 .. 1 |-> ss[i]]
      OBVIOUS
    <3>2. \A i \in 1 .. 1 : i = 1
      OBVIOUS
    <3>3. g = [i \in 1 .. 1 |-> IF i = 1 THEN ss[i] ELSE g[i - 1] \o ss[i]]
      BY <3>1, <3>2
    <3> QED
      BY <3>3
  <2>2. m \in 1 .. n /\ m - 1 \in 1 .. n /\ m > 1
    BY <2>1
  <2>3. ASSUME NEW g, Upwards(g, m - 1) PROVE FALSE
    <3>1. PICK k \in 1 .. n : k = m - 1 /\ m = k + 1
      BY <2>2
    <3>2. PICK h : h = [i \in 1 .. m |-> IF i = m THEN g[k] \o ss[m] ELSE g[i]]
      OBVIOUS
    <3>3. \A i \in 1 .. k : h[i] = g[i] /\ i \in 1 .. m
      BY <2>2, <3>1, <3>2
    <3>4. ASSUME NEW i \in 1 .. m
          PROVE  h[i] = IF i = 1 THEN ss[i] ELSE h[i - 1] \o ss[i]
      <4>1. CASE i = m
        <5>1. m \in 1 .. m /\ k \in 1 .. k /\ m - 1 = k /\ m # 1
          BY <2>2, <3>1
        <5>2. h[m] = g[k] \o ss[m]
          BY <3>2, <5>1
        <5>3. h[k] = g[k]
          BY <3>3, <5>1
        <5> QED
          BY <4>1, <5>1, <5>2, <5>3
      <4>2. CASE i # m
        <5>1. i \in 1 .. k /\ (i # 1 => i - 1 \in 1 .. k)
          BY <2>2, <3>1, <4>2
        <5>2. g[i] = IF i = 1 THEN ss[i] ELSE g[i - 1] \o ss[i]
          BY <2>3, <3>1, <5>1
        <5> QED
          BY <3>3, <5>1, <5>2
      <4> QED
        BY <4>1, <4>2
    <3>5. h = [i \in 1 .. m |-> IF i = 1 THEN ss[i] ELSE h[i - 1] \o ss[i]]
      BY <3>2, <3>4
    <3> QED
      BY <3>5
  <2> QED
    BY <2>2, <2>3
<1>2. T = {}
  <2> HIDE DEF T
  <2>1. T \subseteq 1 .. n
    BY DEF T
  <2> QED
    BY <1>1, <2>1, NoLeast
<1>3. n \in 1 .. n
  BY <1>0
<1>4. \E g : Upwards(g, n)
  BY <1>2, <1>3
<1> QED
  BY <1>0, <1>4 DEF Flattens

LEMMA Flattened ==
    ASSUME NEW ss, Len(ss) \in Nat \ {0}
    PROVE  \E g : Flattens(g, ss) /\ FlattenSeq(ss) = g[Len(ss)]
<1>1. PICK n : n = Len(ss)
  OBVIOUS
<1>2. PICK g : g = CHOOSE h : h = [i \in 1 .. n |-> IF i = 1 THEN ss[i] ELSE h[i - 1] \o ss[i]]
  OBVIOUS
<1>3. \E h : h = [i \in 1 .. n |-> IF i = 1 THEN ss[i] ELSE h[i - 1] \o ss[i]]
  BY <1>1, FlattenExists DEF Flattens
<1>4. Flattens(g, ss)
  BY <1>1, <1>2, <1>3 DEF Flattens
<1>5. FlattenSeq(ss) = g[n]
  BY <1>1, <1>2 DEF FlattenSeq
<1> QED
  BY <1>1, <1>4, <1>5

LEMMA FlattenTyped ==
    ASSUME NEW S, NEW ss \in Seq(Seq(S)), NEW g, Flattens(g, ss)
    PROVE  \A i \in 1 .. Len(ss) : g[i] \in Seq(S)
<1> DEFINE T == {i \in 1 .. Len(ss) : g[i] \notin Seq(S)}
<1>0. Len(ss) \in Nat /\ \A i \in 1 .. Len(ss) : ss[i] \in Seq(S)
  BY LenProperties, ElementOfSeq
<1>1. ASSUME NEW i \in T PROVE i > 1 /\ i - 1 \in T
  <2>1. i \in 1 .. Len(ss) /\ g[i] = IF i = 1 THEN ss[i] ELSE g[i - 1] \o ss[i]
    BY DEF Flattens
  <2>2. i > 1 /\ i - 1 \in 1 .. Len(ss)
    BY <1>0, <2>1
  <2>3. g[i - 1] \notin Seq(S)
    <3> SUFFICES ASSUME g[i - 1] \in Seq(S) PROVE FALSE
      OBVIOUS
    <3> QED
      BY <1>0, <2>1, <2>2, ConcatProperties
  <2> QED
    BY <2>2, <2>3
<1>2. T = {}
  <2> HIDE DEF T
  <2>1. T \subseteq 1 .. Len(ss)
    BY DEF T
  <2> QED
    BY <1>0, <1>1, <2>1, NoLeast
<1> QED
  BY <1>2

\* What has been put together stays.
Begins(s, t) == Len(s) <= Len(t) /\ \A k \in 1 .. Len(s) : t[k] = s[k]

LEMMA JoinBegins ==
    ASSUME NEW s, NEW t, NEW r, Joined(s, t, r)
    PROVE  Begins(s, r)
  BY DEF Begins, Joined

LEMMA FlattenBegins ==
    ASSUME NEW S, NEW ss \in Seq(Seq(S)), NEW g, Flattens(g, ss),
           NEW i \in 1 .. Len(ss)
    PROVE  \A j \in i .. Len(ss) : Begins(g[i], g[j])
<1> DEFINE T == {j \in i .. Len(ss) : ~Begins(g[i], g[j])}
<1>0. /\ Len(ss) \in Nat /\ \A j \in 1 .. Len(ss) : ss[j] \in Seq(S)
      /\ \A j \in 1 .. Len(ss) : g[j] \in Seq(S) /\ Len(g[j]) \in Nat
  BY LenProperties, ElementOfSeq, FlattenTyped
<1>1. ASSUME NEW j \in T PROVE j > 1 /\ j - 1 \in T
  <2>1. j \in i .. Len(ss) /\ j \in 1 .. Len(ss) /\ ~Begins(g[i], g[j])
    BY <1>0
  <2>2. j # i
    BY <1>0, <2>1 DEF Begins
  <2>3. PICK k : k = j - 1
    OBVIOUS
  <2>4. k \in i .. Len(ss) /\ k \in 1 .. Len(ss) /\ j > 1
    BY <1>0, <2>1, <2>2, <2>3
  <2>5. g[j] = g[k] \o ss[j]
    <3>1. g[j] = IF j = 1 THEN ss[j] ELSE g[j - 1] \o ss[j]
      BY <2>1 DEF Flattens
    <3>2. j # 1
      BY <2>4
    <3> QED
      BY <2>3, <3>1, <3>2, Zenon
  <2>6. Begins(g[k], g[j])
    <3>1. g[k] \in Seq(S) /\ ss[j] \in Seq(S)
      BY <1>0, <2>1, <2>4
    <3>2. Joined(g[k], ss[j], g[j])
      BY <2>5, <3>1, Join, Zenon
    <3> QED
      BY <3>2, JoinBegins
  <2>7. ASSUME Begins(g[i], g[k]) PROVE FALSE
    <3>1. Begins(g[i], g[j])
      BY <1>0, <2>1, <2>4, <2>6, <2>7 DEF Begins
    <3> QED
      BY <2>1, <3>1
  <2> QED
    BY <2>3, <2>4, <2>7
<1>2. T = {}
  <2> HIDE DEF T
  <2>1. T \subseteq 1 .. Len(ss)
    BY <1>0 DEF T
  <2> QED
    BY <1>0, <1>1, <2>1, NoLeast
<1> QED
  BY <1>2

Starts(tt, ss) ==
    /\ Len(ss) \in Nat /\ Len(tt) \in 0 .. Len(ss)
    /\ \A i \in 1 .. Len(tt) : tt[i] = ss[i]

LEMMA FlattenAgrees ==
    ASSUME NEW ss, NEW tt, Starts(tt, ss),
           NEW g, NEW h, Flattens(g, ss), Flattens(h, tt)
    PROVE  \A i \in 1 .. Len(tt) : h[i] = g[i]
<1> DEFINE T == {i \in 1 .. Len(tt) : h[i] # g[i]}
<1>1. ASSUME NEW i \in T PROVE i > 1 /\ i - 1 \in T
  <2>1. /\ i \in 1 .. Len(tt) /\ i \in 1 .. Len(ss) /\ h[i] # g[i] /\ tt[i] = ss[i]
        /\ Len(tt) \in Nat
    BY DEF Starts
  <2>2. /\ g[i] = IF i = 1 THEN ss[i] ELSE g[i - 1] \o ss[i]
        /\ h[i] = IF i = 1 THEN ss[i] ELSE h[i - 1] \o ss[i]
    BY <2>1 DEF Flattens
  <2>3. i # 1 /\ h[i - 1] # g[i - 1]
    BY <2>1, <2>2
  <2> QED
    BY <2>1, <2>3
<1>2. T = {}
  <2> HIDE DEF T
  <2>1. T \subseteq 1 .. Len(tt) /\ Len(tt) \in Nat
    BY DEF T, Starts
  <2> QED
    BY <1>1, <2>1, NoLeast
<1> QED
  BY <1>2

HasPart(whole, first, part) ==
    /\ first \in Nat /\ Len(whole) \in Nat
    /\ \A k \in 1 .. Len(part) :
          /\ first + k \in 1 .. Len(whole)
          /\ whole[first + k] = part[k]

LengthBefore(ss, i) == Len(FlattenSeq([j \in 1 .. i - 1 |-> ss[j]]))

\* FlattenSeq holds each part, behind the parts before it.
LEMMA FlattenPart ==
    ASSUME NEW S, NEW ss \in Seq(Seq(S)), NEW i \in 1 .. Len(ss)
    PROVE  HasPart(FlattenSeq(ss), LengthBefore(ss, i), ss[i])
<1> DEFINE first == LengthBefore(ss, i)
<1> SUFFICES /\ first \in Nat /\ Len(FlattenSeq(ss)) \in Nat
             /\ \A k \in 1 .. Len(ss[i]) :
                   /\ first + k \in 1 .. Len(FlattenSeq(ss))
                   /\ FlattenSeq(ss)[first + k] = ss[i][k]
  BY Zenon DEF HasPart
<1>9. first = Len(FlattenSeq([j \in 1 .. i - 1 |-> ss[j]]))
  BY DEF LengthBefore
<1> HIDE DEF first
<1>0. /\ Len(ss) \in Nat \ {0} /\ \A j \in 1 .. Len(ss) : ss[j] \in Seq(S)
      /\ Len(ss[i]) \in Nat
  BY LenProperties, ElementOfSeq
<1>1. PICK n : n = Len(ss)
  OBVIOUS
<1>2. n \in Nat \ {0} /\ i \in 1 .. n
  BY <1>0, <1>1
<1>3. PICK g : Flattens(g, ss) /\ FlattenSeq(ss) = g[n]
  BY <1>1, <1>2, Flattened
<1>4. \A j \in 1 .. n : g[j] \in Seq(S) /\ Len(g[j]) \in Nat
  BY <1>1, <1>3, FlattenTyped, LenProperties
<1>5. PICK tt : tt = [j \in 1 .. i - 1 |-> ss[j]]
  OBVIOUS
<1>6. Len(tt) = i - 1
  BY <1>2, <1>5
<1>7. CASE i = 1
  <2>1. FlattenSeq(tt) = tt
    BY <1>6, <1>7 DEF FlattenSeq
  <2>2. first = 0
    BY <1>5, <1>6, <1>7, <1>9, <2>1
  <2>3. g[i] = ss[i]
    BY <1>1, <1>2, <1>3, <1>7 DEF Flattens
  <2>4. Begins(g[i], g[n])
    BY <1>1, <1>2, <1>3, FlattenBegins
  <2>5. /\ Len(ss[i]) <= Len(FlattenSeq(ss)) /\ Len(FlattenSeq(ss)) \in Nat
        /\ \A k \in 1 .. Len(ss[i]) : FlattenSeq(ss)[k] = ss[i][k]
    BY <1>2, <1>3, <1>4, <2>3, <2>4 DEF Begins
  <2>6. \A k \in 1 .. Len(ss[i]) : first + k = k
    BY <1>0, <2>2
  <2> QED
    <3>1. ASSUME NEW k \in 1 .. Len(ss[i])
          PROVE  /\ first + k \in 1 .. Len(FlattenSeq(ss))
                 /\ FlattenSeq(ss)[first + k] = ss[i][k]
      <4>1. PICK c, m : c = Len(FlattenSeq(ss)) /\ m = Len(ss[i])
        OBVIOUS
      <4>2. c \in Nat /\ m \in Nat /\ m <= c /\ k \in 1 .. m
        BY <1>0, <2>5, <4>1
      <4>3. k \in 1 .. c /\ first + k = k
        BY <2>6, <4>2
      <4> QED
        BY <2>5, <4>1, <4>3, Zenon
    <3> QED
      BY <2>2, <3>1
<1>8. CASE i > 1
  <2>1. PICK m : m = i - 1
    OBVIOUS
  <2>2. m \in 1 .. n /\ Len(tt) = m /\ m \in Nat \ {0}
    BY <1>2, <1>6, <1>8, <2>1
  <2>3. PICK h : Flattens(h, tt) /\ FlattenSeq(tt) = h[m]
    BY <2>2, Flattened
  <2>4. h[m] = g[m]
    <3>1. \A j \in 1 .. Len(tt) : tt[j] = ss[j]
      BY <1>5, <1>6
    <3>2. Starts(tt, ss)
      BY <1>1, <1>2, <2>2, <3>1 DEF Starts
    <3>3. \A j \in 1 .. Len(tt) : h[j] = g[j]
      BY <1>3, <2>3, <3>2, FlattenAgrees
    <3> QED
      BY <2>2, <3>3
  <2>5. first = Len(g[m]) /\ first \in Nat
    BY <1>4, <1>5, <1>9, <2>2, <2>3, <2>4
  <2>6. g[i] = g[m] \o ss[i]
    <3>1. g[i] = IF i = 1 THEN ss[i] ELSE g[i - 1] \o ss[i]
      BY <1>1, <1>2, <1>3 DEF Flattens
    <3>2. i # 1
      BY <1>8
    <3> QED
      BY <2>1, <3>1, <3>2, Zenon
  <2>7. /\ Len(g[i]) = first + Len(ss[i])
        /\ \A k \in 1 .. Len(ss[i]) : g[i][first + k] = ss[i][k]
    <3>1. g[m] \in Seq(S) /\ ss[i] \in Seq(S)
      BY <1>0, <1>1, <1>2, <1>4, <2>2
    <3>2. Joined(g[m], ss[i], g[i])
      BY <2>6, <3>1, Join, Zenon
    <3> QED
      BY <2>5, <3>2 DEF Joined
  <2>8. Begins(g[i], g[n])
    BY <1>1, <1>2, <1>3, FlattenBegins
  <2>9. /\ first + Len(ss[i]) <= Len(FlattenSeq(ss)) /\ Len(FlattenSeq(ss)) \in Nat
        /\ \A k \in 1 .. first + Len(ss[i]) : FlattenSeq(ss)[k] = g[i][k]
    <3>1. n \in 1 .. n
      BY <1>2
    <3>2. PICK whole, a : whole = FlattenSeq(ss) /\ a = Len(g[i])
      OBVIOUS
    <3>3. Len(whole) \in Nat /\ whole = g[n]
      BY <1>3, <1>4, <3>1, <3>2, Zenon
    <3>4. a <= Len(whole) /\ \A k \in 1 .. a : whole[k] = g[i][k]
      BY <2>8, <3>2, <3>3 DEF Begins
    <3> QED
      BY <2>7, <3>2, <3>3, <3>4
  <2>10. ASSUME NEW k \in 1 .. Len(ss[i])
         PROVE  first + k \in 1 .. Len(FlattenSeq(ss)) /\ first + k \in 1 .. first + Len(ss[i])
    <3>1. PICK a, b, c : a = first /\ b = Len(ss[i]) /\ c = Len(FlattenSeq(ss))
      OBVIOUS
    <3>2. a \in Nat /\ b \in Nat /\ c \in Nat /\ a + b <= c /\ k \in 1 .. b
      BY <1>0, <2>5, <2>9, <3>1
    <3> QED
      BY <3>1, <3>2
  <2> QED
    BY <2>5, <2>7, <2>9, <2>10
<1> QED
  BY <1>2, <1>7, <1>8

-----------------------------------------------------------------------------
(* Strings.                                                                *)

Characters == {"d", "e", "v"} \cup UNION {Range(name) : name \in DOMAIN Contents}
Bytes == UNION {Range(Contents[name]) : name \in DOMAIN Contents}

LEMMA Texts ==
    /\ \A name \in DOMAIN Contents :
          name \in Seq(Characters) /\ Contents[name] \in Seq(Bytes)
    /\ DevName \in Seq(Characters)
<1>1. ASSUME NEW name \in DOMAIN Contents
      PROVE  name \in Seq(Characters) /\ Contents[name] \in Seq(Bytes)
  <2>1. name \in Seq(Range(name)) /\ Contents[name] \in Seq(Range(Contents[name]))
    BY InitrdAssumption DEF IsText
  <2>2. Range(name) \subseteq Characters /\ Range(Contents[name]) \subseteq Bytes
    BY Zenon DEF Characters, Bytes
  <2> QED
    BY <2>1, <2>2, SeqMonotonic
<1>2. DevName \in Seq(Characters)
  <2>1. {"d", "e", "v"} \subseteq Characters
    <3>1. PICK own : own = UNION {Range(name) : name \in DOMAIN Contents}
      OBVIOUS
    <3>2. Characters = {"d", "e", "v"} \cup own
      BY <3>1, Zenon DEF Characters
    <3> QED
      BY <3>2
  <2> QED
    BY <2>1 DEF DevName
<1> QED
  BY <1>1, <1>2

LEMMA MinOfTwo ==
    ASSUME NEW a \in Nat, NEW b \in Nat
    PROVE  Min({a, b}) = IF a <= b THEN a ELSE b
<1>1. Min({a, b}) \in {a, b} /\ \A i \in {a, b} : Min({a, b}) <= i
  BY Least
<1> QED
  BY <1>1

LEMMA UptoSeq ==
    ASSUME NEW S, NEW s \in Seq(S), NEW n \in Nat
    PROVE  /\ Upto(s, n) \in Seq(S)
           /\ Len(Upto(s, n)) = IF n <= Len(s) THEN n ELSE Len(s)
           /\ \A k \in 1 .. Len(Upto(s, n)) : Upto(s, n)[k] = s[k]
<1>1. Len(s) \in Nat
  BY LenProperties
<1>2. PICK m : m = IF n <= Len(s) THEN n ELSE Len(s)
  OBVIOUS
<1>3. m \in Nat /\ m <= Len(s) /\ Upto(s, n) = SubSeq(s, 1, m)
  BY <1>1, <1>2, MinOfTwo DEF Upto
<1>4. \A k \in 1 .. m : s[k] \in S
  BY <1>1, <1>3, ElementOfSeq
<1>5. PICK t : t = SubSeq(s, 1, m)
  OBVIOUS
<1>6. /\ t \in Seq(S) /\ Len(t) = IF 1 <= m THEN m - 1 + 1 ELSE 0
      /\ \A k \in 1 .. m - 1 + 1 : t[k] = s[1 + k - 1]
  BY <1>3, <1>4, <1>5, SubSeqProperties
<1>7. Len(t) = m /\ \A k \in 1 .. m : t[k] = s[k]
  BY <1>3, <1>6
<1> QED
  BY <1>2, <1>3, <1>5, <1>6, <1>7

LEMMA UptoAll ==
    ASSUME NEW S, NEW s \in Seq(S), NEW n \in Nat, Len(s) <= n
    PROVE  Upto(s, n) = s
<1>1. Len(s) \in Nat
  BY LenProperties
<1>2. PICK t : t = Upto(s, n)
  OBVIOUS
<1>3. t \in Seq(S) /\ Len(t) = Len(s) /\ \A k \in 1 .. Len(t) : t[k] = s[k]
  BY <1>1, <1>2, UptoSeq
<1>4. t = s
  BY <1>3, SeqEqual
<1> QED
  BY <1>2, <1>4

\* The kernel's strncmp, asked for the length of the first string, compares
\* both to the end.
LEMMA StrncmpWhole ==
    ASSUME NEW S, NEW s \in Seq(S), NEW t \in Seq(S)
    PROVE  Strncmp(s, t, Len(s)) <=> s = t
<1>1. Len(s) \in Nat /\ Len(t) \in Nat
  BY LenProperties
<1>2. PICK n : n = Len(s) + 1
  OBVIOUS
<1>3. n \in Nat /\ Len(s) <= n /\ Upto(s, n) = s
  BY <1>1, <1>2, UptoAll
<1>4. ASSUME Upto(t, n) = s PROVE t = s
  <2>1. Len(s) = IF n <= Len(t) THEN n ELSE Len(t)
    BY <1>3, <1>4, UptoSeq
  <2>2. Len(t) <= n
    BY <1>1, <1>2, <2>1
  <2> QED
    BY <1>3, <1>4, <2>2, UptoAll
<1> QED
  BY <1>2, <1>3, <1>4 DEF Strncmp

-----------------------------------------------------------------------------
(* The image.                                                              *)

\* The kernel after InitrdFs::init, for an image of args.
Offset(args, i) == IntSize + Len(args) * HeaderSize + BytesBefore(args, i)

Loaded(args) ==
    /\ image = Packed(args)
    /\ fileHeaders = [i \in 1 .. Len(args) |->
                        [name |-> args[i], offset |-> Offset(args, i) + Location,
                         length |-> Len(Contents[args[i]])]]
    /\ childNodes = [i \in 1 .. Len(args) |->
                        [name |-> args[i], flags |-> "file", inode |-> i,
                         length |-> Len(Contents[args[i]])]]

LEMMA Arguments ==
    ASSUME NEW args \in ArgLists
    PROVE  /\ Len(args) \in Nat /\ DOMAIN args = 1 .. Len(args)
           /\ \A i \in 1 .. Len(args) :
                 /\ args[i] \in DOMAIN Contents
                 /\ Len(args[i]) \in 1 .. NameLen
  BY InitrdAssumption, LenProperties, ElementOfSeq

LEMMA Headers ==
    ASSUME NEW args \in ArgLists, image = Packed(args)
    PROVE  /\ Len(image.headers) = Len(args)
           /\ DOMAIN image.headers = 1 .. Len(args)
           /\ \A i \in 1 .. Len(args) :
                 image.headers[i] = [name |-> args[i], offset |-> Offset(args, i),
                                     length |-> Len(Contents[args[i]])]
<1>1. image.headers = [i \in 1 .. Len(args) |-> PackedHeader(args, i)]
  BY Arguments DEF Packed
<1>2. Len(args) \in Nat
  BY Arguments
<1> QED
  BY <1>1, <1>2 DEF PackedHeader, Offset

\* What InitrdFs::init makes of it.
LEMMA Loads ==
    ASSUME NEW args \in ArgLists, image = Packed(args), InitrdFsInit
    PROVE  Loaded(args)'
<1>1. /\ DOMAIN image.headers = 1 .. Len(args)
      /\ \A i \in 1 .. Len(args) :
            image.headers[i] = [name |-> args[i], offset |-> Offset(args, i),
                                length |-> Len(Contents[args[i]])]
  BY Headers
<1>2. fileHeaders' = [i \in 1 .. Len(args) |->
                        [name |-> args[i], offset |-> Offset(args, i) + Location,
                         length |-> Len(Contents[args[i]])]]
  <2>1. ASSUME NEW i \in 1 .. Len(args)
        PROVE  [image.headers[i] EXCEPT !.offset = @ + Location]
                 = [name |-> args[i], offset |-> Offset(args, i) + Location,
                    length |-> Len(Contents[args[i]])]
    <3>1. PICK header, offset, length :
             /\ header = image.headers[i] /\ offset = Offset(args, i)
             /\ length = Len(Contents[args[i]])
      OBVIOUS
    <3>2. header = [name |-> args[i], offset |-> offset, length |-> length]
      BY <1>1, <3>1, Zenon
    <3>3. [header EXCEPT !.offset = @ + Location]
             = [name |-> args[i], offset |-> offset + Location, length |-> length]
      BY <3>2
    <3> QED
      BY <3>1, <3>3, Zenon
  <2>2. fileHeaders' = [i \in 1 .. Len(args) |->
                           [image.headers[i] EXCEPT !.offset = @ + Location]]
    BY <1>1 DEF InitrdFsInit
  <2> QED
    BY <2>1, <2>2
<1>3. ASSUME NEW i \in 1 .. Len(args)
      PROVE  ChildNode(i) = [name |-> args[i], flags |-> "file", inode |-> i,
                             length |-> Len(Contents[args[i]])]
  <2>1. args[i] \in Seq(Characters) /\ Len(args[i]) <= NameLen /\ NameLen \in Nat
    BY Arguments, Texts, InitrdAssumption
  <2>2. Upto(args[i], NameLen) = args[i]
    BY <2>1, UptoAll
  <2>3. /\ image.headers[i].name = args[i]
        /\ image.headers[i].length = Len(Contents[args[i]])
    <3>1. PICK header, offset, length :
             /\ header = image.headers[i] /\ offset = Offset(args, i)
             /\ length = Len(Contents[args[i]])
      OBVIOUS
    <3>2. header = [name |-> args[i], offset |-> offset, length |-> length]
      BY <1>1, <3>1, Zenon
    <3>3. header.name = args[i] /\ header.length = length
      BY <3>2
    <3> QED
      BY <3>1, <3>3, Zenon
  <2> QED
    BY <2>2, <2>3 DEF ChildNode, Inode
<1>4. childNodes' = [i \in 1 .. Len(args) |->
                        [name |-> args[i], flags |-> "file", inode |-> i,
                         length |-> Len(Contents[args[i]])]]
  BY <1>1, <1>3 DEF InitrdFsInit
<1>5. image' = image
  BY DEF InitrdFsInit
<1> QED
  BY <1>2, <1>4, <1>5 DEF Loaded

\* The bytes behind the headers are the files', in their order.
LEMMA Body ==
    ASSUME NEW args \in ArgLists, NamesTerminated, image = Packed(args),
           NEW i \in 1 .. Len(args)
    PROVE  HasPart(image.body, BytesBefore(args, i), Contents[args[i]])
<1>0. /\ Len(args) \in Nat /\ DOMAIN args = 1 .. Len(args)
      /\ \A j \in 1 .. Len(args) : args[j] \in DOMAIN Contents
      /\ \A j \in 1 .. Len(args) : Contents[args[j]] \in Seq(Bytes)
  BY Arguments, Texts
<1>1. PICK ss : ss = [j \in 1 .. Len(args) |-> Contents[args[j]]]
  OBVIOUS
<1>2. ss \in Seq(Seq(Bytes)) /\ Len(ss) = Len(args)
  <2>1. ss \in [1 .. Len(args) -> Seq(Bytes)]
    BY <1>0, <1>1
  <2> QED
    BY <1>0, <1>1, <2>1, SeqDef
<1>3. ASSUME NEW j \in 1 .. Len(args)
      PROVE  PackedContents(PackedHeader(args, j)) = Contents[args[j]]
  <2>1. Len(args[j]) # NameLen
    BY <1>0, Arguments, InitrdAssumption DEF NamesTerminated
  <2>2. PackedHeader(args, j).name = args[j]
    BY DEF PackedHeader
  <2>3. OpenedName(PackedHeader(args, j)) = args[j]
    BY <2>1, <2>2 DEF OpenedName
  <2> QED
    BY <1>0, <2>3 DEF PackedContents
<1>4. image.body = FlattenSeq(ss)
  <2>1. PICK headers : headers = [j \in DOMAIN args |-> PackedHeader(args, j)]
    OBVIOUS
  <2>2. [j \in DOMAIN args |-> PackedContents(headers[j])] = ss
    BY <1>0, <1>1, <1>3, <2>1
  <2>3. Packed(args).body = FlattenSeq([j \in DOMAIN args |-> PackedContents(headers[j])])
    BY <2>1 DEF Packed
  <2> QED
    BY <2>2, <2>3
<1>5. BytesBefore(args, i) = LengthBefore(ss, i)
  <2>1. [j \in 1 .. i - 1 |-> ss[j]] = [j \in 1 .. i - 1 |-> Contents[args[j]]]
    BY <1>0, <1>1
  <2> QED
    BY <2>1 DEF BytesBefore, LengthBefore
<1>6. i \in 1 .. Len(ss) /\ ss[i] = Contents[args[i]]
  BY <1>1, <1>2
<1>7. HasPart(FlattenSeq(ss), LengthBefore(ss, i), ss[i])
  BY <1>2, <1>6, FlattenPart
<1> QED
  BY <1>4, <1>5, <1>6, <1>7

-----------------------------------------------------------------------------
(* What the file system's functions find.                                  *)

LEMMA Children ==
    ASSUME NEW args \in ArgLists, Loaded(args)
    PROVE  /\ Len(childNodes) = Len(args) /\ Len(fileHeaders) = Len(args)
           /\ DOMAIN childNodes = 1 .. Len(args) /\ DOMAIN fileHeaders = 1 .. Len(args)
           /\ \A i \in 1 .. Len(args) :
                 /\ childNodes[i].name = args[i] /\ childNodes[i].flags = "file"
                 /\ childNodes[i].inode = i
<1>1. Len(args) \in Nat
  BY Arguments
<1> QED
  BY <1>1 DEF Loaded

\* finddir finds the file of that name, whatever other name it begins.
LEMMA ChildFound ==
    ASSUME NEW args \in ArgLists, Loaded(args), NEW name \in Seq(Characters),
           NEW node \in FindChild(name)
    PROVE  /\ node.flags = "file" /\ node.inode \in 1 .. Len(args)
           /\ args[node.inode] = name
<1>0. /\ Len(childNodes) = Len(args) /\ Len(args) \in Nat
      /\ \A i \in 1 .. Len(args) :
            /\ childNodes[i].name = args[i] /\ args[i] \in Seq(Characters)
            /\ childNodes[i].flags = "file" /\ childNodes[i].inode = i
  BY Children, Arguments, Texts
<1>1. PICK I : I = {i \in 1 .. Len(childNodes) : Strncmp(name, childNodes[i].name, Len(name))}
  OBVIOUS
<1>2. PICK i : i = IF I # {} THEN Min(I) ELSE 0
  OBVIOUS
<1>3. SelectInSeq(childNodes, LAMBDA child : Strncmp(name, child.name, Len(name))) = i
  BY <1>1, <1>2, Zenon DEF SelectInSeq
<1>4. FindChild(name) = IF i = 0 THEN {} ELSE {[flags |-> childNodes[i].flags,
                                               inode |-> childNodes[i].inode]}
  BY <1>3, Zenon DEF FindChild
<1>5. i # 0 /\ node = [flags |-> childNodes[i].flags, inode |-> childNodes[i].inode]
  BY <1>4
<1>6. I # {} /\ i = Min(I)
  BY <1>2, <1>5
<1>7. i \in I
  <2>1. I \subseteq Nat
    BY <1>0, <1>1
  <2> QED
    BY <1>6, <2>1, Least
<1>8. i \in 1 .. Len(args) /\ Strncmp(name, childNodes[i].name, Len(name))
  BY <1>0, <1>1, <1>7
<1>9. name = args[i]
  BY <1>0, <1>8, StrncmpWhole
<1> QED
  BY <1>0, <1>5, <1>8, <1>9

LEMMA Found ==
    ASSUME NEW args \in ArgLists, Loaded(args), NEW name \in Seq(Characters),
           NEW node \in FindDir(name)
    PROVE  \/ node.flags = "directory" /\ name = DevName
           \/ /\ node.flags = "file" /\ name # DevName
              /\ node.inode \in 1 .. Len(args) /\ args[node.inode] = name
<1>1. CASE Strncmp(name, DevName, Len(DevName))
  <2>1. node = Dev
    BY <1>1 DEF FindDir
  <2>2. name = DevName
    <3>1. Len(DevName) = 3
      BY DEF DevName
    <3>2. Upto(DevName, 4) = DevName /\ Upto(name, 4) = DevName
      <4>1. PICK n : n = Len(DevName) + 1
        OBVIOUS
      <4>2. n = 4 /\ Upto(name, n) = Upto(DevName, n)
        BY <1>1, <3>1, <4>1 DEF Strncmp
      <4>3. Upto(DevName, 4) = DevName
        <5>1. DevName \in Seq(Characters) /\ 4 \in Nat /\ Len(DevName) <= 4
          BY <3>1, Texts
        <5> QED
          BY <5>1, UptoAll
      <4> QED
        BY <4>2, <4>3
    <3>3. Len(name) \in Nat /\ 3 = IF 4 <= Len(name) THEN 4 ELSE Len(name)
      BY <3>1, <3>2, UptoSeq, LenProperties
    <3>4. Upto(name, 4) = name
      BY <3>3, UptoAll
    <3> QED
      BY <3>2, <3>4
  <2> QED
    BY <2>1, <2>2 DEF Dev
<1>2. CASE ~Strncmp(name, DevName, Len(DevName))
  <2>1. node \in FindChild(name)
    BY <1>2 DEF FindDir
  <2>2. name # DevName
    BY <1>2, Texts, StrncmpWhole
  <2> QED
    BY <2>1, <2>2, ChildFound
<1> QED
  BY <1>1, <1>2

\* The bytes at a file's address are its contents.
LEMMA BytesFound ==
    ASSUME NEW args \in ArgLists, NamesTerminated, Loaded(args),
           NEW i \in 1 .. Len(args), NEW k \in 1 .. Len(Contents[args[i]])
    PROVE  ByteAt(fileHeaders[i].offset + 0 + k - 1) = Contents[args[i]][k]
<1>1. PICK before, headers, start, body :
         /\ before = BytesBefore(args, i) /\ headers = Len(args) * HeaderSize
         /\ start = fileHeaders[i].offset /\ body = image.body
  OBVIOUS
<1>2. /\ HasPart(body, before, Contents[args[i]])
      /\ Len(image.headers) = Len(args)
  BY <1>1, Body, Headers DEF Loaded
<1>3. /\ before \in Nat /\ before + k \in 1 .. Len(body)
      /\ body[before + k] = Contents[args[i]][k]
  BY <1>2 DEF HasPart
<1>4. headers \in Nat /\ Location \in Nat /\ k \in Nat
  <2>1. HeaderSize \in Nat /\ Len(args) \in Nat /\ Location \in Nat
    BY InitrdAssumption, Arguments DEF HeaderSize, IntSize
  <2>2. Contents[args[i]] \in Seq(Bytes)
    BY Arguments, Texts
  <2>3. Len(Contents[args[i]]) \in Nat
    BY <2>2, LenProperties
  <2> QED
    BY <1>1, <2>1, <2>3
<1>5. start = 4 + headers + before + Location
  <2>1. fileHeaders[i].offset = Offset(args, i) + Location
    BY DEF Loaded
  <2>2. Offset(args, i) = 4 + headers + before
    BY <1>1 DEF Offset, IntSize
  <2> QED
    BY <1>1, <2>1, <2>2
<1>6. PICK address, n : address = start + 0 + k - 1 /\ n = Len(body)
  OBVIOUS
<1>7. PICK l : l = address - Location - 4 - headers
  OBVIOUS
<1>8. l + 1 = before + k /\ l \in 0 .. n - 1
  <2>1. l = before + k - 1
    BY <1>3, <1>4, <1>5, <1>6, <1>7
  <2>2. before + k \in 1 .. n
    BY <1>3, <1>6
  <2> QED
    <3>1. n \in Nat
      BY <1>2, <1>6 DEF HasPart
    <3> QED
      BY <1>3, <1>4, <2>1, <2>2, <3>1
<1>9. ByteAt(address) = IF l \in 0 .. n - 1 THEN body[l + 1] ELSE Junk
  BY <1>1, <1>2, <1>6, <1>7 DEF ByteAt, IntSize
<1> QED
  BY <1>1, <1>3, <1>6, <1>8, <1>9

\* What a reader prints of a file is its beginning, whatever was in the buffer.
LEMMA Shows ==
    ASSUME NEW args \in ArgLists, NamesTerminated, Loaded(args),
           NEW i \in 1 .. Len(args), NEW buffer
    PROVE  SubSeq(ReadInto(buffer, fileHeaders[i], 0, BufSize), 1,
                  ReadSize(fileHeaders[i], 0, BufSize))
             = Upto(Contents[args[i]], BufSize)
<1>1. PICK s, n, t : /\ s = Contents[args[i]] /\ n = ReadSize(fileHeaders[i], 0, BufSize)
                     /\ t = ReadInto(buffer, fileHeaders[i], 0, BufSize)
  OBVIOUS
<1>2. s \in Seq(Bytes) /\ Len(s) \in Nat /\ BufSize \in Nat
  BY <1>1, Arguments, Texts, LenProperties, InitrdAssumption
<1>3. n = IF BufSize <= Len(s) THEN BufSize ELSE Len(s)
  <2>1. fileHeaders[i].length = Len(s)
    BY <1>1 DEF Loaded
  <2> QED
    BY <1>1, <1>2, <2>1 DEF ReadSize
<1>4. n \in Nat /\ n <= BufSize /\ n <= Len(s)
  BY <1>2, <1>3
<1>5. ASSUME NEW k \in 1 .. n PROVE t[k] = s[k]
  <2>1. k \in 1 .. BufSize + 1 /\ k \in 1 .. Len(s) /\ k <= n
    BY <1>2, <1>4
  <2>2. t[k] = ByteAt(fileHeaders[i].offset + 0 + k - 1)
    <3>1. PICK header : header = fileHeaders[i]
      OBVIOUS
    <3>2. t = [j \in 1 .. BufSize + 1 |->
                 CASE j <= n -> ByteAt(header.offset + 0 + j - 1)
                   [] j = n + 1 -> "NUL"
                   [] OTHER -> buffer[j]]
      <4>1. ReadInto(buffer, header, 0, BufSize)
              = [j \in 1 .. BufSize + 1 |->
                   CASE j <= ReadSize(header, 0, BufSize) -> ByteAt(header.offset + 0 + j - 1)
                     [] j = ReadSize(header, 0, BufSize) + 1 -> "NUL"
                     [] OTHER -> buffer[j]]
        BY DEF ReadInto
      <4> QED
        BY <1>1, <3>1, <4>1
    <3>3. k # n + 1
      BY <1>4, <2>1
    <3> QED
      BY <2>1, <3>1, <3>2, <3>3
  <2> QED
    BY <1>1, <2>1, <2>2, BytesFound
<1>6. \A k \in 1 .. n : t[k] \in Bytes
  BY <1>2, <1>4, <1>5, ElementOfSeq
<1>7. PICK u, v : u = SubSeq(t, 1, n) /\ v = Upto(s, BufSize)
  OBVIOUS
<1>8. u \in Seq(Bytes) /\ Len(u) = n /\ \A k \in 1 .. n : u[k] = t[k]
  <2>1. /\ u \in Seq(Bytes) /\ Len(u) = (IF 1 <= n THEN n - 1 + 1 ELSE 0)
        /\ \A k \in 1 .. n - 1 + 1 : u[k] = t[1 + k - 1]
    BY <1>4, <1>6, <1>7, SubSeqProperties
  <2> QED
    <3>1. \A k \in 1 .. n : k \in 1 .. n - 1 + 1 /\ 1 + k - 1 = k
      BY <1>4
    <3>2. (IF 1 <= n THEN n - 1 + 1 ELSE 0) = n
      BY <1>4
    <3> QED
      BY <2>1, <3>1, <3>2
<1>9. v \in Seq(Bytes) /\ Len(v) = n /\ \A k \in 1 .. n : v[k] = s[k]
  BY <1>2, <1>3, <1>7, UptoSeq
<1>10. u = v
  BY <1>5, <1>8, <1>9, SeqEqual
<1> QED
  BY <1>1, <1>7, <1>10

-----------------------------------------------------------------------------
(* Readers and what they have.                                             *)

PC == {"off", "boot", "readdir", "inode", "print", "finddir", "read", "done"}

\* A reader is a record, and what it has printed a sequence.
IsReader(r) ==
    /\ r = [pc |-> r.pc, index |-> r.index, inode |-> r.inode,
            printed |-> r.printed, buffer |-> r.buffer]
    /\ r.pc \in PC /\ IsText(r.printed)

\* How far one can be in a directory of n files.
InRange(r, n) ==
    /\ r.pc \notin {"off", "boot"}
    /\ r.index \in 0 .. n + 1 /\ r.inode \in 0 .. n
    /\ r.pc \in {"inode", "print", "finddir", "read"} => r.index <= n

Unread(r, label) == r.pc = label /\ r.index = 0 /\ r.inode = 0 /\ r.printed = <<>>

Kernel ==
    \/ /\ image = [headers |-> <<>>, body |-> <<>>]
       /\ fileHeaders = <<>> /\ childNodes = <<>>
       /\ \A p \in Readers : Unread(reader[p], "off")
    \/ \E args \in ArgLists :
          /\ image = Packed(args)
          /\ fileHeaders = <<>> /\ childNodes = <<>>
          /\ \A p \in Readers : Unread(reader[p], "boot")
    \/ \E args \in ArgLists :
          Loaded(args) /\ \A p \in Readers : InRange(reader[p], Len(args))

TypeInv ==
    /\ reader = [p \in Readers |-> reader[p]]
    /\ \A p \in Readers : IsReader(reader[p])
    /\ currDirent = [name |-> currDirent.name, inode |-> currDirent.inode]
    /\ currDirent.name \in Seq(Characters)
    /\ Kernel

-----------------------------------------------------------------------------
(* The listing.                                                            *)

\* The name readdir gives at an index, and what belongs in the listing there.
EntryName(args, i) == IF i = 0 THEN DevName ELSE args[i]
EntryShown(args, i) ==
    IF EntryName(args, i) = DevName THEN <<"directory">>
    ELSE Upto(Contents[args[i]], BufSize)
Entry(args, i) == [name |-> EntryName(args, i), shown |-> EntryShown(args, i)]

LEMMA ListingIs ==
    ASSUME NEW args \in ArgLists, image = Packed(args)
    PROVE  /\ Len(Listing) = Len(args) + 1
           /\ \A i \in 0 .. Len(args) : Listing[i + 1] = Entry(args, i)
<1>0. /\ Len(args) \in Nat /\ DOMAIN image.headers = 1 .. Len(args)
      /\ \A i \in 1 .. Len(args) : Name(i) = args[i]
  <2>1. ASSUME NEW i \in 1 .. Len(args) PROVE Name(i) = args[i]
    <3>1. PICK header, offset, length :
             /\ header = image.headers[i] /\ offset = Offset(args, i)
             /\ length = Len(Contents[args[i]])
      OBVIOUS
    <3>2. header = [name |-> args[i], offset |-> offset, length |-> length]
      BY <3>1, Headers, Zenon
    <3>3. header.name = args[i]
      BY <3>2
    <3> QED
      BY <3>1, <3>3 DEF Name
  <2> QED
    BY <2>1, Arguments, Headers
<1>1. PICK s, t : /\ s = <<[name |-> DevName, shown |-> <<"directory">>]>>
                  /\ t = [i \in 1 .. Len(args) |->
                            [name |-> Name(i),
                             shown |-> IF Name(i) = DevName THEN <<"directory">>
                                       ELSE Upto(Contents[Name(i)], BufSize)]]
  OBVIOUS
<1>2. Listing = s \o t
  BY <1>0, <1>1 DEF Listing
<1>3. \A i \in 1 .. Len(args) : t[i] = Entry(args, i)
  <2>1. ASSUME NEW i \in 1 .. Len(args) PROVE t[i] = Entry(args, i)
    <3>1. t[i] = [name |-> args[i],
                  shown |-> IF args[i] = DevName THEN <<"directory">>
                            ELSE Upto(Contents[args[i]], BufSize)]
      BY <1>0, <1>1
    <3>2. EntryName(args, i) = args[i]
      BY <1>0 DEF EntryName
    <3> QED
      BY <3>1, <3>2 DEF Entry, EntryShown
  <2> QED
    BY <2>1
<1>4. s[1] = Entry(args, 0) /\ Len(s) = 1
  BY <1>1 DEF Entry, EntryShown, EntryName
<1>5. PICK S : S = {s[1]} \cup {t[i] : i \in 1 .. Len(args)}
  OBVIOUS
<1>6. s \in Seq(S) /\ t \in Seq(S) /\ Len(t) = Len(args)
  <2>1. s \in Seq(S)
    BY <1>1, <1>5
  <2>2. t \in [1 .. Len(args) -> S]
    BY <1>1, <1>5
  <2>3. t \in Seq(S)
    BY <1>0, <2>2, SeqDef
  <2> QED
    BY <1>0, <1>1, <2>1, <2>3
<1>7. Joined(s, t, Listing)
  BY <1>2, <1>6, Join, Zenon
<1>8. /\ Len(Listing) = Len(args) + 1 /\ Listing[1] = Entry(args, 0)
      /\ \A i \in 1 .. Len(args) : Listing[1 + i] = Entry(args, i)
  BY <1>0, <1>3, <1>4, <1>6, <1>7 DEF Joined
<1>9. ASSUME NEW i \in 0 .. Len(args) PROVE Listing[i + 1] = Entry(args, i)
  <2>1. CASE i = 0
    BY <1>8, <2>1
  <2>2. CASE i # 0
    <3>1. i \in 1 .. Len(args) /\ i + 1 = 1 + i
      BY <1>0, <2>2
    <3> QED
      BY <1>8, <3>1
  <2> QED
    BY <2>1, <2>2
<1> QED
  BY <1>8, <1>9

\* The first n entries are printed.
Prints(t, args, n) ==
    /\ Len(t) = n
    /\ \A i \in 0 .. n - 1 : t[i + 1] = Entry(args, i)

\* The first n are, and the name of the next.
PrintsName(t, args, n) ==
    /\ Len(t) = n + 1
    /\ \A i \in 0 .. n - 1 : t[i + 1] = Entry(args, i)
    /\ t[n + 1] = [name |-> EntryName(args, n), shown |-> <<>>]

\* What a reader has printed, t, and what has been found for it, at its pc.
Place(pc, index, inode, t, name, args) ==
    /\ pc \in {"readdir", "inode", "print", "done"} => Prints(t, args, index)
    /\ pc \in {"inode", "print", "finddir"} => name = EntryName(args, index)
    /\ pc \in {"finddir", "read"} => PrintsName(t, args, index)
    /\ pc = "read" =>
          /\ EntryName(args, index) # DevName
          /\ inode \in 1 .. Len(args) /\ args[inode] = EntryName(args, index)
    /\ pc = "done" => index = Len(args) + 1

\* While nobody else reads.
ReaderAt(p, args) ==
    Place(reader[p].pc, reader[p].index, reader[p].inode, reader[p].printed,
          currDirent.name, args)

ListInv ==
    \A args \in ArgLists :
        Loaded(args) => \A p \in Readers : ReaderAt(p, args)

-----------------------------------------------------------------------------
(* The table of steps.                                                     *)

Record(pc, index, inode, printed, buffer) ==
    [pc |-> pc, index |-> index, inode |-> inode, printed |-> printed, buffer |-> buffer]

\* f, with r for p.
Put(f, p, r) == [f EXCEPT ![p] = r]

\* Reader p becomes r.
Becomes(p, r) == reader' = Put(reader, p, r)

KernelKept == UNCHANGED <<image, fileHeaders, childNodes>>

ShownOf(p, buffer) ==
    SubSeq(buffer, 1, ReadSize(fileHeaders[reader[p].inode], 0, BufSize))

Buffered(p) == ReadInto(reader[p].buffer, fileHeaders[reader[p].inode], 0, BufSize)

Names(p) ==
    LET r == reader[p]
    IN  /\ r.pc = "readdir" /\ (r.index = 0 \/ ~(r.index > Len(childNodes)))
        /\ Becomes(p, Record("inode", r.index, r.inode, r.printed, r.buffer))
        /\ currDirent' = [name |-> IF r.index = 0 THEN DevName
                                   ELSE childNodes[r.index].name,
                          inode |-> currDirent.inode]

Numbers(p) ==
    LET r == reader[p]
    IN  /\ r.pc = "inode"
        /\ Becomes(p, Record("print", r.index, r.inode, r.printed, r.buffer))
        /\ \E inode : currDirent' = [name |-> currDirent.name, inode |-> inode]

Finishes(p) ==
    LET r == reader[p]
    IN  /\ r.pc = "readdir" /\ r.index # 0 /\ r.index > Len(childNodes)
        /\ Becomes(p, Record("done", r.index, r.inode, r.printed, r.buffer))
        /\ UNCHANGED currDirent

PrintsOne(p) ==
    LET r == reader[p]
    IN  /\ r.pc = "print"
        /\ Becomes(p, Record("finddir", r.index, r.inode,
                             Append(r.printed, [name |-> currDirent.name, shown |-> <<>>]),
                             r.buffer))
        /\ UNCHANGED currDirent

Announces(p) ==
    LET r == reader[p]
    IN  /\ r.pc = "finddir"
        /\ \E node \in FindDir(currDirent.name) : node.flags = "directory"
        /\ Becomes(p, Record("readdir", r.index + 1, r.inode,
                             Showing(p, <<"directory">>), r.buffer))
        /\ UNCHANGED currDirent

Opens(p) ==
    LET r == reader[p]
    IN  /\ r.pc = "finddir"
        /\ \E node \in FindDir(currDirent.name) :
              /\ node.flags = "file"
              /\ Becomes(p, Record("read", r.index, node.inode, r.printed, r.buffer))
        /\ UNCHANGED currDirent

ShowsFile(p) ==
    LET r == reader[p]
    IN  /\ r.pc = "read"
        /\ Becomes(p, Record("readdir", r.index + 1, r.inode,
                             Showing(p, ShownOf(p, Buffered(p))), Buffered(p)))
        /\ UNCHANGED currDirent

Acts(p) ==
    /\ KernelKept
    /\ \/ Names(p) \/ Numbers(p) \/ Finishes(p) \/ PrintsOne(p) \/ Announces(p)
       \/ Opens(p) \/ ShowsFile(p)

LEMMA PutPut ==
    ASSUME NEW f, NEW p \in DOMAIN f, NEW r
    PROVE  /\ p \in DOMAIN Put(f, p, r) /\ Put(f, p, r)[p] = r
           /\ \A s : Put(Put(f, p, r), p, s) = Put(f, p, s)
  BY DEF Put

LEMMA SetPc ==
    ASSUME NEW f, NEW p \in DOMAIN f, NEW a,
           NEW c, NEW i, NEW n, NEW t, NEW b, f[p] = Record(c, i, n, t, b)
    PROVE  [f EXCEPT ![p].pc = a] = Put(f, p, Record(a, i, n, t, b))
<1>1. PICK r : r = f[p]
  OBVIOUS
<1>2. [r EXCEPT !.pc = a] = Record(a, i, n, t, b)
  BY <1>1 DEF Record
<1>3. [f EXCEPT ![p].pc = a] = [q \in DOMAIN f |-> IF q = p THEN [r EXCEPT !.pc = a] ELSE f[q]]
  BY <1>1, Zenon
<1>4. Put(f, p, Record(a, i, n, t, b)) = [q \in DOMAIN f |-> IF q = p THEN Record(a, i, n, t, b) ELSE f[q]]
  BY DEF Put
<1> QED
  BY <1>2, <1>3, <1>4, Zenon

LEMMA SetIndex ==
    ASSUME NEW f, NEW p \in DOMAIN f, NEW a,
           NEW c, NEW i, NEW n, NEW t, NEW b, f[p] = Record(c, i, n, t, b)
    PROVE  [f EXCEPT ![p].index = a] = Put(f, p, Record(c, a, n, t, b))
<1>1. PICK r : r = f[p]
  OBVIOUS
<1>2. [r EXCEPT !.index = a] = Record(c, a, n, t, b)
  BY <1>1 DEF Record
<1>3. [f EXCEPT ![p].index = a] = [q \in DOMAIN f |-> IF q = p THEN [r EXCEPT !.index = a] ELSE f[q]]
  BY <1>1, Zenon
<1>4. Put(f, p, Record(c, a, n, t, b)) = [q \in DOMAIN f |-> IF q = p THEN Record(c, a, n, t, b) ELSE f[q]]
  BY DEF Put
<1> QED
  BY <1>2, <1>3, <1>4, Zenon

LEMMA SetInode ==
    ASSUME NEW f, NEW p \in DOMAIN f, NEW a,
           NEW c, NEW i, NEW n, NEW t, NEW b, f[p] = Record(c, i, n, t, b)
    PROVE  [f EXCEPT ![p].inode = a] = Put(f, p, Record(c, i, a, t, b))
<1>1. PICK r : r = f[p]
  OBVIOUS
<1>2. [r EXCEPT !.inode = a] = Record(c, i, a, t, b)
  BY <1>1 DEF Record
<1>3. [f EXCEPT ![p].inode = a] = [q \in DOMAIN f |-> IF q = p THEN [r EXCEPT !.inode = a] ELSE f[q]]
  BY <1>1, Zenon
<1>4. Put(f, p, Record(c, i, a, t, b)) = [q \in DOMAIN f |-> IF q = p THEN Record(c, i, a, t, b) ELSE f[q]]
  BY DEF Put
<1> QED
  BY <1>2, <1>3, <1>4, Zenon

LEMMA SetPrinted ==
    ASSUME NEW f, NEW p \in DOMAIN f, NEW a,
           NEW c, NEW i, NEW n, NEW t, NEW b, f[p] = Record(c, i, n, t, b)
    PROVE  [f EXCEPT ![p].printed = a] = Put(f, p, Record(c, i, n, a, b))
<1>1. PICK r : r = f[p]
  OBVIOUS
<1>2. [r EXCEPT !.printed = a] = Record(c, i, n, a, b)
  BY <1>1 DEF Record
<1>3. [f EXCEPT ![p].printed = a] = [q \in DOMAIN f |-> IF q = p THEN [r EXCEPT !.printed = a] ELSE f[q]]
  BY <1>1, Zenon
<1>4. Put(f, p, Record(c, i, n, a, b)) = [q \in DOMAIN f |-> IF q = p THEN Record(c, i, n, a, b) ELSE f[q]]
  BY DEF Put
<1> QED
  BY <1>2, <1>3, <1>4, Zenon

LEMMA SetBuffer ==
    ASSUME NEW f, NEW p \in DOMAIN f, NEW a,
           NEW c, NEW i, NEW n, NEW t, NEW b, f[p] = Record(c, i, n, t, b)
    PROVE  [f EXCEPT ![p].buffer = a] = Put(f, p, Record(c, i, n, t, a))
<1>1. PICK r : r = f[p]
  OBVIOUS
<1>2. [r EXCEPT !.buffer = a] = Record(c, i, n, t, a)
  BY <1>1 DEF Record
<1>3. [f EXCEPT ![p].buffer = a] = [q \in DOMAIN f |-> IF q = p THEN [r EXCEPT !.buffer = a] ELSE f[q]]
  BY <1>1, Zenon
<1>4. Put(f, p, Record(c, i, n, t, a)) = [q \in DOMAIN f |-> IF q = p THEN Record(c, i, n, t, a) ELSE f[q]]
  BY DEF Put
<1> QED
  BY <1>2, <1>3, <1>4, Zenon

\* The updates of the actions.
Opened(f, p, a, m) ==
    [f EXCEPT ![p].pc = a, ![p].inode = m]

Named(f, p, a, e) ==
    [f EXCEPT ![p].pc = a, ![p].printed = Append(@, e)]

ShownNext(f, p, a, u) ==
    [f EXCEPT ![p].pc = a, ![p].index = NextIndex(@), ![p].printed = u]

ReadNext(f, p, a, u, d) ==
    [f EXCEPT ![p].pc = a, ![p].index = NextIndex(@), ![p].buffer = d, ![p].printed = u]

LEMMA SetOpened ==
    ASSUME NEW f, NEW p \in DOMAIN f, NEW a, NEW m,
           NEW c, NEW i, NEW n, NEW t, NEW b, f[p] = Record(c, i, n, t, b)
    PROVE  Opened(f, p, a, m)
             = Put(f, p, Record(a, i, m, t, b))
<1>1. PICK g1 : g1 = [f EXCEPT ![p].pc = a]
  OBVIOUS
<1>2. PICK g2 : g2 = [g1 EXCEPT ![p].inode = m]
  OBVIOUS
<1>3. g1 = Put(f, p, Record(a, i, n, t, b)) /\ p \in DOMAIN g1 /\ g1[p] = Record(a, i, n, t, b)
  BY <1>1, SetPc, PutPut
<1>4. g2 = Put(f, p, Record(a, i, m, t, b)) /\ p \in DOMAIN g2 /\ g2[p] = Record(a, i, m, t, b)
  <2>1. g2 = Put(g1, p, Record(a, i, m, t, b))
    BY <1>2, <1>3, SetInode
  <2> QED
    BY <1>3, <2>1, PutPut
<1>5. Opened(f, p, a, m) = g2
  BY <1>1, <1>2 DEF Opened
<1> QED
  BY <1>4, <1>5

LEMMA SetNamed ==
    ASSUME NEW f, NEW p \in DOMAIN f, NEW a, NEW e,
           NEW c, NEW i, NEW n, NEW t, NEW b, f[p] = Record(c, i, n, t, b)
    PROVE  Named(f, p, a, e)
             = Put(f, p, Record(a, i, n, Append(t, e), b))
<1>1. PICK g1 : g1 = [f EXCEPT ![p].pc = a]
  OBVIOUS
<1>2. PICK g2 : g2 = [g1 EXCEPT ![p].printed = Append(@, e)]
  OBVIOUS
<1>3. g1 = Put(f, p, Record(a, i, n, t, b)) /\ p \in DOMAIN g1 /\ g1[p] = Record(a, i, n, t, b)
  BY <1>1, SetPc, PutPut
<1>4. g2 = Put(f, p, Record(a, i, n, Append(t, e), b)) /\ p \in DOMAIN g2 /\ g2[p] = Record(a, i, n, Append(t, e), b)
  <2>1. g2 = Put(g1, p, Record(a, i, n, Append(t, e), b))
    <3>1. g1[p].printed = t
      BY <1>2, <1>3 DEF Record
    <3>2. PICK v : v = Append(t, e)
      OBVIOUS
    <3>3. g2 = [g1 EXCEPT ![p].printed = v]
      BY <1>2, <3>1, <3>2
    <3>4. g2 = Put(g1, p, Record(a, i, n, v, b))
      BY <1>3, <3>3, SetPrinted
    <3> QED
      BY <3>2, <3>4
  <2> QED
    BY <1>3, <2>1, PutPut
<1>5. Named(f, p, a, e) = g2
  BY <1>1, <1>2 DEF Named
<1> QED
  BY <1>4, <1>5

LEMMA SetShown ==
    ASSUME NEW f, NEW p \in DOMAIN f, NEW a, NEW u,
           NEW c, NEW i, NEW n, NEW t, NEW b, f[p] = Record(c, i, n, t, b)
    PROVE  ShownNext(f, p, a, u)
             = Put(f, p, Record(a, i + 1, n, u, b))
<1>1. PICK g1 : g1 = [f EXCEPT ![p].pc = a]
  OBVIOUS
<1>2. PICK g2 : g2 = [g1 EXCEPT ![p].index = NextIndex(@)]
  OBVIOUS
<1>3. PICK g3 : g3 = [g2 EXCEPT ![p].printed = u]
  OBVIOUS
<1>4. g1 = Put(f, p, Record(a, i, n, t, b)) /\ p \in DOMAIN g1 /\ g1[p] = Record(a, i, n, t, b)
  BY <1>1, SetPc, PutPut
<1>5. g2 = Put(f, p, Record(a, i + 1, n, t, b)) /\ p \in DOMAIN g2 /\ g2[p] = Record(a, i + 1, n, t, b)
  <2>1. g2 = Put(g1, p, Record(a, i + 1, n, t, b))
    <3>1. g1[p].index = i
      BY <1>2, <1>4 DEF Record
    <3>2. PICK v : v = i + 1
      OBVIOUS
    <3>3. g2 = [g1 EXCEPT ![p].index = v]
      BY <1>2, <3>1, <3>2 DEF NextIndex
    <3>4. g2 = Put(g1, p, Record(a, v, n, t, b))
      BY <1>4, <3>3, SetIndex
    <3> QED
      BY <3>2, <3>4
  <2> QED
    BY <1>4, <2>1, PutPut
<1>6. g3 = Put(f, p, Record(a, i + 1, n, u, b)) /\ p \in DOMAIN g3 /\ g3[p] = Record(a, i + 1, n, u, b)
  <2>1. g3 = Put(g2, p, Record(a, i + 1, n, u, b))
    BY <1>3, <1>5, SetPrinted
  <2> QED
    BY <1>5, <2>1, PutPut
<1>7. ShownNext(f, p, a, u) = g3
  BY <1>1, <1>2, <1>3 DEF ShownNext
<1> QED
  BY <1>6, <1>7

LEMMA SetRead ==
    ASSUME NEW f, NEW p \in DOMAIN f, NEW a, NEW u, NEW d,
           NEW c, NEW i, NEW n, NEW t, NEW b, f[p] = Record(c, i, n, t, b)
    PROVE  ReadNext(f, p, a, u, d)
             = Put(f, p, Record(a, i + 1, n, u, d))
<1>1. PICK g1 : g1 = [f EXCEPT ![p].pc = a]
  OBVIOUS
<1>2. PICK g2 : g2 = [g1 EXCEPT ![p].index = NextIndex(@)]
  OBVIOUS
<1>3. PICK g3 : g3 = [g2 EXCEPT ![p].buffer = d]
  OBVIOUS
<1>4. PICK g4 : g4 = [g3 EXCEPT ![p].printed = u]
  OBVIOUS
<1>5. g1 = Put(f, p, Record(a, i, n, t, b)) /\ p \in DOMAIN g1 /\ g1[p] = Record(a, i, n, t, b)
  BY <1>1, SetPc, PutPut
<1>6. g2 = Put(f, p, Record(a, i + 1, n, t, b)) /\ p \in DOMAIN g2 /\ g2[p] = Record(a, i + 1, n, t, b)
  <2>1. g2 = Put(g1, p, Record(a, i + 1, n, t, b))
    <3>1. g1[p].index = i
      BY <1>2, <1>5 DEF Record
    <3>2. PICK v : v = i + 1
      OBVIOUS
    <3>3. g2 = [g1 EXCEPT ![p].index = v]
      BY <1>2, <3>1, <3>2 DEF NextIndex
    <3>4. g2 = Put(g1, p, Record(a, v, n, t, b))
      BY <1>5, <3>3, SetIndex
    <3> QED
      BY <3>2, <3>4
  <2> QED
    BY <1>5, <2>1, PutPut
<1>7. g3 = Put(f, p, Record(a, i + 1, n, t, d)) /\ p \in DOMAIN g3 /\ g3[p] = Record(a, i + 1, n, t, d)
  <2>1. g3 = Put(g2, p, Record(a, i + 1, n, t, d))
    BY <1>3, <1>6, SetBuffer
  <2> QED
    BY <1>6, <2>1, PutPut
<1>8. g4 = Put(f, p, Record(a, i + 1, n, u, d)) /\ p \in DOMAIN g4 /\ g4[p] = Record(a, i + 1, n, u, d)
  <2>1. g4 = Put(g3, p, Record(a, i + 1, n, u, d))
    BY <1>4, <1>7, SetPrinted
  <2> QED
    BY <1>7, <2>1, PutPut
<1>9. ReadNext(f, p, a, u, d) = g4
  BY <1>1, <1>2, <1>3, <1>4 DEF ReadNext
<1> QED
  BY <1>8, <1>9

LEMMA StepActs ==
    ASSUME TypeInv, NEW p \in Readers, Step(p)
    PROVE  Acts(p)
<1>0. /\ p \in DOMAIN reader
      /\ reader[p] = Record(reader[p].pc, reader[p].index, reader[p].inode,
                            reader[p].printed, reader[p].buffer)
      /\ currDirent = [name |-> currDirent.name, inode |-> currDirent.inode]
  BY DEF TypeInv, IsReader, Record
<1> DEFINE i == reader[p].index
           n == reader[p].inode
           t == reader[p].printed
           b == reader[p].buffer
<1>8. PICK c : reader[p] = Record(c, i, n, t, b)
  BY <1>0
<1> HIDE DEF i, n, t, b
<1>1. CASE ReaddirName(p)
  <2>1. reader' = [reader EXCEPT ![p].pc = "inode"]
    BY <1>1 DEF ReaddirName
  <2>2. Becomes(p, Record("inode", reader[p].index, reader[p].inode,
                          reader[p].printed, reader[p].buffer))
    <3>1. reader' = Put(reader, p, Record("inode", i, n, t, b))
      BY <1>0, <1>8, <2>1, SetPc
    <3> QED
      BY <3>1 DEF Becomes, i, n, t, b
  <2> QED
    BY <1>0, <1>1, <2>2 DEF ReaddirName, At, BehindFiles, Acts, KernelKept, Names
<1>2. CASE ReaddirInode(p)
  <2>1. reader' = [reader EXCEPT ![p].pc = "print"]
    BY <1>2 DEF ReaddirInode
  <2>2. Becomes(p, Record("print", reader[p].index, reader[p].inode,
                          reader[p].printed, reader[p].buffer))
    <3>1. reader' = Put(reader, p, Record("print", i, n, t, b))
      BY <1>0, <1>8, <2>1, SetPc
    <3> QED
      BY <3>1 DEF Becomes, i, n, t, b
  <2> QED
    BY <1>0, <1>2, <2>2 DEF ReaddirInode, At, Acts, KernelKept, Numbers
<1>3. CASE ReaddirEnds(p)
  <2>1. reader' = [reader EXCEPT ![p].pc = "done"]
    BY <1>3 DEF ReaddirEnds
  <2>2. Becomes(p, Record("done", reader[p].index, reader[p].inode,
                          reader[p].printed, reader[p].buffer))
    <3>1. reader' = Put(reader, p, Record("done", i, n, t, b))
      BY <1>0, <1>8, <2>1, SetPc
    <3> QED
      BY <3>1 DEF Becomes, i, n, t, b
  <2> QED
    BY <1>3, <2>2 DEF ReaddirEnds, At, BehindFiles, Acts, KernelKept, Finishes
<1>4. CASE PrintName(p)
  <2>1. PICK e : e = [name |-> currDirent.name, shown |-> <<>>]
    OBVIOUS
  <2>2. reader' = [reader EXCEPT ![p].pc = "finddir", ![p].printed = Append(@, e)]
    BY <1>4, <2>1 DEF PrintName
  <2>3. Becomes(p, Record("finddir", reader[p].index, reader[p].inode,
                          Append(reader[p].printed, e), reader[p].buffer))
    <3>1. reader' = Put(reader, p, Record("finddir", i, n, Append(t, e), b))
      <4>1. reader' = Named(reader, p, "finddir", e)
        BY <2>2 DEF Named
      <4> QED
        BY <1>0, <1>8, <4>1, SetNamed
    <3> QED
      BY <3>1 DEF Becomes, i, n, t, b
  <2> QED
    BY <1>4, <2>1, <2>3 DEF PrintName, At, Acts, KernelKept, PrintsOne
<1>5. CASE FinddirDirectory(p)
  <2>1. PICK u : u = Showing(p, <<"directory">>)
    OBVIOUS
  <2>2. reader' = [reader EXCEPT ![p].pc = "readdir", ![p].index = NextIndex(@),
                      ![p].printed = u]
    BY <1>5, <2>1 DEF FinddirDirectory
  <2>3. Becomes(p, Record("readdir", reader[p].index + 1, reader[p].inode, u, reader[p].buffer))
    <3>1. reader' = Put(reader, p, Record("readdir", i + 1, n, u, b))
      <4>1. reader' = ShownNext(reader, p, "readdir", u)
        BY <2>2 DEF ShownNext
      <4> QED
        BY <1>0, <1>8, <4>1, SetShown
    <3> QED
      BY <3>1 DEF Becomes, i, n, t, b
  <2> QED
    BY <1>5, <2>1, <2>3 DEF FinddirDirectory, At, Acts, KernelKept, Announces
<1>6. CASE FinddirFile(p)
  <2>1. PICK node \in FindDir(currDirent.name) :
           /\ node.flags = "file"
           /\ reader' = [reader EXCEPT ![p].pc = "read", ![p].inode = node.inode]
    BY <1>6 DEF FinddirFile
  <2>2. Becomes(p, Record("read", reader[p].index, node.inode, reader[p].printed,
                          reader[p].buffer))
    <3>1. reader' = Put(reader, p, Record("read", i, node.inode, t, b))
      <4>1. reader' = Opened(reader, p, "read", node.inode)
        BY <2>1 DEF Opened
      <4> QED
        BY <1>0, <1>8, <4>1, SetOpened
    <3> QED
      BY <3>1 DEF Becomes, i, n, t, b
  <2> QED
    BY <1>6, <2>1, <2>2 DEF FinddirFile, At, Acts, KernelKept, Opens
<1>7. CASE ReadFile(p)
  <2>1. PICK d, u : d = Buffered(p) /\ u = Showing(p, ShownOf(p, d))
    OBVIOUS
  <2>2. reader' = [reader EXCEPT ![p].pc = "readdir", ![p].index = NextIndex(@),
                      ![p].buffer = d, ![p].printed = u]
    BY <1>7, <2>1, Zenon DEF ReadFile, Buffered, ShownOf
  <2>3. Becomes(p, Record("readdir", reader[p].index + 1, reader[p].inode, u, d))
    <3>1. reader' = Put(reader, p, Record("readdir", i + 1, n, u, d))
      <4>1. reader' = ReadNext(reader, p, "readdir", u, d)
        BY <2>2 DEF ReadNext
      <4> QED
        BY <1>0, <1>8, <4>1, SetRead
    <3> QED
      BY <3>1 DEF Becomes, i, n, t, b
  <2> QED
    BY <1>7, <2>1, <2>3 DEF ReadFile, At, Acts, KernelKept, ShowsFile
<1> QED
  BY <1>1, <1>2, <1>3, <1>4, <1>5, <1>6, <1>7 DEF Step

-----------------------------------------------------------------------------
(* What is printed is a sequence.                                          *)

LEMMA TextOf ==
    ASSUME NEW n \in Nat, NEW t, t = [k \in 1 .. n |-> t[k]]
    PROVE  IsText(t) /\ Len(t) = n
<1>1. t \in [1 .. n -> Range(t)]
  BY DEF Range
<1>2. t \in Seq(Range(t))
  BY <1>1, SeqDef
<1>3. DOMAIN t = 1 .. n
  BY <1>1
<1> QED
  BY <1>2, <1>3, LenProperties DEF IsText

LEMMA TextIs ==
    ASSUME NEW t, IsText(t)
    PROVE  Len(t) \in Nat /\ DOMAIN t = 1 .. Len(t) /\ t = [k \in 1 .. Len(t) |-> t[k]]
<1>1. t \in Seq(Range(t))
  BY DEF IsText
<1> QED
  BY <1>1, LenProperties

LEMMA AppendText ==
    ASSUME NEW t, IsText(t), NEW e
    PROVE  /\ IsText(Append(t, e)) /\ Len(Append(t, e)) = Len(t) + 1
           /\ \A k \in 1 .. Len(t) : Append(t, e)[k] = t[k]
           /\ Append(t, e)[Len(t) + 1] = e
<1>1. PICK S : S = Range(t) \cup {e}
  OBVIOUS
<1>2. t \in Seq(Range(t)) /\ Range(t) \subseteq S /\ e \in S
  BY <1>1 DEF IsText
<1>3. t \in Seq(S) /\ Len(t) \in Nat
  BY <1>2, SeqMonotonic, LenProperties
<1>4. PICK u, n : u = Append(t, e) /\ n = Len(t) + 1
  OBVIOUS
<1>5. /\ u \in Seq(S) /\ Len(u) = n
      /\ \A k \in 1 .. n : u[k] = IF k <= Len(t) THEN t[k] ELSE e
  BY <1>2, <1>3, <1>4, AppendProperties
<1>6. n \in Nat /\ u = [k \in 1 .. n |-> u[k]]
  BY <1>3, <1>4, <1>5, LenProperties
<1>7. IsText(u)
  BY <1>6, TextOf
<1> QED
  BY <1>3, <1>4, <1>5, <1>7

LEMMA ShowingText ==
    ASSUME NEW p, IsText(reader[p].printed), NEW shown
    PROVE  /\ IsText(Showing(p, shown)) /\ Len(Showing(p, shown)) = Len(reader[p].printed)
           /\ \A k \in 1 .. Len(reader[p].printed) - 1 :
                 Showing(p, shown)[k] = reader[p].printed[k]
           /\ \A name, old : Len(reader[p].printed) > 0
                 /\ reader[p].printed[Len(reader[p].printed)] = [name |-> name, shown |-> old]
                    => Showing(p, shown)[Len(reader[p].printed)]
                          = [name |-> name, shown |-> shown]
<1>1. PICK t, n, u : t = reader[p].printed /\ n = Len(t) /\ u = Showing(p, shown)
  OBVIOUS
<1>2. n \in Nat /\ DOMAIN t = 1 .. n
  BY <1>1, TextIs
<1>3. u = [t EXCEPT ![n].shown = shown]
  BY <1>1, Zenon DEF Showing
<1>4. u = [k \in 1 .. n |-> u[k]]
  BY <1>2, <1>3
<1>5. IsText(u) /\ Len(u) = n
  BY <1>2, <1>4, TextOf
<1>6. \A k \in 1 .. n - 1 : u[k] = t[k]
  BY <1>2, <1>3
<1>7. ASSUME NEW name, NEW old, n > 0, t[n] = [name |-> name, shown |-> old]
      PROVE  u[n] = [name |-> name, shown |-> shown]
  <2>1. PICK r : r = t[n]
    OBVIOUS
  <2>2. u[n] = [r EXCEPT !.shown = shown]
    BY <1>2, <1>3, <1>7, <2>1
  <2> QED
    BY <1>7, <2>1, <2>2
<1> QED
  BY <1>1, <1>5, <1>6, <1>7

-----------------------------------------------------------------------------
(* Readers stay in range.                                                  *)

LEMMA InitTypeInv == Init => TypeInv
<1> SUFFICES ASSUME Init PROVE TypeInv
  OBVIOUS
<1>1. IsText(<<>>)
  <2>1. PICK t : t = <<>>
    OBVIOUS
  <2>2. t = [k \in 1 .. 0 |-> t[k]]
    BY <2>1
  <2> QED
    BY <2>1, <2>2, TextOf
<1>2. /\ reader = [p \in Readers |-> reader[p]]
      /\ \A p \in Readers : IsReader(reader[p]) /\ Unread(reader[p], "off")
  BY <1>1 DEF Init, IsReader, Unread, PC
<1>3. <<>> \in Seq(Characters)
  BY EmptySeq
<1> QED
  BY <1>2, <1>3 DEF Init, TypeInv, Kernel

\* One of the readers goes on in range.
LEMMA BecomesKeeps ==
    ASSUME TypeInv, NEW p \in Readers, NEW r, Becomes(p, r), IsReader(r), KernelKept,
           currDirent' = [name |-> currDirent'.name, inode |-> currDirent'.inode],
           currDirent'.name \in Seq(Characters),
           NEW args \in ArgLists, Loaded(args), \A q \in Readers : InRange(reader[q], Len(args)),
           InRange(r, Len(args))
    PROVE  TypeInv'
<1>1. /\ reader' = [q \in Readers |-> reader'[q]]
      /\ \A q \in Readers : reader'[q] = IF q = p THEN r ELSE reader[q]
  BY DEF TypeInv, Becomes, Put
<1>2. \A q \in Readers : IsReader(reader'[q]) /\ InRange(reader'[q], Len(args))
  BY <1>1, Zenon DEF TypeInv
<1>3. Loaded(args)'
  BY DEF KernelKept, Loaded
<1> QED
  BY <1>1, <1>2, <1>3 DEF TypeInv, Kernel

LEMMA RecordReader ==
    ASSUME NEW pc \in PC, NEW index, NEW inode, NEW printed, IsText(printed), NEW buffer
    PROVE  /\ IsReader(Record(pc, index, inode, printed, buffer))
           /\ Record(pc, index, inode, printed, buffer).pc = pc
           /\ Record(pc, index, inode, printed, buffer).index = index
           /\ Record(pc, index, inode, printed, buffer).inode = inode
           /\ Record(pc, index, inode, printed, buffer).printed = printed
  BY DEF IsReader, Record

\* Who reads has a file system.
LEMMA Reading ==
    ASSUME TypeInv, NEW p \in Readers, reader[p].pc \notin {"off", "boot"}
    PROVE  \E args \in ArgLists :
              Loaded(args) /\ \A q \in Readers : InRange(reader[q], Len(args))
  BY Zenon DEF TypeInv, Kernel, Unread

LEMMA NameOfEntry ==
    ASSUME NEW args \in ArgLists, NEW i \in 0 .. Len(args)
    PROVE  EntryName(args, i) \in Seq(Characters)
<1>1. CASE i = 0
  BY <1>1, Texts DEF EntryName
<1>2. CASE i # 0
  <2>1. i \in 1 .. Len(args)
    BY <1>2, Arguments
  <2> QED
    BY <1>2, <2>1, Arguments, Texts DEF EntryName
<1> QED
  BY <1>1, <1>2

LEMMA StepKeepsTypes ==
    ASSUME TypeInv, NEW p \in Readers, Step(p)
    PROVE  TypeInv'
<1>1. Acts(p)
  BY StepActs
<1>2. reader[p].pc \in {"readdir", "inode", "print", "finddir", "read"}
  BY <1>1 DEF Acts, Names, Numbers, Finishes, PrintsOne, Announces, Opens, ShowsFile
<1>3. PICK args \in ArgLists :
         Loaded(args) /\ \A q \in Readers : InRange(reader[q], Len(args))
  BY <1>2, Reading
<1>4. /\ IsText(reader[p].printed) /\ KernelKept /\ Len(childNodes) = Len(args)
      /\ currDirent = [name |-> currDirent.name, inode |-> currDirent.inode]
      /\ currDirent.name \in Seq(Characters) /\ Len(args) \in Nat
  BY <1>1, <1>3, Children, Arguments DEF TypeInv, IsReader, Acts
<1>5. PICK pc, i, n, t, b, N : /\ i = reader[p].index /\ n = reader[p].inode
                               /\ t = reader[p].printed /\ b = reader[p].buffer
                               /\ pc = reader[p].pc /\ N = Len(args)
  OBVIOUS
<1>6. /\ i \in 0 .. N + 1 /\ n \in 0 .. N /\ IsText(t) /\ N \in Nat
      /\ pc \in {"inode", "print", "finddir", "read"} => i <= N
  BY <1>3, <1>4, <1>5 DEF InRange
<1>7. ASSUME NEW next \in PC \ {"off", "boot"}, NEW index \in 0 .. N + 1, NEW inode \in 0 .. N,
             NEW printed, IsText(printed), NEW buffer,
             next \in {"inode", "print", "finddir", "read"} => index <= N,
             Becomes(p, Record(next, index, inode, printed, buffer)),
             currDirent' = [name |-> currDirent'.name, inode |-> currDirent'.inode],
             currDirent'.name \in Seq(Characters)
      PROVE  TypeInv'
  <2>1. PICK r : r = Record(next, index, inode, printed, buffer)
    OBVIOUS
  <2>2. IsReader(r) /\ r.pc = next /\ r.index = index /\ r.inode = inode
    BY <1>7, <2>1, RecordReader
  <2>3. InRange(r, Len(args))
    BY <1>5, <1>7, <2>2 DEF InRange
  <2>4. Becomes(p, r)
    BY <1>7, <2>1
  <2> QED
    BY <1>3, <1>4, <1>7, <2>2, <2>3, <2>4, BecomesKeeps
<1>8. {"readdir", "inode", "print", "finddir", "read", "done"} \subseteq PC \ {"off", "boot"}
  BY DEF PC
<1>9. CASE Names(p)
  <2>1. i \in 0 .. N
    BY <1>4, <1>5, <1>6, <1>9 DEF Names
  <2>2. PICK name : name = IF i = 0 THEN DevName ELSE childNodes[i].name
    OBVIOUS
  <2>3. name \in Seq(Characters)
    <3>1. name = EntryName(args, i)
      BY <1>3, <1>5, <1>6, <2>1, <2>2, Children DEF EntryName
    <3> QED
      BY <1>5, <2>1, <3>1, NameOfEntry
  <2>4. currDirent' = [name |-> name, inode |-> currDirent.inode]
    BY <1>5, <1>9, <2>2 DEF Names
  <2>5. Becomes(p, Record("inode", i, n, t, b))
    BY <1>5, <1>9 DEF Names
  <2>6. "inode" \in PC \ {"off", "boot"} /\ i \in 0 .. N + 1 /\ i <= N
    BY <1>6, <1>8, <2>1
  <2> QED
    BY <1>6, <1>7, <2>3, <2>4, <2>5, <2>6
<1>10. CASE Numbers(p)
  <2>1. "print" \in PC \ {"off", "boot"} /\ i <= N /\ Becomes(p, Record("print", i, n, t, b))
    BY <1>5, <1>6, <1>8, <1>10 DEF Numbers
  <2>2. PICK inode : currDirent' = [name |-> currDirent.name, inode |-> inode]
    BY <1>10 DEF Numbers
  <2> QED
    BY <1>4, <1>6, <1>7, <2>1, <2>2
<1>11. CASE Finishes(p)
  <2>1. /\ "done" \in PC \ {"off", "boot"} /\ Becomes(p, Record("done", i, n, t, b))
        /\ UNCHANGED currDirent
    BY <1>5, <1>8, <1>11 DEF Finishes
  <2> QED
    BY <1>4, <1>6, <1>7, <2>1
<1>12. CASE PrintsOne(p)
  <2>1. PICK u : u = Append(t, [name |-> currDirent.name, shown |-> <<>>])
    OBVIOUS
  <2>2. /\ "finddir" \in PC \ {"off", "boot"} /\ Becomes(p, Record("finddir", i, n, u, b))
        /\ UNCHANGED currDirent /\ i <= N
    BY <1>5, <1>6, <1>8, <1>12, <2>1 DEF PrintsOne
  <2>3. IsText(u)
    BY <1>6, <2>1, AppendText
  <2> QED
    BY <1>4, <1>6, <1>7, <2>2, <2>3
<1>13. CASE Announces(p)
  <2>1. PICK u : u = Showing(p, <<"directory">>)
    OBVIOUS
  <2>2. /\ "readdir" \in PC \ {"off", "boot"} /\ Becomes(p, Record("readdir", i + 1, n, u, b))
        /\ UNCHANGED currDirent /\ i + 1 \in 0 .. N + 1
    BY <1>5, <1>6, <1>8, <1>13, <2>1 DEF Announces
  <2>3. IsText(u)
    BY <1>4, <2>1, ShowingText
  <2> QED
    BY <1>4, <1>6, <1>7, <2>2, <2>3
<1>14. CASE Opens(p)
  <2>1. PICK node \in FindDir(currDirent.name) :
           /\ node.flags = "file"
           /\ Becomes(p, Record("read", i, node.inode, t, b))
    BY <1>5, <1>14 DEF Opens
  <2>2. node.inode \in 0 .. N
    <3>1. node.inode \in 1 .. Len(args)
      BY <1>3, <1>4, <2>1, Found
    <3> QED
      BY <1>5, <1>6, <3>1
  <2>3. "read" \in PC \ {"off", "boot"} /\ UNCHANGED currDirent /\ i <= N
    BY <1>5, <1>6, <1>8, <1>14 DEF Opens
  <2> QED
    BY <1>4, <1>6, <1>7, <2>1, <2>2, <2>3
<1>15. CASE ShowsFile(p)
  <2>1. PICK d, u : d = Buffered(p) /\ u = Showing(p, ShownOf(p, d))
    OBVIOUS
  <2>2. /\ "readdir" \in PC \ {"off", "boot"} /\ Becomes(p, Record("readdir", i + 1, n, u, d))
        /\ UNCHANGED currDirent /\ i + 1 \in 0 .. N + 1
    BY <1>5, <1>6, <1>8, <1>15, <2>1 DEF ShowsFile
  <2>3. IsText(u)
    BY <1>4, <2>1, ShowingText
  <2> QED
    BY <1>4, <1>6, <1>7, <2>2, <2>3
<1> QED
  BY <1>1, <1>9, <1>10, <1>11, <1>12, <1>13, <1>14, <1>15 DEF Acts

LEMMA PackKeepsTypes ==
    ASSUME TypeInv, NEW args \in ArgLists, Pack(args)
    PROVE  TypeInv' /\ \A p \in Readers : Unread(reader'[p], "boot")
<1>1. PICK p0 : p0 \in Readers
  BY InitrdAssumption
<1>2. \A p \in Readers : reader[p].pc = "off"
  BY DEF Pack
<1>3. /\ image = [headers |-> <<>>, body |-> <<>>]
      /\ fileHeaders = <<>> /\ childNodes = <<>>
      /\ \A p \in Readers : Unread(reader[p], "off")
  <2>1. ASSUME NEW label, label # "off" PROVE ~ \A p \in Readers : Unread(reader[p], label)
    BY <1>1, <1>2, <2>1 DEF Unread
  <2>2. ASSUME NEW n PROVE ~ \A p \in Readers : InRange(reader[p], n)
    BY <1>1, <1>2, Zenon DEF InRange
  <2> QED
    BY <2>1, <2>2, Zenon DEF TypeInv, Kernel
<1>4. /\ image' = Packed(args)
      /\ reader' = [p \in Readers |-> [reader[p] EXCEPT !.pc = "boot"]]
      /\ UNCHANGED <<fileHeaders, childNodes, currDirent>>
  BY DEF Pack
<1>5. ASSUME NEW p \in Readers
      PROVE  IsReader(reader'[p]) /\ Unread(reader'[p], "boot")
  <2>1. PICK r : r = reader[p]
    OBVIOUS
  <2>2. IsReader(r) /\ Unread(r, "off")
    BY <1>3, <2>1 DEF TypeInv
  <2>3. reader'[p] = [r EXCEPT !.pc = "boot"]
    BY <1>4, <2>1
  <2>4. reader'[p] = Record("boot", r.index, r.inode, r.printed, r.buffer)
    BY <2>2, <2>3 DEF IsReader, Record
  <2>5. "boot" \in PC
    BY DEF PC
  <2> QED
    BY <2>2, <2>4, <2>5, RecordReader DEF IsReader, Unread
<1>6. Kernel'
  BY <1>3, <1>4, <1>5, Zenon DEF Kernel
<1>7. reader' = [p \in Readers |-> reader'[p]]
  BY <1>4
<1> QED
  BY <1>4, <1>5, <1>6, <1>7 DEF TypeInv

LEMMA InitKeepsTypes ==
    ASSUME TypeInv, InitrdFsInit
    PROVE  TypeInv' /\ \A p \in Readers : Unread(reader'[p], "readdir")
<1>1. PICK p0 : p0 \in Readers
  BY InitrdAssumption
<1>2. \A p \in Readers : reader[p].pc = "boot"
  BY DEF InitrdFsInit
<1>3. PICK args \in ArgLists :
         image = Packed(args) /\ \A p \in Readers : Unread(reader[p], "boot")
  <2>1. ASSUME NEW label, label # "boot" PROVE ~ \A p \in Readers : Unread(reader[p], label)
    BY <1>1, <1>2, <2>1 DEF Unread
  <2>2. ASSUME NEW n PROVE ~ \A p \in Readers : InRange(reader[p], n)
    BY <1>1, <1>2, Zenon DEF InRange
  <2> QED
    BY <2>1, <2>2, Zenon DEF TypeInv, Kernel
<1>4. /\ reader' = [p \in Readers |-> [reader[p] EXCEPT !.pc = "readdir"]]
      /\ UNCHANGED currDirent
  BY DEF InitrdFsInit
<1>5. Loaded(args)'
  BY <1>3, Loads
<1>6. ASSUME NEW p \in Readers
      PROVE  IsReader(reader'[p]) /\ Unread(reader'[p], "readdir")
  <2>1. PICK r : r = reader[p]
    OBVIOUS
  <2>2. IsReader(r) /\ Unread(r, "boot")
    BY <1>3, <2>1 DEF TypeInv
  <2>3. reader'[p] = [r EXCEPT !.pc = "readdir"]
    BY <1>4, <2>1
  <2>4. reader'[p] = Record("readdir", r.index, r.inode, r.printed, r.buffer)
    BY <2>2, <2>3 DEF IsReader, Record
  <2>5. "readdir" \in PC
    BY DEF PC
  <2> QED
    BY <2>2, <2>4, <2>5, RecordReader DEF IsReader, Unread
<1>7. ASSUME NEW p \in Readers PROVE InRange(reader'[p], Len(args))
  BY <1>6, Arguments DEF InRange, Unread
<1>8. Kernel'
  BY <1>5, <1>7, Zenon DEF Kernel
<1>9. reader' = [p \in Readers |-> reader'[p]]
  BY <1>4
<1> QED
  BY <1>4, <1>6, <1>8, <1>9 DEF TypeInv

LEMMA NextTypeInv == TypeInv /\ [Next]_vars => TypeInv'
<1> SUFFICES ASSUME TypeInv, [Next]_vars PROVE TypeInv'
  OBVIOUS
<1>1. CASE \E args \in ArgLists : Pack(args)
  BY <1>1, PackKeepsTypes
<1>2. CASE InitrdFsInit
  BY <1>2, InitKeepsTypes
<1>3. CASE \E p \in Readers : Step(p)
  BY <1>3, StepKeepsTypes
<1>4. CASE UNCHANGED vars
  BY <1>4, Zenon DEF vars, TypeInv, Kernel, Loaded
<1> QED
  BY <1>1, <1>2, <1>3, <1>4 DEF Next

LEMMA TypesSuffice == TypeInv => TypeOK
<1> SUFFICES ASSUME TypeInv PROVE TypeOK
  OBVIOUS
<1>1. \A p \in Readers : reader[p].pc \in PC
  BY DEF TypeInv, IsReader
<1>2. FileNodesNum \in Nat
  BY InitrdAssumption
<1>3. CASE /\ image = [headers |-> <<>>, body |-> <<>>]
           /\ fileHeaders = <<>> /\ childNodes = <<>>
           /\ \A p \in Readers : Unread(reader[p], "off")
  BY <1>1, <1>2, <1>3 DEF TypeOK, Unread, PC
<1>4. ASSUME NEW args \in ArgLists, image = Packed(args), fileHeaders = <<>>, childNodes = <<>>,
             \A p \in Readers : Unread(reader[p], "boot")
      PROVE  TypeOK
  <2>1. Len(image.headers) = Len(args) /\ Len(args) \in Nat /\ Len(args) <= FileNodesNum
    BY <1>4, Headers, Arguments, InitrdAssumption
  <2>2. Len(fileHeaders) = 0 /\ Len(childNodes) = 0 /\ DOMAIN childNodes = {}
    BY <1>4
  <2>3. \A p \in Readers : reader[p].index = 0 /\ reader[p].inode = 0
    BY <1>4 DEF Unread
  <2> QED
    BY <1>1, <1>2, <2>1, <2>2, <2>3 DEF TypeOK, PC
<1>5. ASSUME NEW args \in ArgLists, Loaded(args),
             \A p \in Readers : InRange(reader[p], Len(args))
      PROVE  TypeOK
  <2>1. Len(image.headers) = Len(args) /\ Len(args) \in Nat /\ Len(args) <= FileNodesNum
    BY <1>5, Headers, Arguments, InitrdAssumption DEF Loaded
  <2>2. /\ Len(fileHeaders) = Len(args) /\ Len(childNodes) = Len(args)
        /\ DOMAIN fileHeaders = 1 .. Len(args)
        /\ \A i \in DOMAIN childNodes :
              childNodes[i].inode \in 1 .. Len(args) /\ childNodes[i].flags = "file"
    BY <1>5, Children
  <2>3. \A p \in Readers :
           reader[p].index \in 0 .. Len(args) + 1 /\ reader[p].inode \in 0 .. Len(args)
    BY <1>5 DEF InRange
  <2> QED
    BY <1>1, <2>1, <2>2, <2>3 DEF TypeOK, PC
<1> QED
  BY <1>3, <1>4, <1>5, Zenon DEF TypeInv, Kernel

LEMMA TypeInvHolds == Spec => []TypeInv
<1> QED
  BY InitTypeInv, NextTypeInv, PTL DEF Spec

\* However many readers: every inode a node gives finds a header in the
\* kernel's table, and no reader's index or inode leaves the directory.
THEOREM InitrdTypes == Spec => []TypeOK
<1> QED
  BY TypeInvHolds, TypesSuffice, PTL

-----------------------------------------------------------------------------
(* One reader prints the listing.                                          *)

LEMMA PrintsMore ==
    ASSUME NEW args, NEW n \in Nat, NEW t, IsText(t), Prints(t, args, n)
    PROVE  PrintsName(Append(t, [name |-> EntryName(args, n), shown |-> <<>>]), args, n)
<1>1. PICK e, u : /\ e = [name |-> EntryName(args, n), shown |-> <<>>]
                  /\ u = Append(t, e)
  OBVIOUS
<1>2. /\ Len(t) = n /\ Len(u) = n + 1 /\ u[n + 1] = e
      /\ \A k \in 1 .. n : u[k] = t[k]
  BY <1>1, AppendText DEF Prints
<1>3. ASSUME NEW i \in 0 .. n - 1 PROVE u[i + 1] = Entry(args, i)
  <2>1. i + 1 \in 1 .. n
    OBVIOUS
  <2> QED
    BY <1>2, <2>1 DEF Prints
<1> QED
  BY <1>1, <1>2, <1>3 DEF PrintsName

LEMMA PrintsShown ==
    ASSUME NEW args, NEW n \in Nat, NEW p, IsText(reader[p].printed),
           PrintsName(reader[p].printed, args, n)
    PROVE  Prints(Showing(p, EntryShown(args, n)), args, n + 1)
<1>1. PICK t, u : t = reader[p].printed /\ u = Showing(p, EntryShown(args, n))
  OBVIOUS
<1>2. /\ Len(t) = n + 1 /\ t[n + 1] = [name |-> EntryName(args, n), shown |-> <<>>]
      /\ \A i \in 0 .. n - 1 : t[i + 1] = Entry(args, i)
  BY <1>1 DEF PrintsName
<1>3. Len(u) = n + 1 /\ \A k \in 1 .. n + 1 - 1 : u[k] = t[k]
  BY <1>1, <1>2, ShowingText
<1>4. u[n + 1] = Entry(args, n)
  <2>1. PICK l : l = Len(t)
    OBVIOUS
  <2>2. l > 0 /\ l = n + 1
    BY <1>2, <2>1
  <2>3. u[l] = [name |-> EntryName(args, n), shown |-> EntryShown(args, n)]
    BY <1>1, <1>2, <2>1, <2>2, ShowingText
  <2> QED
    BY <2>2, <2>3 DEF Entry
<1>5. ASSUME NEW i \in 0 .. n + 1 - 1 PROVE u[i + 1] = Entry(args, i)
  <2>1. CASE i = n
    BY <1>4, <2>1
  <2>2. CASE i # n
    <3>1. i + 1 \in 1 .. n + 1 - 1 /\ i \in 0 .. n - 1
      BY <2>2
    <3> QED
      BY <1>2, <1>3, <3>1
  <2> QED
    BY <2>1, <2>2
<1> QED
  BY <1>1, <1>3, <1>5 DEF Prints

LEMMA StepKeepsPlace ==
    ASSUME TypeInv, NamesTerminated, NEW p \in Readers, Step(p),
           NEW args \in ArgLists, Loaded(args), ReaderAt(p, args)
    PROVE  ReaderAt(p, args)'
<1>1. Acts(p)
  BY StepActs
<1>2. reader[p].pc \in {"readdir", "inode", "print", "finddir", "read"}
  BY <1>1 DEF Acts, Names, Numbers, Finishes, PrintsOne, Announces, Opens, ShowsFile
<1>3. InRange(reader[p], Len(args))
  <2>1. PICK others \in ArgLists :
           Loaded(others) /\ \A q \in Readers : InRange(reader[q], Len(others))
    BY <1>2, Reading
  <2>2. Len(others) = Len(childNodes) /\ Len(args) = Len(childNodes)
    BY <2>1, Children
  <2> QED
    BY <2>1, <2>2
<1>4. /\ IsText(reader[p].printed) /\ Len(childNodes) = Len(args)
      /\ currDirent.name \in Seq(Characters) /\ Len(args) \in Nat
      /\ p \in DOMAIN reader
  BY <1>3, Children, Arguments DEF TypeInv, IsReader
<1>5. PICK pc, i, n, t, b, name, N :
         /\ i = reader[p].index /\ n = reader[p].inode
         /\ t = reader[p].printed /\ b = reader[p].buffer
         /\ pc = reader[p].pc /\ name = currDirent.name /\ N = Len(args)
  OBVIOUS
<1>6. /\ i \in 0 .. N + 1 /\ n \in 0 .. N /\ IsText(t) /\ N \in Nat /\ i \in Nat
      /\ pc \in {"inode", "print", "finddir", "read"} => i <= N
      /\ Place(pc, i, n, t, name, args)
  BY <1>3, <1>4, <1>5 DEF InRange, ReaderAt
<1>7. ASSUME NEW next, NEW index, NEW inode, NEW printed, NEW buffer,
             Becomes(p, Record(next, index, inode, printed, buffer)),
             Place(next, index, inode, printed, currDirent'.name, args)
      PROVE  ReaderAt(p, args)'
  <2>1. reader'[p] = Record(next, index, inode, printed, buffer)
    BY <1>4, <1>7, PutPut DEF Becomes
  <2>2. /\ reader'[p].pc = next /\ reader'[p].index = index
        /\ reader'[p].inode = inode /\ reader'[p].printed = printed
    BY <2>1 DEF Record
  <2> QED
    BY <1>7, <2>2 DEF ReaderAt
<1>8. CASE Names(p)
  <2>1. /\ pc = "readdir" /\ i <= N /\ Becomes(p, Record("inode", i, n, t, b))
        /\ currDirent'.name = IF i = 0 THEN DevName ELSE childNodes[i].name
    BY <1>4, <1>5, <1>6, <1>8 DEF Names
  <2>2. currDirent'.name = EntryName(args, i)
    BY <1>5, <1>6, <2>1, Children DEF EntryName
  <2>3. Place("inode", i, n, t, currDirent'.name, args)
    BY <1>6, <2>1, <2>2 DEF Place
  <2> QED
    BY <1>7, <2>1, <2>3
<1>9. CASE Numbers(p)
  <2>1. /\ pc = "inode" /\ Becomes(p, Record("print", i, n, t, b))
        /\ currDirent'.name = name
    BY <1>5, <1>9 DEF Numbers
  <2>2. Place("print", i, n, t, currDirent'.name, args)
    BY <1>6, <2>1 DEF Place
  <2> QED
    BY <1>7, <2>1, <2>2
<1>10. CASE Finishes(p)
  <2>1. /\ pc = "readdir" /\ i > N /\ Becomes(p, Record("done", i, n, t, b))
    BY <1>4, <1>5, <1>10 DEF Finishes
  <2>2. i = N + 1
    BY <1>6, <2>1
  <2>3. Place("done", i, n, t, currDirent'.name, args)
    BY <1>5, <1>6, <2>1, <2>2 DEF Place
  <2> QED
    BY <1>7, <2>1, <2>3
<1>11. CASE PrintsOne(p)
  <2>1. PICK u : u = Append(t, [name |-> name, shown |-> <<>>])
    OBVIOUS
  <2>2. /\ pc = "print" /\ Becomes(p, Record("finddir", i, n, u, b))
        /\ currDirent'.name = name
    BY <1>5, <1>11, <2>1 DEF PrintsOne
  <2>3. Prints(t, args, i) /\ name = EntryName(args, i)
    BY <1>6, <2>2 DEF Place
  <2>4. PrintsName(u, args, i)
    BY <1>6, <2>1, <2>3, PrintsMore
  <2>5. Place("finddir", i, n, u, currDirent'.name, args)
    BY <2>2, <2>3, <2>4 DEF Place
  <2> QED
    BY <1>7, <2>2, <2>5
<1>12. CASE Announces(p)
  <2>1. PICK u : u = Showing(p, <<"directory">>)
    OBVIOUS
  <2>2. /\ pc = "finddir" /\ Becomes(p, Record("readdir", i + 1, n, u, b))
        /\ \E node \in FindDir(name) : node.flags = "directory"
    BY <1>5, <1>12, <2>1 DEF Announces
  <2>3. name = DevName
    <3>1. PICK node \in FindDir(name) : node.flags = "directory"
      BY <2>2
    <3> QED
      BY <1>4, <1>5, <3>1, Found
  <2>4. PrintsName(t, args, i) /\ name = EntryName(args, i)
    BY <1>6, <2>2 DEF Place
  <2>5. EntryShown(args, i) = <<"directory">>
    BY <2>3, <2>4 DEF EntryShown
  <2>6. Prints(u, args, i + 1)
    <3>1. Prints(Showing(p, EntryShown(args, i)), args, i + 1)
      BY <1>5, <1>6, <2>4, PrintsShown
    <3> QED
      BY <2>1, <2>5, <3>1
  <2>7. Place("readdir", i + 1, n, u, currDirent'.name, args)
    BY <2>6 DEF Place
  <2> QED
    BY <1>7, <2>2, <2>7
<1>13. CASE Opens(p)
  <2>1. PICK node \in FindDir(name) :
           node.flags = "file" /\ Becomes(p, Record("read", i, node.inode, t, b))
    BY <1>5, <1>13 DEF Opens
  <2>2. pc = "finddir"
    BY <1>5, <1>13 DEF Opens
  <2>3. PrintsName(t, args, i) /\ name = EntryName(args, i)
    BY <1>6, <2>2 DEF Place
  <2>4. name # DevName /\ node.inode \in 1 .. Len(args) /\ args[node.inode] = name
    BY <1>4, <1>5, <2>1, Found
  <2>5. Place("read", i, node.inode, t, currDirent'.name, args)
    BY <2>3, <2>4 DEF Place
  <2> QED
    BY <1>7, <2>1, <2>5
<1>14. CASE ShowsFile(p)
  <2>1. PICK d, s, u : d = Buffered(p) /\ s = ShownOf(p, d) /\ u = Showing(p, s)
    OBVIOUS
  <2>2. pc = "read" /\ Becomes(p, Record("readdir", i + 1, n, u, d))
    BY <1>5, <1>14, <2>1 DEF ShowsFile
  <2>3. /\ PrintsName(t, args, i) /\ EntryName(args, i) # DevName
        /\ n \in 1 .. Len(args) /\ args[n] = EntryName(args, i)
    BY <1>6, <2>2 DEF Place
  <2>4. s = Upto(Contents[args[n]], BufSize)
    <3>1. d = ReadInto(b, fileHeaders[n], 0, BufSize)
      BY <1>5, <2>1 DEF Buffered
    <3>2. s = SubSeq(d, 1, ReadSize(fileHeaders[n], 0, BufSize))
      BY <1>5, <2>1 DEF ShownOf
    <3> QED
      BY <2>3, <3>1, <3>2, Shows
  <2>5. s = EntryShown(args, i)
    <3>1. i # 0
      BY <2>3 DEF EntryName
    <3>2. args[n] = args[i]
      BY <2>3, <3>1 DEF EntryName
    <3> QED
      BY <2>3, <2>4, <3>2 DEF EntryShown
  <2>6. Prints(u, args, i + 1)
    <3>1. Prints(Showing(p, EntryShown(args, i)), args, i + 1)
      BY <1>5, <1>6, <2>3, PrintsShown
    <3> QED
      BY <2>1, <2>5, <3>1
  <2>7. Place("readdir", i + 1, n, u, currDirent'.name, args)
    BY <2>6 DEF Place
  <2> QED
    BY <1>7, <2>2, <2>7
<1> QED
  BY <1>1, <1>8, <1>9, <1>10, <1>11, <1>12, <1>13, <1>14 DEF Acts

LEMMA Untold ==
    ASSUME NEW p, NEW args, Unread(reader[p], "readdir") \/ reader[p].pc \in {"off", "boot"}
    PROVE  ReaderAt(p, args)
<1>1. CASE reader[p].pc \in {"off", "boot"}
  BY <1>1 DEF ReaderAt, Place
<1>2. CASE Unread(reader[p], "readdir")
  <2>1. Prints(<<>>, args, 0)
    BY DEF Prints
  <2> QED
    BY <1>2, <2>1 DEF ReaderAt, Place, Unread
<1> QED
  BY <1>1, <1>2

LEMMA NextListInv ==
    ASSUME NamesTerminated, OneReader
    PROVE  TypeInv /\ ListInv /\ [Next]_vars => ListInv'
<1> SUFFICES ASSUME TypeInv, ListInv, [Next]_vars PROVE ListInv'
  OBVIOUS
<1>1. CASE \E args \in ArgLists : Pack(args)
  <2>1. \A p \in Readers : reader'[p].pc = "boot"
    BY <1>1, PackKeepsTypes DEF Unread
  <2>2. \A p \in Readers : \A args \in ArgLists : ReaderAt(p, args)'
    BY <2>1, Zenon DEF ReaderAt, Place
  <2> QED
    BY <2>2 DEF ListInv
<1>2. CASE InitrdFsInit
  <2>1. \A p \in Readers : Unread(reader'[p], "readdir")
    BY <1>2, InitKeepsTypes
  <2>2. \A args : Prints(<<>>, args, 0)
    BY DEF Prints
  <2>3. \A p \in Readers : \A args \in ArgLists : ReaderAt(p, args)'
    BY <2>1, <2>2 DEF ReaderAt, Place, Unread
  <2> QED
    BY <2>3 DEF ListInv
<1>3. CASE \E p \in Readers : Step(p)
  <2>1. PICK p \in Readers : Step(p)
    BY <1>3
  <2>2. \A args \in ArgLists : Loaded(args)' => Loaded(args)
    BY <2>1, StepActs DEF Acts, KernelKept, Loaded
  <2>3. \A args \in ArgLists : Loaded(args)' => ReaderAt(p, args)'
    BY <2>1, <2>2, StepKeepsPlace DEF ListInv
  <2>4. \A q \in Readers : q = p
    BY DEF OneReader
  <2> QED
    BY <2>3, <2>4, Zenon DEF ListInv
<1>4. CASE UNCHANGED vars
  BY <1>4, Zenon DEF vars, ListInv, Loaded, ReaderAt
<1> QED
  BY <1>1, <1>2, <1>3, <1>4 DEF Next

LEMMA InitListInv == Init => ListInv
<1> SUFFICES ASSUME Init PROVE ListInv
  OBVIOUS
<1>1. \A p \in Readers : reader[p].pc \in {"off", "boot"}
  BY DEF Init
<1>2. \A p \in Readers : \A args \in ArgLists : ReaderAt(p, args)
  BY <1>1, Untold
<1> QED
  BY <1>2 DEF ListInv

\* What is printed of a reader's entries is the listing's.
ListedBy(p) ==
    LET printed == reader[p].printed
        unfinished == IF reader[p].pc \in {"finddir", "read"} THEN 1 ELSE 0
    IN  /\ Len(printed) <= Len(Listing)
        /\ \A i \in DOMAIN printed :
              /\ printed[i].name = Listing[i].name
              /\ printed[i].shown = Listing[i].shown \/ i > Len(printed) - unfinished
        /\ reader[p].pc = "done" => Len(printed) = Len(Listing)

LEMMA UnreadListed ==
    ASSUME NEW p, NEW label \in {"off", "boot"}, Unread(reader[p], label), Len(Listing) \in Nat
    PROVE  ListedBy(p)
  BY DEF ListedBy, Unread

LEMMA EmptyListing ==
    ASSUME image = [headers |-> <<>>, body |-> <<>>]
    PROVE  Len(Listing) \in Nat
<1>1. PICK e, S, s, t : /\ e = [name |-> DevName, shown |-> <<"directory">>]
                        /\ S = {e} /\ s = <<e>>
                        /\ t = [i \in DOMAIN image.headers |->
                                  [name |-> Name(i),
                                   shown |-> IF Name(i) = DevName THEN <<"directory">>
                                             ELSE Upto(Contents[Name(i)], BufSize)]]
  OBVIOUS
<1>2. Listing = s \o t
  BY <1>1 DEF Listing
<1>3. s \in Seq(S) /\ Len(s) = 1
  BY <1>1
<1>4. t \in Seq(S) /\ Len(t) = 0
  <2>1. t = <<>>
    BY <1>1
  <2> QED
    BY <2>1, EmptySeq
<1>5. Joined(s, t, Listing)
  BY <1>2, <1>3, <1>4, Join, Zenon
<1> QED
  BY <1>3, <1>4, <1>5 DEF Joined

LEMMA ReaderListed ==
    ASSUME NEW args \in ArgLists, image = Packed(args), NEW p \in Readers,
           IsReader(reader[p]), InRange(reader[p], Len(args)), ReaderAt(p, args)
    PROVE  ListedBy(p)
<1>1. PICK pc, i, n, t, N :
         /\ i = reader[p].index /\ n = reader[p].inode
         /\ t = reader[p].printed /\ pc = reader[p].pc /\ N = Len(args)
  OBVIOUS
<1>2. /\ i \in 0 .. N + 1 /\ N \in Nat /\ IsText(t) /\ pc \in PC \ {"off", "boot"}
      /\ pc \in {"inode", "print", "finddir", "read"} => i <= N
      /\ Place(pc, i, n, t, currDirent.name, args)
  BY <1>1, Arguments DEF InRange, ReaderAt, IsReader
<1>3. /\ Len(Listing) = N + 1
      /\ \A k \in 0 .. N : Listing[k + 1] = Entry(args, k)
  BY <1>1, ListingIs
<1>4. \A k : Entry(args, k).name = EntryName(args, k)
  BY DEF Entry
<1>5. DOMAIN t = 1 .. Len(t)
  BY <1>2, TextIs
<1>6. CASE pc \in {"readdir", "inode", "print", "done"}
  <2>1. /\ Len(t) = i /\ \A k \in 0 .. i - 1 : t[k + 1] = Entry(args, k)
        /\ pc = "done" => i = N + 1
    BY <1>1, <1>2, <1>6 DEF Place, Prints
  <2>2. ASSUME NEW j \in DOMAIN t PROVE t[j] = Listing[j]
    <3>1. PICK k : k = j - 1
      OBVIOUS
    <3>2. k \in 0 .. i - 1 /\ k \in 0 .. N /\ j = k + 1
      BY <1>2, <1>5, <2>1, <3>1
    <3> QED
      BY <1>3, <2>1, <3>2
  <2>3. Len(t) <= Len(Listing) /\ (pc = "done" => Len(t) = Len(Listing))
    BY <1>2, <1>3, <2>1
  <2> QED
    BY <1>1, <2>2, <2>3 DEF ListedBy
<1>7. CASE pc \in {"finddir", "read"}
  <2>1. /\ Len(t) = i + 1 /\ \A k \in 0 .. i - 1 : t[k + 1] = Entry(args, k)
        /\ t[i + 1] = [name |-> EntryName(args, i), shown |-> <<>>]
        /\ i <= N
    BY <1>2, <1>7 DEF Place, PrintsName
  <2>2. ASSUME NEW j \in DOMAIN t
        PROVE  t[j].name = Listing[j].name /\ (t[j].shown = Listing[j].shown \/ j > Len(t) - 1)
    <3>1. PICK k : k = j - 1
      OBVIOUS
    <3>2. k \in 0 .. i /\ k \in 0 .. N /\ j = k + 1
      BY <1>2, <1>5, <2>1, <3>1
    <3>3. CASE k = i
      <4>1. t[j].name = EntryName(args, k) /\ j > Len(t) - 1
        BY <1>2, <2>1, <3>2, <3>3
      <4> QED
        BY <1>3, <1>4, <3>2, <4>1
    <3>4. CASE k # i
      <4>1. k \in 0 .. i - 1
        BY <1>2, <3>2, <3>4
      <4> QED
        BY <1>3, <2>1, <3>2, <4>1
    <3> QED
      BY <3>3, <3>4
  <2>3. Len(t) <= Len(Listing) /\ pc # "done"
    BY <1>2, <1>3, <1>7, <2>1
  <2> QED
    BY <1>1, <1>7, <2>2, <2>3 DEF ListedBy
<1> QED
  BY <1>2, <1>6, <1>7 DEF PC

LEMMA ListInvSuffices == TypeInv /\ ListInv => Listed
<1> SUFFICES ASSUME TypeInv, ListInv, NEW p \in Readers PROVE ListedBy(p)
  BY Zenon DEF Listed, ListedBy
<1>1. CASE image = [headers |-> <<>>, body |-> <<>>] /\ Unread(reader[p], "off")
  BY <1>1, EmptyListing, UnreadListed
<1>2. ASSUME NEW args \in ArgLists, image = Packed(args), Unread(reader[p], "boot")
      PROVE  ListedBy(p)
  <2>1. Len(Listing) \in Nat
    BY <1>2, ListingIs, Arguments
  <2> QED
    BY <1>2, <2>1, UnreadListed
<1>3. ASSUME NEW args \in ArgLists, Loaded(args), InRange(reader[p], Len(args))
      PROVE  ListedBy(p)
  <2>1. image = Packed(args) /\ IsReader(reader[p]) /\ ReaderAt(p, args)
    BY <1>3 DEF Loaded, ListInv, TypeInv
  <2> QED
    BY <1>3, <2>1, ReaderListed
<1> QED
  BY <1>1, <1>2, <1>3, Zenon DEF TypeInv, Kernel

\* One process lists the ramdisk: whatever the files are called, short of
\* MAX_FILE_NAME_LEN, and whatever they hold, it prints dev and then every
\* file once, in the order of mk_initrd's arguments, each with the beginning
\* of its own contents, and it is done when it has printed all of them.
THEOREM AllListed ==
    ASSUME NamesTerminated, OneReader
    PROVE  Spec => []Listed
<1>1. Init => ListInv
  BY InitListInv
<1>2. TypeInv /\ ListInv /\ [Next]_vars => ListInv'
  BY NextListInv
<1>3. TypeInv /\ ListInv => Listed
  BY ListInvSuffices
<1> QED
  BY <1>1, <1>2, <1>3, TypeInvHolds, PTL DEF Spec
=============================================================================
