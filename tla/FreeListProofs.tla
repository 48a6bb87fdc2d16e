---------------------------- MODULE FreeListProofs ----------------------------
(***************************************************************************)
(* The kernel heap keeps its invariants for every heap, every set of       *)
(* layouts and every order of calls.  The inductive invariant is HeapOK.   *)
(* The two facts that carry it are that alloc cuts one block of the list   *)
(* into disjoint pieces (AllocCuts, SpliceTakesOut) and that dealloc,      *)
(* wherever its walk stops, inserts a block and merges it with exactly     *)
(* the neighbours it touches (FrontInserts, BehindInserts).                *)
(***************************************************************************)
EXTENDS FreeListAllocator, SequenceTheorems, FiniteSetTheorems, TLAPS

(* Quotient and remainder, as align_up uses them. *)
LEMMA DivMod ==
  ASSUME NEW x \in Nat, NEW d \in Nat \ {0}
  PROVE  /\ (x \div d) \in Nat
         /\ x = d * (x \div d) + (x % d)
         /\ 0 <= x % d /\ x % d < d
  OBVIOUS

(* align_up rounds up, and by less than the alignment. *)
LEMMA AlignUpBounds ==
  ASSUME NEW x \in Nat, NEW al \in Nat \ {0}
  PROVE  /\ align_up(x, al) \in Nat
         /\ x <= align_up(x, al)
         /\ align_up(x, al) < x + al
<1> DEFINE q == (x + al - 1) \div al
<1>1. q \in Nat /\ (x + al - 1) = al * q + ((x + al - 1) % al)
      /\ 0 <= (x + al - 1) % al /\ (x + al - 1) % al < al
  BY DivMod
<1>2. q * al = al * q /\ al * q \in Nat
  BY <1>1
<1>. QED BY <1>1, <1>2 DEF align_up

(* A multiple of an alignment is aligned (align_up multiplies last). *)
LEMMA MultMod ==
  ASSUME NEW q \in Nat, NEW al \in Nat \ {0}
  PROVE  (q * al) % al = 0
  OBVIOUS

(* ... and is aligned for every divisor of that alignment. *)
LEMMA MultModDivisor ==
  ASSUME NEW q \in Nat, NEW al \in Nat \ {0}, NEW d \in Nat \ {0}, al % d = 0
  PROVE  (q * al) % d = 0
<1>1. PICK k \in Nat : al = k * d
  BY DivMod
<1>2. q * al = (q * k) * d /\ q * k \in Nat
  BY <1>1
<1>3. ((q * k) * d) % d = 0
  BY <1>2, MultMod
<1>. QED BY <1>2, <1>3

(* align_up gives an address aligned for al and for its divisors. *)
LEMMA AlignUpAligned ==
  ASSUME NEW x \in Nat, NEW al \in Nat \ {0}, NEW d \in Nat \ {0}, al % d = 0
  PROVE  align_up(x, al) % d = 0
<1>1. (x + al - 1) \div al \in Nat
  BY DivMod
<1>. QED BY <1>1, MultModDivisor DEF align_up

(* A function on 1 .. n is a sequence of length n: how Splice builds
   lists. *)
LEMMA FunctionIsSeq ==
  ASSUME NEW S, NEW n \in Nat, NEW f \in [1 .. n -> S]
  PROVE  f \in Seq(S) /\ Len(f) = n
<1>1. f \in Seq(S)
  BY SeqDef
<1>2. 1 .. n = 1 .. Len(f) /\ Len(f) \in Nat
  BY <1>1, LenProperties
<1>. QED BY <1>1, <1>2

(* The list that relinking s[i .. j] to r gives, element by element. *)
LEMMA SpliceElements ==
  ASSUME NEW s \in Seq(Block), NEW r \in Seq(Block),
         NEW i \in 1 .. Len(s) + 1, NEW j \in i - 1 .. Len(s),
         NEW t, t = Splice(s, i, j, r)
  PROVE  /\ t \in Seq(Block)
         /\ Len(t) = Len(s) + Len(r) - (j - i + 1)
         /\ \A k \in 1 .. Len(t) :
              t[k] = IF k < i THEN s[k]
                     ELSE IF k < i + Len(r) THEN r[k - i + 1]
                     ELSE s[k - (Len(r) - (j - i + 1))]
<1>1. /\ Len(s) \in Nat /\ Len(r) \in Nat /\ i \in Int /\ j \in Int
      /\ \A k \in 1 .. Len(s) : s[k] \in Block
      /\ \A k \in 1 .. Len(r) : r[k] \in Block
  BY LenProperties, ElementOfSeq
<1>2. PICK n \in Nat : n = Len(s) + (Len(r) - (j - i + 1))
  BY <1>1
<1>3. t \in [1 .. n -> Block]
  <2> DEFINE d == Len(r) - (j - i + 1)
             e(k) == IF k < i THEN s[k] ELSE IF k < i + Len(r) THEN r[k - i + 1] ELSE s[k - d]
  <2>1. t = [k \in 1 .. Len(s) + d |-> e(k)]
    BY DEF Splice
  <2>2. d \in Int /\ n = Len(s) + d
    BY <1>1, <1>2
  <2>3. ASSUME NEW k \in 1 .. n
        PROVE  e(k) \in Block
    <3>1. CASE k < i
      <4>1. k \in 1 .. Len(s)
        BY <1>1, <3>1
      <4>. QED BY <1>1, <3>1, <4>1
    <3>2. CASE ~ (k < i) /\ k < i + Len(r)
      <4>1. k - i + 1 \in 1 .. Len(r)
        BY <1>1, <3>2
      <4>. QED BY <1>1, <3>2, <4>1
    <3>3. CASE ~ (k < i) /\ ~ (k < i + Len(r))
      <4>1. k - d \in 1 .. Len(s)
        BY <1>1, <2>2, <3>3
      <4> HIDE DEF d
      <4>. QED BY <1>1, <3>3, <4>1
    <3>. QED BY <3>1, <3>2, <3>3
  <2> HIDE DEF e
  <2>. QED BY <2>1, <2>2, <2>3
<1>4. t \in Seq(Block) /\ Len(t) = n
  BY <1>3, FunctionIsSeq
<1>. QED BY <1>1, <1>2, <1>4 DEF Splice

------------------------------------------------------------------------------
Sorted(s) == \A i, j \in 1 .. Len(s) : i < j => End(s[i]) < s[j].addr

FitsBetween(s, i, j, r) ==
  \A k \in 1 .. Len(s), m \in 1 .. Len(r) :
    /\ k < i => End(s[k]) < r[m].addr
    /\ j < k => End(r[m]) < s[k].addr

HeaderOK(b) == b.addr % MinAlign = 0 /\ b.size >= SizeOfFreeBlock

(* Where the elements of a spliced list t come from, and where those of its
   parts go. *)
SpliceParts(s, i, j, r, t) ==
  /\ t \in Seq(Block)
  /\ \A k \in 1 .. Len(t) :
       \/ \E m \in 1 .. Len(s) : (m < i \/ j < m) /\ t[k] = s[m]
       \/ \E m \in 1 .. Len(r) : t[k] = r[m]
  /\ \A m \in 1 .. Len(s) :
       m < i \/ j < m => \E k \in 1 .. Len(t) : t[k] = s[m]
  /\ \A m \in 1 .. Len(r) : \E k \in 1 .. Len(t) : t[k] = r[m]

(* Relinking keeps the elements outside i .. j, adds those of r and
   nothing else. *)
LEMMA SpliceMembers ==
  ASSUME NEW s \in Seq(Block), NEW r \in Seq(Block),
         NEW i \in 1 .. Len(s) + 1, NEW j \in i - 1 .. Len(s),
         NEW t, t = Splice(s, i, j, r)
  PROVE  SpliceParts(s, i, j, r, t)
<1> DEFINE d == Len(r) - (j - i + 1)
<1>1. Len(s) \in Nat /\ Len(r) \in Nat /\ i \in Int /\ j \in Int /\ d \in Int
  BY LenProperties
<1>2. /\ t \in Seq(Block)
      /\ Len(t) = Len(s) + Len(r) - (j - i + 1)
      /\ \A k \in 1 .. Len(t) :
           t[k] = IF k < i THEN s[k]
                  ELSE IF k < i + Len(r) THEN r[k - i + 1]
                  ELSE s[k - (Len(r) - (j - i + 1))]
  BY SpliceElements
<1>3. Len(t) \in Nat /\ Len(t) = Len(s) + d
  BY <1>1, <1>2
<1>4. ASSUME NEW k \in 1 .. Len(t)
      PROVE  \/ \E m \in 1 .. Len(s) : (m < i \/ j < m) /\ t[k] = s[m]
             \/ \E m \in 1 .. Len(r) : t[k] = r[m]
  <2>1. CASE k < i
    <3>1. k \in 1 .. Len(s) /\ t[k] = s[k]
      BY <1>1, <1>2, <2>1
    <3>. QED BY <2>1, <3>1
  <2>2. CASE k >= i /\ k < i + Len(r)
    <3>1. k - i + 1 \in 1 .. Len(r)
      BY <1>1, <1>3, <2>2
    <3>2. t[k] = r[k - i + 1]
      BY <1>1, <1>2, <1>3, <2>2
    <3>. QED BY <3>1, <3>2
  <2>3. CASE k >= i + Len(r)
    <3>1. k - d \in 1 .. Len(s) /\ j < k - d
      BY <1>1, <1>3, <2>3
    <3>2. t[k] = s[k - d]
      BY <1>1, <1>2, <1>3, <2>3
    <3>. QED BY <3>1, <3>2
  <2>. QED BY <1>1, <1>3, <2>1, <2>2, <2>3
<1>5. ASSUME NEW m \in 1 .. Len(s), m < i \/ j < m
      PROVE  \E k \in 1 .. Len(t) : t[k] = s[m]
  <2>1. CASE m < i
    <3>1. m \in 1 .. Len(t) /\ t[m] = s[m]
      BY <1>1, <1>2, <1>3, <2>1
    <3>. QED BY <3>1
  <2>2. CASE j < m
    <3>1. /\ m + d \in 1 .. Len(t)
          /\ ~(m + d < i) /\ ~(m + d < i + Len(r)) /\ (m + d) - d = m
      BY <1>1, <1>3, <2>2
    <3>2. t[m + d] = s[(m + d) - d]
      BY <1>1, <1>2, <3>1
    <3>. QED BY <3>1, <3>2
  <2>. QED BY <1>5, <2>1, <2>2
<1>6. ASSUME NEW m \in 1 .. Len(r)
      PROVE  \E k \in 1 .. Len(t) : t[k] = r[m]
  <2> DEFINE k == i + m - 1
  <2>1. /\ k \in 1 .. Len(t)
        /\ ~(k < i) /\ k < i + Len(r) /\ k - i + 1 = m
    BY <1>1, <1>3
  <2>2. t[k] = r[k - i + 1]
    BY <1>2, <2>1
  <2>. QED BY <2>1, <2>2
<1>. QED BY <1>2, <1>4, <1>5, <1>6 DEF SpliceParts

(* Relinking keeps the list sorted when r is sorted and fits the gap. *)
LEMMA SpliceSorted ==
  ASSUME NEW s \in Seq(Block), NEW r \in Seq(Block),
         NEW i \in 1 .. Len(s) + 1, NEW j \in i - 1 .. Len(s),
         NEW t, t = Splice(s, i, j, r)
  PROVE  Sorted(s) /\ Sorted(r) /\ FitsBetween(s, i, j, r) => Sorted(t)
<1> DEFINE d == Len(r) - (j - i + 1)
<1>1. Len(s) \in Nat /\ Len(r) \in Nat /\ i \in Int /\ j \in Int /\ d \in Int
  BY LenProperties
<1>2. /\ t \in Seq(Block)
      /\ Len(t) = Len(s) + Len(r) - (j - i + 1)
      /\ \A k \in 1 .. Len(t) :
           t[k] = IF k < i THEN s[k]
                  ELSE IF k < i + Len(r) THEN r[k - i + 1]
                  ELSE s[k - (Len(r) - (j - i + 1))]
  BY SpliceElements
<1>3. Len(t) \in Nat /\ Len(t) = Len(s) + d
  BY <1>1, <1>2
<1>4. SUFFICES ASSUME Sorted(s), Sorted(r), FitsBetween(s, i, j, r),
                      NEW k \in 1 .. Len(t), NEW m \in 1 .. Len(t), k < m
               PROVE  End(t[k]) < t[m].addr
  BY DEF Sorted
<1>5. ASSUME NEW x \in 1 .. Len(t)
      PROVE  /\ x < i => x \in 1 .. Len(s) /\ t[x] = s[x]
             /\ x >= i /\ x < i + Len(r) => x - i + 1 \in 1 .. Len(r) /\ t[x] = r[x - i + 1]
             /\ x >= i + Len(r) => x - d \in 1 .. Len(s) /\ j < x - d /\ t[x] = s[x - d]
  <2>1. x < i => x \in 1 .. Len(s)
    BY <1>1, <1>3
  <2>2. x >= i /\ x < i + Len(r) => x - i + 1 \in 1 .. Len(r)
    BY <1>1, <1>3
  <2>3. x >= i + Len(r) => x - d \in 1 .. Len(s) /\ j < x - d
    BY <1>1, <1>3
  <2>4. t[x] = IF x < i THEN s[x]
               ELSE IF x < i + Len(r) THEN r[x - i + 1]
               ELSE s[x - d]
    BY <1>2
  <2>. QED BY <1>1, <1>3, <2>1, <2>2, <2>3, <2>4, SMTT(20)
<1>6. CASE m < i
  <2>1. k \in 1 .. Len(s) /\ m \in 1 .. Len(s) /\ t[k] = s[k] /\ t[m] = s[m]
    BY <1>1, <1>3, <1>4, <1>5, <1>6
  <2>. QED BY <1>4, <2>1 DEF Sorted
<1>7. CASE m >= i /\ m < i + Len(r)
  <2>0. m - i + 1 \in 1 .. Len(r) /\ t[m] = r[m - i + 1]
    BY <1>5, <1>7
  <2>1. CASE k < i
    <3>1. k \in 1 .. Len(s) /\ t[k] = s[k]
      BY <1>5, <2>1
    <3>. QED BY <1>4, <2>0, <2>1, <3>1 DEF FitsBetween
  <2>2. CASE k >= i
    <3>1. k - i + 1 \in 1 .. Len(r) /\ t[k] = r[k - i + 1] /\ k - i + 1 < m - i + 1
      BY <1>1, <1>3, <1>4, <1>5, <1>7, <2>2, SMTT(20)
    <3>. QED BY <1>4, <2>0, <3>1 DEF Sorted
  <2>. QED BY <1>1, <2>1, <2>2
<1>8. CASE m >= i + Len(r)
  <2>0. m - d \in 1 .. Len(s) /\ j < m - d /\ t[m] = s[m - d]
    BY <1>5, <1>8
  <2>1. CASE k < i
    <3>1. k \in 1 .. Len(s) /\ t[k] = s[k] /\ k < m - d
      BY <1>1, <1>3, <1>5, <1>8, <2>0, <2>1, SMTT(20)
    <3>. QED BY <1>4, <2>0, <3>1 DEF Sorted
  <2>2. CASE k >= i /\ k < i + Len(r)
    <3>1. k - i + 1 \in 1 .. Len(r) /\ t[k] = r[k - i + 1]
      BY <1>5, <2>2
    <3>. QED BY <1>4, <2>0, <3>1 DEF FitsBetween
  <2>3. CASE k >= i + Len(r)
    <3>1. k - d \in 1 .. Len(s) /\ t[k] = s[k - d] /\ k - d < m - d
      BY <1>1, <1>3, <1>4, <1>5, <2>3
    <3>. QED BY <1>4, <2>0, <3>1 DEF Sorted
  <2>. QED BY <1>1, <2>1, <2>2, <2>3, SMTT(20)
<1>. QED BY <1>1, <1>6, <1>7, <1>8
------------------------------------------------------------------------------
(* The bounds of a FreeBlock are integers. *)
LEMMA BlockInts ==
  ASSUME NEW b \in Block
  PROVE  b.addr \in Int /\ End(b) \in Int
  BY DEF Block, End

(* A list of one block. *)
LEMMA OneBlock ==
  ASSUME NEW b \in Block
  PROVE  << b >> \in Seq(Block) /\ Len(<< b >>) = 1 /\ << b >>[1] = b /\ Sorted(<< b >>)
  BY DEF Sorted

Pair(b, c) == << b >> \o << c >>

(* A list of two blocks, as alloc makes it of the two remainders. *)
LEMMA TwoBlocks ==
  ASSUME NEW b \in Block, NEW c \in Block, End(b) < c.addr,
         NEW r, r = Pair(b, c)
  PROVE  /\ r \in Seq(Block) /\ Len(r) = 2
         /\ r[1] = b /\ r[2] = c
         /\ Sorted(r)
<1> DEFINE u == << b >>
           v == << c >>
<1>1. /\ u \in Seq(Block) /\ Len(u) = 1 /\ u[1] = b
      /\ v \in Seq(Block) /\ Len(v) = 1 /\ v[1] = c
  OBVIOUS
<1> HIDE DEF u, v
<1>2. /\ u \o v \in Seq(Block)
      /\ Len(u \o v) = Len(u) + Len(v)
      /\ \A i \in 1 .. Len(u) + Len(v) :
           (u \o v)[i] = IF i <= Len(u) THEN u[i] ELSE v[i - Len(u)]
  BY <1>1, ConcatProperties
<1>3. r = u \o v
  BY DEF Pair, u, v
<1>4. r \in Seq(Block) /\ Len(r) = 2 /\ r[1] = b /\ r[2] = c
  BY <1>1, <1>2, <1>3
<1>5. \A i, j \in 1 .. 2 : i < j => i = 1 /\ j = 2
  OBVIOUS
<1>. QED BY <1>4, <1>5 DEF Sorted

(* Merging two adjacent blocks, as dealloc does, gives a block that
   starts and ends where they do and holds exactly their bytes. *)
LEMMA MergedBlock ==
  ASSUME NEW u \in Block, NEW v \in Block, Touches(u, v)
  PROVE  /\ Merged(u, v) \in Block
         /\ Merged(u, v).addr = u.addr
         /\ End(Merged(u, v)) = End(v)
         /\ HeaderOK(u) => HeaderOK(Merged(u, v))
         /\ \A h \in Block : Within(u, h) /\ Within(v, h) => Within(Merged(u, v), h)
         /\ \A c \in Block : c.size > 0 /\ Apart(c, u) /\ Apart(c, v) => Apart(c, Merged(u, v))
         /\ \A x \in Int : InBlock(x, Merged(u, v)) <=> InBlock(x, u) \/ InBlock(x, v)
  BY DEF Block, Touches, Merged, End, HeaderOK, Within, Apart, InBlock, MinAlign, SizeOfFreeBlock

(* The block init puts on the list has room for its own header. *)
LEMMA HeapBlockOK == HeapBlock \in Block /\ HeaderOK(HeapBlock)
<1>0. HeapStart \in Nat /\ 8 \in Nat \ {0} /\ 8 % 8 = 0
  BY HeapAssumption
<1>1. /\ align_up(HeapStart, 8) \in Nat
      /\ HeapStart <= align_up(HeapStart, 8)
      /\ align_up(HeapStart, 8) < HeapStart + 8
  BY <1>0, AlignUpBounds
<1>3. align_up(HeapStart, 8) % 8 = 0
  BY <1>0, AlignUpAligned
<1>2. total_size \in Nat /\ total_size >= 24
  BY HeapAssumption DEF total_size, SizeOfFreeBlock
<1>. QED BY <1>1, <1>2, <1>3 DEF HeapBlock, Block, HeaderOK, MinAlign, SizeOfFreeBlock

BlockOK(b) == b \in Block /\ HeaderOK(b) /\ Within(b, HeapBlock)

ListOK(s) == /\ s \in Seq(Block)
             /\ Sorted(s)
             /\ \A k \in 1 .. Len(s) : BlockOK(s[k])

(* What inserting block b into list s must give. *)
Inserted(s, b, t) ==
  /\ ListOK(t)
  /\ \A c \in Block :
       c.size > 0 /\ Apart(c, b) /\ (\A k \in 1 .. Len(s) : Apart(c, s[k]))
         => \A k \in 1 .. Len(t) : Apart(c, t[k])
  /\ \A x \in Int :
       InBlock(x, b) \/ (\E k \in 1 .. Len(s) : InBlock(x, s[k]))
         => \E k \in 1 .. Len(t) : InBlock(x, t[k])

(* The run r takes the place of b and of the elements i .. j of s. *)
Absorbs(s, b, i, j, r) ==
  /\ ListOK(r)
  /\ FitsBetween(s, i, j, r)
  /\ \A c \in Block :
       c.size > 0 /\ Apart(c, b) /\ (\A k \in i .. j : Apart(c, s[k]))
         => \A m \in 1 .. Len(r) : Apart(c, r[m])
  /\ \A x \in Int :
       InBlock(x, b) \/ (\E k \in i .. j : InBlock(x, s[k]))
         => \E m \in 1 .. Len(r) : InBlock(x, r[m])

(* Replacing s[i .. j] by a run that absorbs them and b inserts b. *)
LEMMA SpliceInserts ==
  ASSUME NEW s \in Seq(Block), NEW r \in Seq(Block), NEW b \in Block,
         NEW i \in 1 .. Len(s) + 1, NEW j \in i - 1 .. Len(s),
         NEW t, t = Splice(s, i, j, r)
  PROVE  ListOK(s) /\ Absorbs(s, b, i, j, r) => Inserted(s, b, t)
<1>0. SpliceParts(s, i, j, r, t)
  BY SpliceMembers
<1>1. /\ t \in Seq(Block)
      /\ \A k \in 1 .. Len(t) :
           \/ \E m \in 1 .. Len(s) : (m < i \/ j < m) /\ t[k] = s[m]
           \/ \E m \in 1 .. Len(r) : t[k] = r[m]
      /\ \A m \in 1 .. Len(s) :
           m < i \/ j < m => \E k \in 1 .. Len(t) : t[k] = s[m]
      /\ \A m \in 1 .. Len(r) : \E k \in 1 .. Len(t) : t[k] = r[m]
  BY <1>0 DEF SpliceParts
<1>2. Sorted(s) /\ Sorted(r) /\ FitsBetween(s, i, j, r) => Sorted(t)
  BY SpliceSorted
<1>3. Len(s) \in Nat /\ Len(r) \in Nat /\ Len(t) \in Nat /\ i \in Int /\ j \in Int
  BY <1>1, LenProperties
<1>4. SUFFICES ASSUME ListOK(s), Absorbs(s, b, i, j, r)
               PROVE  Inserted(s, b, t)
  OBVIOUS
<1>5. ListOK(t)
  <2>1. Sorted(t)
    BY <1>2, <1>4 DEF ListOK, Absorbs
  <2>2. ASSUME NEW k \in 1 .. Len(t) PROVE BlockOK(t[k])
    <3>1. CASE \E m \in 1 .. Len(s) : t[k] = s[m]
      BY <1>4, <3>1 DEF ListOK
    <3>2. CASE \E m \in 1 .. Len(r) : t[k] = r[m]
      BY <1>4, <3>2 DEF ListOK, Absorbs
    <3>. QED BY <1>1, <3>1, <3>2
  <2>. QED BY <1>1, <2>1, <2>2 DEF ListOK
<1>6. ASSUME NEW c \in Block, c.size > 0, Apart(c, b),
             \A k \in 1 .. Len(s) : Apart(c, s[k]),
             NEW k \in 1 .. Len(t)
      PROVE  Apart(c, t[k])
  <2>1. \A m \in i .. j : Apart(c, s[m])
    BY <1>3, <1>6
  <2>2. \A m \in 1 .. Len(r) : Apart(c, r[m])
    BY <1>4, <1>6, <2>1 DEF Absorbs
  <2>. QED BY <1>1, <1>6, <2>2
<1>7. ASSUME NEW x \in Int, InBlock(x, b) \/ (\E k \in 1 .. Len(s) : InBlock(x, s[k]))
      PROVE  \E k \in 1 .. Len(t) : InBlock(x, t[k])
  <2>1. CASE InBlock(x, b) \/ \E k \in i .. j : InBlock(x, s[k])
    <3>1. PICK m \in 1 .. Len(r) : InBlock(x, r[m])
      BY <1>4, <2>1 DEF Absorbs
    <3>. QED BY <1>1, <3>1
  <2>2. CASE \E m \in 1 .. Len(s) : (m < i \/ j < m) /\ InBlock(x, s[m])
    BY <1>1, <2>2
  <2>. QED BY <1>3, <1>7, <2>1, <2>2
<1>. QED BY <1>5, <1>6, <1>7 DEF Inserted

------------------------------------------------------------------------------
(* Block w lies strictly between the elements of s before i and after j.   *)
Between(s, i, j, w) ==
  \A k \in 1 .. Len(s) : /\ k < i => End(s[k]) < w.addr
                         /\ j < k => End(w) < s[k].addr

(* Block w is made of the bytes of b and of the elements i .. j of s.      *)
MadeOf(s, b, i, j, w) ==
  /\ \A c \in Block :
       c.size > 0 /\ Apart(c, b) /\ (\A k \in i .. j : Apart(c, s[k])) => Apart(c, w)
  /\ \A x \in Int :
       InBlock(x, b) \/ (\E k \in i .. j : InBlock(x, s[k])) => InBlock(x, w)

(* ... and so does replacing them by one block made of them and b. *)
LEMMA PlaceInserts ==
  ASSUME NEW s \in Seq(Block), NEW b \in Block, NEW w \in Block,
         NEW i \in 1 .. Len(s) + 1, NEW j \in i - 1 .. Len(s),
         NEW t, t = Splice(s, i, j, << w >>),
         ListOK(s), BlockOK(w), Between(s, i, j, w), MadeOf(s, b, i, j, w)
  PROVE  Inserted(s, b, t)
<1> DEFINE r == << w >>
<1>1. r \in Seq(Block) /\ Len(r) = 1 /\ r[1] = w /\ Sorted(r)
  BY OneBlock
<1>2. \A m \in 1 .. Len(r) : r[m] = w
  BY <1>1
<1> HIDE DEF r
<1>3. ListOK(r)
  BY <1>1, <1>2 DEF ListOK
<1>4. FitsBetween(s, i, j, r)
  BY <1>2 DEF FitsBetween, Between
<1>5. Absorbs(s, b, i, j, r)
  <2>1. \A c \in Block :
          c.size > 0 /\ Apart(c, b) /\ (\A k \in i .. j : Apart(c, s[k]))
            => \A m \in 1 .. Len(r) : Apart(c, r[m])
    BY <1>2 DEF MadeOf
  <2>2. \A x \in Int :
          InBlock(x, b) \/ (\E k \in i .. j : InBlock(x, s[k]))
            => \E m \in 1 .. Len(r) : InBlock(x, r[m])
    BY <1>1 DEF MadeOf
  <2>. QED BY <1>3, <1>4, <2>1, <2>2 DEF Absorbs
<1>6. t = Splice(s, i, j, r)
  BY DEF r
<1>7. ListOK(s) /\ Absorbs(s, b, i, j, r) => Inserted(s, b, t)
  BY <1>1, <1>6, SpliceInserts
<1>. QED BY <1>5, <1>7

ApartFrom(b, s) == \A k \in 1 .. Len(s) : Apart(b, s[k])

(* What sortedness and disjointness say about the place of b in s.         *)
LEMMA PlaceFacts ==
  ASSUME NEW s, NEW b, ListOK(s), BlockOK(b), ApartFrom(b, s)
  PROVE  /\ s \in Seq(Block) /\ Len(s) \in Nat /\ b \in Block
         /\ \A k \in 1 .. Len(s) :
              /\ s[k] \in Block
              /\ BlockOK(s[k])
              /\ b.addr < s[k].addr => End(b) <= s[k].addr
              /\ b.addr >= s[k].addr => End(s[k]) <= b.addr
         /\ \A k, m \in 1 .. Len(s) : k < m => End(s[k]) < s[m].addr
<1>1. s \in Seq(Block) /\ Len(s) \in Nat /\ b \in Block
  BY LenProperties DEF ListOK, BlockOK
<1>2. ASSUME NEW k \in 1 .. Len(s)
      PROVE  /\ s[k] \in Block
             /\ BlockOK(s[k])
             /\ b.addr < s[k].addr => End(b) <= s[k].addr
             /\ b.addr >= s[k].addr => End(s[k]) <= b.addr
  <2>1. s[k] \in Block /\ BlockOK(s[k])
    BY DEF ListOK, BlockOK
  <2>2. s[k].addr \in Nat /\ s[k].size \in Nat /\ s[k].size >= 24
    BY <2>1 DEF BlockOK, HeaderOK, Block, SizeOfFreeBlock
  <2>3. b.addr \in Nat /\ b.size \in Nat /\ b.size >= 24
    BY DEF BlockOK, HeaderOK, Block, SizeOfFreeBlock
  <2>4. Apart(b, s[k])
    BY DEF ApartFrom
  <2>. QED BY <2>1, <2>2, <2>3, <2>4, SMTT(20) DEF Apart, End
<1>. QED BY <1>1, <1>2 DEF ListOK, Sorted

(* Every block on a list lies in the heap with a header that fits, and so  *)
(* does what dealloc builds by merging two of them.                        *)
LEMMA MergedOK ==
  ASSUME NEW u, NEW v, BlockOK(u), BlockOK(v), Touches(u, v)
  PROVE  BlockOK(Merged(u, v)) /\ Merged(u, v).addr = u.addr /\ End(Merged(u, v)) = End(v)
<1>1. u \in Block /\ v \in Block /\ HeaderOK(u) /\ Within(u, HeapBlock) /\ Within(v, HeapBlock)
  BY DEF BlockOK
<1>2. HeapBlock \in Block
  BY HeapBlockOK
<1>. QED BY <1>1, <1>2, MergedBlock DEF BlockOK

(* dealloc without a merge. *)
LEMMA MadeOfNone ==
  ASSUME NEW s, NEW b, NEW i \in Nat, NEW j, j = i - 1
  PROVE  MadeOf(s, b, i, j, b)
  BY DEF MadeOf

(* dealloc merging with the block after it. *)
LEMMA MadeOfRight ==
  ASSUME NEW s, NEW b \in Block, NEW i \in Nat, s[i] \in Block, Touches(b, s[i])
  PROVE  MadeOf(s, b, i, i, Merged(b, s[i]))
<1>1. \A k \in i .. i : k = i
  OBVIOUS
<1>2. i \in i .. i
  OBVIOUS
<1>. QED BY <1>1, <1>2, MergedBlock DEF MadeOf

(* dealloc merging with the block before it. *)
LEMMA MadeOfLeft ==
  ASSUME NEW s, NEW b \in Block, NEW i \in Nat, s[i] \in Block, Touches(s[i], b)
  PROVE  MadeOf(s, b, i, i, Merged(s[i], b))
<1>1. \A k \in i .. i : k = i
  OBVIOUS
<1>2. i \in i .. i
  OBVIOUS
<1>. QED BY <1>1, <1>2, MergedBlock DEF MadeOf

(* dealloc closing the gap between two free blocks. *)
LEMMA MadeOfBoth ==
  ASSUME NEW s, NEW b \in Block, NEW i \in Nat, s[i] \in Block, s[i + 1] \in Block,
         Touches(s[i], b), Touches(b, s[i + 1])
  PROVE  MadeOf(s, b, i, i + 1, Merged(s[i], Merged(b, s[i + 1])))
<1> DEFINE v == Merged(b, s[i + 1])
<1>1. \A k \in i .. i + 1 : k = i \/ k = i + 1
  OBVIOUS
<1>2. i \in i .. i + 1 /\ i + 1 \in i .. i + 1
  OBVIOUS
<1>3. /\ v \in Block /\ v.addr = b.addr
      /\ \A c \in Block : c.size > 0 /\ Apart(c, b) /\ Apart(c, s[i + 1]) => Apart(c, v)
      /\ \A x \in Int : InBlock(x, v) <=> InBlock(x, b) \/ InBlock(x, s[i + 1])
  BY MergedBlock
<1>4. Touches(s[i], v)
  BY <1>3 DEF Touches
<1> HIDE DEF v
<1>5. /\ \A c \in Block : c.size > 0 /\ Apart(c, s[i]) /\ Apart(c, v)
                            => Apart(c, Merged(s[i], v))
      /\ \A x \in Int : InBlock(x, Merged(s[i], v)) <=> InBlock(x, s[i]) \/ InBlock(x, v)
  BY <1>3, <1>4, MergedBlock
<1>6. MadeOf(s, b, i, i + 1, Merged(s[i], v))
  BY <1>1, <1>2, <1>3, <1>5 DEF MadeOf
<1>. QED BY <1>6 DEF v

(* dealloc on an empty list, or in front of its head: the block is linked  *)
(* there, merged with the old head when the two touch.                     *)
LEMMA FrontInserts ==
  ASSUME NEW s, NEW b, ListOK(s), BlockOK(b), ApartFrom(b, s),
         NEW t,
         \/ s = << >> /\ t = InsertIntoEmpty(s, b)
         \/ s # << >> /\ b.addr < s[1].addr /\ t = InsertBeforeHead(s, b)
  PROVE  Inserted(s, b, t)
<1>1. /\ s \in Seq(Block) /\ Len(s) \in Nat /\ b \in Block
      /\ \A k \in 1 .. Len(s) :
           /\ s[k] \in Block
           /\ BlockOK(s[k])
           /\ b.addr < s[k].addr => End(b) <= s[k].addr
           /\ b.addr >= s[k].addr => End(s[k]) <= b.addr
      /\ \A k, m \in 1 .. Len(s) : k < m => End(s[k]) < s[m].addr
  BY PlaceFacts
<1>2. s # << >> => 1 \in 1 .. Len(s)
  BY <1>1, EmptySeq
<1>3. s = << >> => Len(s) = 0
  BY EmptySeq
<1>4. b.addr \in Nat /\ End(b) \in Int /\ \A k \in 1 .. Len(s) :
         s[k].addr \in Nat /\ End(s[k]) \in Int /\ s[k].addr <= End(s[k])
  BY <1>1 DEF Block, End
<1>5. CASE t = Splice(s, 1, 0, << b >>) /\ (s # << >> => b.addr < s[1].addr /\ ~ Touches(b, s[1]))
  <2>1. Between(s, 1, 0, b)
    <3> SUFFICES ASSUME NEW k \in 1 .. Len(s) PROVE End(b) < s[k].addr
      BY DEF Between
    <3>1. s # << >> /\ 1 \in 1 .. Len(s) /\ End(b) < s[1].addr
      BY <1>1, <1>2, <1>3, <1>4, <1>5 DEF Touches
    <3>2. k = 1 \/ End(s[1]) < s[k].addr
      BY <1>1, <3>1
    <3>. QED BY <1>4, <3>1, <3>2
  <2>2. MadeOf(s, b, 1, 0, b)
    BY MadeOfNone
  <2>3. 1 \in 1 .. Len(s) + 1 /\ 0 \in 1 - 1 .. Len(s)
    BY <1>1
  <2>. QED BY <1>1, <1>5, <2>1, <2>2, <2>3, PlaceInserts
<1>6. CASE s # << >> /\ Touches(b, s[1]) /\ t = Splice(s, 1, 1, << Merged(b, s[1]) >>)
  <2> DEFINE w == Merged(b, s[1])
  <2>0. 1 \in 1 .. Len(s) /\ s[1] \in Block /\ BlockOK(s[1])
    BY <1>1, <1>2, <1>6
  <2>1. BlockOK(w) /\ w.addr = b.addr /\ End(w) = End(s[1])
    BY <1>6, <2>0, MergedOK
  <2>2. MadeOf(s, b, 1, 1, w)
    BY <1>1, <1>6, <2>0, MadeOfRight
  <2> HIDE DEF w
  <2>3. Between(s, 1, 1, w)
    BY <1>1, <2>0, <2>1 DEF Between
  <2>4. 1 \in 1 .. Len(s) + 1 /\ 1 \in 1 - 1 .. Len(s) /\ w \in Block
    BY <1>1, <2>0, <2>1 DEF BlockOK
  <2>5. t = Splice(s, 1, 1, << w >>)
    BY <1>6 DEF w
  <2>. QED BY <1>1, <2>1, <2>2, <2>3, <2>4, <2>5, PlaceInserts
<1>. QED BY <1>5, <1>6 DEF InsertIntoEmpty, InsertBeforeHead

(* dealloc behind element p: the block is merged with the element after p, *)
(* with p itself, with both or with neither.                               *)
LEMMA BehindInserts ==
  ASSUME NEW s, NEW b, ListOK(s), BlockOK(b), ApartFrom(b, s),
         NEW p \in 1 .. Len(s), b.addr >= s[1].addr, IsPrev(s, b, p),
         NEW t, t = InsertAfter(s, b, p)
  PROVE  Inserted(s, b, t)
<1>1. /\ s \in Seq(Block) /\ Len(s) \in Nat /\ b \in Block
      /\ \A k \in 1 .. Len(s) :
           /\ s[k] \in Block
           /\ BlockOK(s[k])
           /\ b.addr < s[k].addr => End(b) <= s[k].addr
           /\ b.addr >= s[k].addr => End(s[k]) <= b.addr
      /\ \A k, m \in 1 .. Len(s) : k < m => End(s[k]) < s[m].addr
  BY PlaceFacts
<1>4. /\ b.addr \in Nat /\ End(b) \in Int /\ b.addr < End(b)
      /\ \A k \in 1 .. Len(s) :
           s[k].addr \in Nat /\ End(s[k]) \in Int /\ s[k].addr < End(s[k])
  BY <1>1, SMTT(20) DEF Block, End, BlockOK, HeaderOK, SizeOfFreeBlock
<1>5. p \in Nat /\ p \in 1 .. Len(s) + 1 /\ p \in p - 1 .. Len(s)
      /\ p + 1 \in 1 .. Len(s) + 1 /\ p \in (p + 1) - 1 .. Len(s)
      /\ (p < Len(s) => p + 1 \in 1 .. Len(s) /\ p + 1 \in p - 1 .. Len(s)
                        /\ p + 1 \in (p + 1) - 1 .. Len(s))
  BY <1>1
<1>6. End(s[p]) <= b.addr
  BY <1>1, <1>4, <1>5 DEF IsPrev
<1>7. p < Len(s) => End(b) <= s[p + 1].addr
  <2> SUFFICES ASSUME p < Len(s) PROVE End(b) <= s[p + 1].addr
    OBVIOUS
  <2>1. s[p + 1].addr >= b.addr /\ p + 1 \in 1 .. Len(s)
    BY <1>5 DEF IsPrev
  <2>. QED BY <1>1, <1>4, <2>1
<1>8. \A k \in 1 .. Len(s) : k < p => End(s[k]) < s[p].addr
  BY <1>1
<1>9. \A k \in 1 .. Len(s) : p + 1 < k => End(s[p + 1]) < s[k].addr
  BY <1>1, <1>5
<1>10. \A k \in 1 .. Len(s) : p + 1 < k => End(b) < s[k].addr
  BY <1>1, <1>4, <1>5, <1>7, <1>9, SMTT(20)
<1>11. CASE ~ Touches(s[p], b) /\ ~ MergeRight(s, b, p)
  <2>1. Between(s, p + 1, p, b)
    <3> SUFFICES ASSUME NEW k \in 1 .. Len(s)
                 PROVE  (k < p + 1 => End(s[k]) < b.addr) /\ (p < k => End(b) < s[k].addr)
      BY DEF Between
    <3>1. k < p + 1 => End(s[k]) < b.addr
      BY <1>1, <1>4, <1>5, <1>6, <1>8, <1>11 DEF Touches
    <3>2. p < k => End(b) < s[k].addr
      BY <1>1, <1>4, <1>5, <1>7, <1>10, <1>11 DEF Touches, MergeRight
    <3>. QED BY <3>1, <3>2
  <2>2. MadeOf(s, b, p + 1, p, b)
    BY <1>5, MadeOfNone
  <2>3. t = Splice(s, p + 1, p, << b >>)
    BY <1>11 DEF InsertAfter, WithRight, LastUnlinked
  <2>. QED BY <1>1, <1>5, <2>1, <2>2, <2>3, PlaceInserts
<1>12. CASE ~ Touches(s[p], b) /\ MergeRight(s, b, p)
  <2> DEFINE w == Merged(b, s[p + 1])
  <2>0. p < Len(s) /\ Touches(b, s[p + 1]) /\ s[p + 1] \in Block /\ BlockOK(s[p + 1])
    BY <1>1, <1>5, <1>12 DEF MergeRight
  <2>1. BlockOK(w) /\ w.addr = b.addr /\ End(w) = End(s[p + 1])
    BY <2>0, MergedOK
  <2>2. MadeOf(s, b, p + 1, p + 1, w)
    BY <1>1, <1>5, <2>0, MadeOfRight
  <2>3. t = Splice(s, p + 1, p + 1, << w >>)
    BY <1>12 DEF InsertAfter, WithRight, LastUnlinked
  <2> HIDE DEF w
  <2>4. Between(s, p + 1, p + 1, w)
    <3> SUFFICES ASSUME NEW k \in 1 .. Len(s)
                 PROVE  (k < p + 1 => End(s[k]) < w.addr) /\ (p + 1 < k => End(w) < s[k].addr)
      BY DEF Between
    <3>0. End(s[p]) < b.addr
      BY <1>4, <1>6, <1>12 DEF Touches
    <3>1. k < p + 1 => End(s[k]) < w.addr
      <4>1. k < p + 1 => k < p \/ k = p
        BY <1>5
      <4>2. ASSUME k < p
            PROVE  End(s[k]) < b.addr
        <5>1. End(s[k]) < s[p].addr /\ s[p].addr < End(s[p]) /\ End(s[k]) \in Int
              /\ s[p].addr \in Nat /\ End(s[p]) \in Int
          BY <1>1, <1>4, <1>8, <4>2
        <5>. QED BY <1>4, <3>0, <5>1
      <4>. QED BY <2>1, <3>0, <4>1, <4>2
    <3>. QED BY <1>9, <2>1, <3>1
  <2>5. w \in Block
    BY <2>1 DEF BlockOK
  <2>. QED BY <1>1, <1>5, <2>0, <2>1, <2>2, <2>3, <2>4, <2>5, PlaceInserts
<1>13. CASE Touches(s[p], b) /\ ~ MergeRight(s, b, p)
  <2> DEFINE w == Merged(s[p], b)
  <2>0. s[p] \in Block /\ BlockOK(s[p])
    BY <1>1, <1>5
  <2>1. BlockOK(w) /\ w.addr = s[p].addr /\ End(w) = End(b)
    BY <1>13, <2>0, MergedOK
  <2>2. MadeOf(s, b, p, p, w)
    BY <1>1, <1>5, <1>13, <2>0, MadeOfLeft
  <2>3. t = Splice(s, p, p, << w >>)
    BY <1>13 DEF InsertAfter, WithRight, LastUnlinked
  <2> HIDE DEF w
  <2>4. Between(s, p, p, w)
    <3> SUFFICES ASSUME NEW k \in 1 .. Len(s)
                 PROVE  (k < p => End(s[k]) < w.addr) /\ (p < k => End(w) < s[k].addr)
      BY DEF Between
    <3>1. p < k => End(w) < s[k].addr
      BY <1>1, <1>4, <1>5, <1>7, <1>10, <1>13, <2>1 DEF Touches, MergeRight
    <3>. QED BY <1>8, <2>1, <3>1
  <2>5. w \in Block
    BY <2>1 DEF BlockOK
  <2>. QED BY <1>1, <1>5, <2>1, <2>2, <2>3, <2>4, <2>5, PlaceInserts
<1>14. CASE Touches(s[p], b) /\ MergeRight(s, b, p)
  <2> DEFINE v == Merged(b, s[p + 1])
             w == Merged(s[p], v)
  <2>0. /\ p < Len(s) /\ Touches(b, s[p + 1])
        /\ s[p + 1] \in Block /\ BlockOK(s[p + 1]) /\ s[p] \in Block /\ BlockOK(s[p])
    BY <1>1, <1>5, <1>14 DEF MergeRight
  <2>1. BlockOK(v) /\ v.addr = b.addr /\ End(v) = End(s[p + 1])
    BY <2>0, MergedOK
  <2>2. MadeOf(s, b, p, p + 1, w)
    BY <1>1, <1>5, <1>14, <2>0, MadeOfBoth
  <2>3. t = Splice(s, p, p + 1, << w >>)
    BY <1>14 DEF InsertAfter, WithRight, LastUnlinked
  <2> HIDE DEF v
  <2>6. Touches(s[p], v)
    BY <1>14, <2>1 DEF Touches
  <2>7. BlockOK(w) /\ w.addr = s[p].addr /\ End(w) = End(s[p + 1])
    BY <2>0, <2>1, <2>6, MergedOK
  <2> HIDE DEF w
  <2>4. Between(s, p, p + 1, w)
    BY <1>8, <1>9, <2>7 DEF Between
  <2>5. w \in Block
    BY <2>7 DEF BlockOK
  <2>. QED BY <1>1, <1>5, <2>0, <2>2, <2>3, <2>4, <2>5, <2>7, PlaceInserts
<1>. QED BY <1>11, <1>12, <1>13, <1>14

------------------------------------------------------------------------------
(* Where alloc puts a request in a block that can take it.                 *)
LEMMA RequestAligned ==
  ASSUME NEW l \in Layouts
  PROVE  /\ l.size \in Nat \ {0} /\ l.align \in Nat \ {0}
         /\ RequestAlign(l) \in Nat \ {0}
         /\ RequestAlign(l) % 8 = 0
         /\ RequestAlign(l) % l.align = 0
<1>1. /\ l.size \in Nat \ {0} /\ l.align \in Nat \ {0}
      /\ l.align \in {1, 2, 4} \/ l.align % 8 = 0
  BY LayoutsAssumption DEF MinAlign
<1>2. CASE l.align \in {1, 2, 4}
  <2>1. RequestAlign(l) = 8
    BY <1>2 DEF RequestAlign, AtLeast, MinAlign
  <2>2. 8 % 8 = 0 /\ 8 % 1 = 0 /\ 8 % 2 = 0 /\ 8 % 4 = 0
    OBVIOUS
  <2>. QED BY <1>1, <1>2, <2>1, <2>2
<1>3. CASE l.align % 8 = 0
  <2>1. RequestAlign(l) = l.align
    BY <1>1, <1>3 DEF RequestAlign, AtLeast, MinAlign
  <2>2. l.align % l.align = 0
    BY <1>1
  <2>. QED BY <1>1, <1>3, <2>1, <2>2
<1>. QED BY <1>1, <1>2, <1>3

(* alloc rounds the size up to a positive multiple of 8. *)
LEMMA RequestSized ==
  ASSUME NEW l \in Layouts
  PROVE  /\ RequestSize(l) \in Nat
         /\ l.size <= RequestSize(l)
         /\ RequestSize(l) >= 8
         /\ RequestSize(l) % 8 = 0
<1>1. l.size \in Nat /\ l.size > 0 /\ 8 \in Nat \ {0} /\ 8 % 8 = 0
  BY RequestAligned
<1>2. /\ align_up(l.size, 8) \in Nat
      /\ l.size <= align_up(l.size, 8)
      /\ align_up(l.size, 8) < l.size + 8
  BY <1>1, AlignUpBounds
<1>3. align_up(l.size, 8) % 8 = 0
  BY <1>1, AlignUpAligned
<1>. QED BY <1>1, <1>2, <1>3 DEF RequestSize

(* can_allocate proposes an aligned address that leaves room for the
   metadata in front of it. *)
LEMMA RequestPlaced ==
  ASSUME NEW l \in Layouts, NEW b \in Block, NEW p, p = AllocAddr(b, RequestAlign(l))
  PROVE  /\ p \in Nat
         /\ b.addr + 16 <= p
         /\ p % 8 = 0
         /\ p % l.align = 0
<1>1. /\ RequestAlign(l) \in Nat \ {0} /\ l.align \in Nat \ {0} /\ 8 \in Nat \ {0}
      /\ RequestAlign(l) % 8 = 0 /\ RequestAlign(l) % l.align = 0
  BY RequestAligned
<1>2. b.addr + 16 \in Nat /\ p = align_up(b.addr + 16, RequestAlign(l))
  BY DEF Block, AllocAddr, SizeOfMetaData
<1>3. /\ align_up(b.addr + 16, RequestAlign(l)) \in Nat
      /\ b.addr + 16 <= align_up(b.addr + 16, RequestAlign(l))
      /\ align_up(b.addr + 16, RequestAlign(l)) < (b.addr + 16) + RequestAlign(l)
  BY <1>1, <1>2, AlignUpBounds
<1>4. align_up(b.addr + 16, RequestAlign(l)) % 8 = 0
  BY <1>1, <1>2, AlignUpAligned
<1>5. align_up(b.addr + 16, RequestAlign(l)) % l.align = 0
  BY <1>1, <1>2, AlignUpAligned
<1>. QED BY <1>2, <1>3, <1>4, <1>5

(* Sums and differences of multiples of 8. *)
LEMMA SumAligned ==
  ASSUME NEW x \in Nat, NEW y \in Nat, x % 8 = 0, y % 8 = 0
  PROVE  (x + y) % 8 = 0 /\ (x >= 16 => (x - 16) % 8 = 0)
  OBVIOUS

(* Block b is cut into the allocation e and the blocks of r that stay free. *)
Cuts(b, e, r) ==
  /\ ListOK(r)
  /\ BlockOK(e) /\ Within(e, b)
  /\ \A m \in 1 .. Len(r) : Within(r[m], b) /\ Apart(e, r[m])
  /\ \A x \in Int : InBlock(x, b) => \/ InBlock(x, e)
                                     \/ \E m \in 1 .. Len(r) : InBlock(x, r[m])

(* What lies in a block of the heap lies in the heap. *)
LEMMA WithinHeap ==
  ASSUME NEW b \in Block, NEW c, BlockOK(c), Within(b, c)
  PROVE  Within(b, HeapBlock)
<1>1. HeapBlock \in Block /\ c \in Block /\ Within(c, HeapBlock)
  BY HeapBlockOK DEF BlockOK
<1>. QED BY <1>1 DEF Within, End, Block

AllocExtent(b, p, n) ==
  [addr |-> AllocStart(b, p), size |-> AllocEnd(b, p, n) - AllocStart(b, p)]

(* alloc cuts a block into an allocation and at most two remainders
   that share no byte and miss none. *)
LEMMA AllocCuts ==
  ASSUME NEW b, BlockOK(b), NEW p \in Nat, NEW n \in Nat,
         b.addr + 16 <= p, p % 8 = 0, n % 8 = 0, n >= 8, p + n <= End(b)
  PROVE  /\ Cuts(b, AllocExtent(b, p, n), LeftBlock(b, p) \o RightBlock(b, p, n))
         /\ AllocStart(b, p) \in Nat /\ AllocEnd(b, p, n) \in Nat
         /\ AllocEnd(b, p, n) - AllocStart(b, p) \in Nat
         /\ AllocStart(b, p) + 16 <= p
         /\ p + n <= AllocEnd(b, p, n)
<1> DEFINE e == AllocExtent(b, p, n)
           L == [addr |-> b.addr, size |-> BytesLeft(b, p)]
           R == [addr |-> p + n, size |-> BytesRight(b, p, n)]
           hasL == BytesLeft(b, p) >= 24
           hasR == BytesRight(b, p, n) >= 24
           r == LeftBlock(b, p) \o RightBlock(b, p, n)
<1>1. /\ b \in Block /\ b.addr \in Nat /\ b.size \in Nat /\ b.addr % 8 = 0
      /\ End(b) = b.addr + b.size
  BY DEF BlockOK, HeaderOK, Block, MinAlign, End
<1>2. (p + n) % 8 = 0 /\ (p - 16) % 8 = 0
  BY <1>1, SumAligned
<1>3. /\ BytesLeft(b, p) \in Nat /\ BytesLeft(b, p) = p - 16 - b.addr
      /\ BytesRight(b, p, n) \in Nat /\ BytesRight(b, p, n) = End(b) - (p + n)
  BY <1>1 DEF BytesLeft, BytesRight, SizeOfMetaData
<1>4. /\ hasL => AllocStart(b, p) = p - 16
      /\ ~ hasL => AllocStart(b, p) = b.addr
      /\ hasR => AllocEnd(b, p, n) = p + n
      /\ ~ hasR => AllocEnd(b, p, n) = End(b)
  BY <1>1, <1>3 DEF AllocStart, AllocEnd, required_size, SizeOfFreeBlock
<1>5. /\ AllocStart(b, p) \in Nat /\ AllocStart(b, p) + 16 <= p
      /\ AllocStart(b, p) % 8 = 0 /\ b.addr <= AllocStart(b, p)
      /\ AllocEnd(b, p, n) \in Nat /\ p + n <= AllocEnd(b, p, n)
      /\ AllocEnd(b, p, n) <= End(b)
  <2>1. /\ p - 16 \in Nat /\ b.addr <= p - 16 /\ (p - 16) + 16 <= p
        /\ End(b) \in Nat /\ p + n \in Nat
    BY <1>1
  <2>2. AllocStart(b, p) = p - 16 \/ AllocStart(b, p) = b.addr
    BY <1>4
  <2>3. AllocEnd(b, p, n) = p + n \/ AllocEnd(b, p, n) = End(b)
    BY <1>4
  <2>4. /\ AllocStart(b, p) \in Nat /\ AllocStart(b, p) + 16 <= p
        /\ b.addr <= AllocStart(b, p)
    BY <1>1, <2>1, <2>2
  <2>5. AllocStart(b, p) % 8 = 0
    BY <1>1, <1>2, <2>2
  <2>6. AllocEnd(b, p, n) \in Nat /\ p + n <= AllocEnd(b, p, n) /\ AllocEnd(b, p, n) <= End(b)
    BY <1>1, <2>1, <2>3
  <2>. QED BY <2>4, <2>5, <2>6
<1>6. /\ e \in Block /\ HeaderOK(e)
      /\ e.addr = AllocStart(b, p) /\ End(e) = AllocEnd(b, p, n) /\ Within(e, b)
  BY <1>5 DEF AllocExtent, Block, HeaderOK, MinAlign, SizeOfFreeBlock, End, Within
<1>7. BlockOK(e)
  BY <1>6, WithinHeap DEF BlockOK
<1>8. hasL => /\ L \in Block /\ HeaderOK(L) /\ Within(L, b)
              /\ L.addr = b.addr /\ End(L) = p - 16
  BY <1>1, <1>3 DEF Block, HeaderOK, MinAlign, SizeOfFreeBlock, End, Within
<1>9. hasR => /\ R \in Block /\ HeaderOK(R) /\ Within(R, b)
              /\ R.addr = p + n /\ End(R) = End(b)
  BY <1>1, <1>2, <1>3 DEF Block, HeaderOK, MinAlign, SizeOfFreeBlock, End, Within
<1>10. /\ hasL => L \in Block /\ BlockOK(L)
       /\ hasR => R \in Block /\ BlockOK(R)
  BY <1>8, <1>9, WithinHeap DEF BlockOK
<1>11. /\ hasL => Apart(e, L)
       /\ hasR => Apart(e, R)
  BY <1>1, <1>3, <1>4, <1>5, <1>6, <1>8, <1>9, SMTT(20) DEF Apart
<1>12. /\ LeftBlock(b, p) = IF hasL THEN << L >> ELSE << >>
       /\ RightBlock(b, p, n) = IF hasR THEN << R >> ELSE << >>
  BY DEF LeftBlock, RightBlock, required_size, SizeOfFreeBlock
<1>13. \A x \in Int : InBlock(x, b) => \/ InBlock(x, e)
                                       \/ hasL /\ InBlock(x, L)
                                       \/ hasR /\ InBlock(x, R)
  BY <1>1, <1>3, <1>4, <1>5, <1>6, <1>8, <1>9 DEF InBlock
<1> HIDE DEF e, L, R, hasL, hasR
<1>14. Cuts(b, e, r)
  <2>1. CASE ~ hasL /\ ~ hasR
    <3>1. r = << >>
      BY <1>12, <2>1
    <3>2. ListOK(<< >>)
      BY DEF ListOK, Sorted
    <3>. QED BY <1>6, <1>7, <1>13, <2>1, <3>1, <3>2 DEF Cuts
  <2>2. CASE hasL /\ ~ hasR
    <3>1. r = << L >>
      BY <1>10, <1>12, <2>2
    <3>2. r \in Seq(Block) /\ Len(r) = 1 /\ r[1] = L /\ Sorted(r)
      BY <1>10, <2>2, <3>1, OneBlock
    <3> HIDE DEF r
    <3>3. ListOK(r)
      BY <1>10, <2>2, <3>2 DEF ListOK
    <3>. QED BY <1>6, <1>7, <1>8, <1>11, <1>13, <2>2, <3>2, <3>3, SMTT(20) DEF Cuts
  <2>3. CASE ~ hasL /\ hasR
    <3>1. r = << R >>
      BY <1>10, <1>12, <2>3
    <3>2. r \in Seq(Block) /\ Len(r) = 1 /\ r[1] = R /\ Sorted(r)
      BY <1>10, <2>3, <3>1, OneBlock
    <3> HIDE DEF r
    <3>3. ListOK(r)
      BY <1>10, <2>3, <3>2 DEF ListOK
    <3>. QED BY <1>6, <1>7, <1>9, <1>11, <1>13, <2>3, <3>2, <3>3, SMTT(20) DEF Cuts
  <2>4. CASE hasL /\ hasR
    <3>1. r = Pair(L, R)
      BY <1>12, <2>4 DEF Pair
    <3>2. End(L) < R.addr
      BY <1>8, <1>9, <2>4
    <3> HIDE DEF r
    <3>9. L \in Block /\ R \in Block
      BY <1>10, <2>4
    <3>3. /\ r \in Seq(Block) /\ Len(r) = 2
          /\ r[1] = L /\ r[2] = R
          /\ Sorted(r)
      BY <3>1, <3>2, <3>9, TwoBlocks
    <3>4. \A m \in 1 .. Len(r) : m = 1 \/ m = 2
      BY <3>3
    <3>5. 1 \in 1 .. Len(r) /\ 2 \in 1 .. Len(r)
      BY <3>3
    <3>6. ListOK(r)
      BY <1>10, <2>4, <3>3, <3>4 DEF ListOK
    <3>7. \A m \in 1 .. Len(r) : Within(r[m], b) /\ Apart(e, r[m])
      BY <1>8, <1>9, <1>11, <2>4, <3>3, <3>4
    <3>8. \A x \in Int : InBlock(x, b) => \/ InBlock(x, e)
                                          \/ \E m \in 1 .. Len(r) : InBlock(x, r[m])
      BY <1>13, <3>3, <3>5
    <3>. QED BY <1>6, <1>7, <3>6, <3>7, <3>8 DEF Cuts
  <2>. QED BY <2>1, <2>2, <2>3, <2>4
<1>. QED BY <1>5, <1>14 DEF e

(* What taking the memory of e out of list s must leave in list t.         *)
TakenOut(s, e, t) ==
  /\ ListOK(t)
  /\ BlockOK(e)
  /\ ApartFrom(e, t)
  /\ \A c \in Block : c.size > 0 /\ ApartFrom(c, s) => ApartFrom(c, t) /\ Apart(c, e)
  /\ \A x \in Int : (\E k \in 1 .. Len(s) : InBlock(x, s[k]))
                      => InBlock(x, e) \/ \E k \in 1 .. Len(t) : InBlock(x, t[k])

(* What is apart from a block is apart from its parts. *)
LEMMA ApartFromParts ==
  ASSUME NEW b \in Block, NEW c \in Block, NEW w \in Block, Within(w, b), Apart(c, b)
  PROVE  Apart(c, w) /\ Apart(w, c)
  BY DEF Within, Apart, End, Block

(* alloc relinking the remainders takes the allocation off the list. *)
LEMMA SpliceTakesOut ==
  ASSUME NEW s \in Seq(Block), NEW r \in Seq(Block), NEW e,
         NEW i \in 1 .. Len(s), NEW t, t = Splice(s, i, i, r)
  PROVE  ListOK(s) /\ Cuts(s[i], e, r) => TakenOut(s, e, t)
<1>1. Len(s) \in Nat /\ Len(r) \in Nat /\ i \in 1 .. Len(s) + 1 /\ i \in i - 1 .. Len(s)
  BY LenProperties
<1>2. SpliceParts(s, i, i, r, t)
  BY <1>1, SpliceMembers
<1>3. Sorted(s) /\ Sorted(r) /\ FitsBetween(s, i, i, r) => Sorted(t)
  BY <1>1, SpliceSorted
<1>4. SUFFICES ASSUME ListOK(s), Cuts(s[i], e, r)
               PROVE  TakenOut(s, e, t)
  OBVIOUS
<1>5. t \in Seq(Block) /\ Len(t) \in Nat
  BY <1>2, LenProperties DEF SpliceParts
<1>6. /\ \A k \in 1 .. Len(s) : s[k] \in Block /\ BlockOK(s[k])
      /\ \A k, m \in 1 .. Len(s) : k < m => End(s[k]) < s[m].addr
      /\ \A m \in 1 .. Len(r) : r[m] \in Block /\ BlockOK(r[m]) /\ Within(r[m], s[i]) /\ Apart(e, r[m])
      /\ e \in Block /\ BlockOK(e) /\ Within(e, s[i])
  BY <1>4 DEF ListOK, Sorted, Cuts, BlockOK
<1>7. FitsBetween(s, i, i, r)
  <2> SUFFICES ASSUME NEW k \in 1 .. Len(s), NEW m \in 1 .. Len(r)
               PROVE  /\ k < i => End(s[k]) < r[m].addr
                      /\ i < k => End(r[m]) < s[k].addr
    BY DEF FitsBetween
  <2>1. /\ s[i].addr <= r[m].addr /\ End(r[m]) <= End(s[i])
        /\ s[i] \in Block /\ r[m] \in Block /\ s[k] \in Block
    BY <1>6 DEF Within
  <2>2. /\ s[i].addr \in Int /\ r[m].addr \in Int /\ s[k].addr \in Int
        /\ End(s[i]) \in Int /\ End(r[m]) \in Int /\ End(s[k]) \in Int
    BY <2>1, BlockInts
  <2>3. (k < i => End(s[k]) < s[i].addr) /\ (i < k => End(s[i]) < s[k].addr)
    BY <1>6
  <2>. QED BY <2>1, <2>2, <2>3
<1>8. ASSUME NEW k \in 1 .. Len(t)
      PROVE  \/ \E m \in 1 .. Len(s) : m # i /\ t[k] = s[m]
             \/ \E m \in 1 .. Len(r) : t[k] = r[m]
  <2>1. \/ \E m \in 1 .. Len(s) : (m < i \/ i < m) /\ t[k] = s[m]
        \/ \E m \in 1 .. Len(r) : t[k] = r[m]
    BY <1>2 DEF SpliceParts
  <2>2. \A m \in 1 .. Len(s) : m < i \/ i < m => m # i
    BY <1>1
  <2>. QED BY <2>1, <2>2
<1>9. ListOK(t)
  <2>1. Sorted(t)
    BY <1>3, <1>4, <1>7 DEF ListOK, Cuts
  <2>2. \A k \in 1 .. Len(t) : BlockOK(t[k])
    BY <1>6, <1>8
  <2>. QED BY <1>5, <2>1, <2>2 DEF ListOK
<1>10. \A m \in 1 .. Len(s) : m # i => Apart(s[m], s[i])
  <2> SUFFICES ASSUME NEW m \in 1 .. Len(s), m # i
               PROVE  Apart(s[m], s[i])
    OBVIOUS
  <2>1. s[m].addr \in Int /\ s[i].addr \in Int /\ End(s[m]) \in Int /\ End(s[i]) \in Int
    BY <1>6, BlockInts
  <2>2. m < i \/ i < m
    OBVIOUS
  <2>. QED BY <1>6, <2>1, <2>2 DEF Apart
<1>11. ApartFrom(e, t)
  <2> SUFFICES ASSUME NEW k \in 1 .. Len(t) PROVE Apart(e, t[k])
    BY DEF ApartFrom
  <2>1. CASE \E m \in 1 .. Len(s) : m # i /\ t[k] = s[m]
    BY <1>6, <1>10, <2>1, ApartFromParts
  <2>2. CASE \E m \in 1 .. Len(r) : t[k] = r[m]
    BY <1>6, <2>2
  <2>. QED BY <1>8, <2>1, <2>2
<1>12. ASSUME NEW c \in Block, ApartFrom(c, s)
       PROVE  ApartFrom(c, t) /\ Apart(c, e)
  <2>1. Apart(c, e)
    BY <1>6, <1>12, ApartFromParts DEF ApartFrom
  <2>2. \A m \in 1 .. Len(r) : Apart(c, r[m])
    BY <1>6, <1>12, ApartFromParts DEF ApartFrom
  <2>3. \A m \in 1 .. Len(s) : Apart(c, s[m])
    BY <1>12 DEF ApartFrom
  <2>4. \A k \in 1 .. Len(t) : Apart(c, t[k])
    BY <1>8, <2>2, <2>3
  <2>. QED BY <2>1, <2>4 DEF ApartFrom
<1>13. ASSUME NEW x \in Int, NEW m \in 1 .. Len(s), InBlock(x, s[m])
       PROVE  InBlock(x, e) \/ \E k \in 1 .. Len(t) : InBlock(x, t[k])
  <2>1. CASE m = i
    <3>1. InBlock(x, e) \/ \E n \in 1 .. Len(r) : InBlock(x, r[n])
      BY <1>4, <1>13, <2>1 DEF Cuts
    <3>2. \A n \in 1 .. Len(r) : \E k \in 1 .. Len(t) : t[k] = r[n]
      BY <1>2 DEF SpliceParts
    <3>. QED BY <3>1, <3>2
  <2>2. CASE m # i
    <3>1. \E k \in 1 .. Len(t) : t[k] = s[m]
      BY <1>1, <1>2, <2>2 DEF SpliceParts
    <3>. QED BY <1>13, <3>1
  <2>. QED BY <2>1, <2>2
<1>. QED BY <1>6, <1>9, <1>11, <1>12, <1>13 DEF TakenOut
------------------------------------------------------------------------------
LiveOK == \A a \in live : /\ a \in Allocation
                          /\ BlockOK(Extent(a))
                          /\ ApartFrom(Extent(a), free)

LiveApart == \A a, c \in live : a # c => Apart(Extent(a), Extent(c))

Covered ==
  \A x \in Int : InBlock(x, HeapBlock) => \/ \E k \in 1 .. Len(free) : InBlock(x, free[k])
                                          \/ \E a \in live : InBlock(x, Extent(a))

(* The inductive invariant.                                                *)
HeapOK == ListOK(free) /\ LiveOK /\ LiveApart /\ Covered /\ PayloadFits

(* init leaves a consistent heap. *)
LEMMA InitOK == Init => HeapOK
<1> SUFFICES ASSUME Init PROVE HeapOK
  OBVIOUS
<1> DEFINE r == << HeapBlock >>
<1>1. HeapBlock \in Block /\ HeaderOK(HeapBlock)
  BY HeapBlockOK
<1>2. BlockOK(HeapBlock)
  BY <1>1 DEF BlockOK, Within, Block, End
<1>3. r \in Seq(Block) /\ Len(r) = 1 /\ r[1] = HeapBlock /\ Sorted(r)
  BY <1>1, OneBlock
<1>4. free = r /\ live = {}
  BY DEF Init
<1> HIDE DEF r
<1>5. ListOK(r)
  BY <1>2, <1>3 DEF ListOK
<1>6. Covered
  <2>1. 1 \in 1 .. Len(r)
    BY <1>3
  <2>2. \A x \in Int : InBlock(x, HeapBlock) => \E k \in 1 .. Len(r) : InBlock(x, r[k])
    BY <1>3, <2>1
  <2>. QED BY <1>4, <2>2 DEF Covered
<1>. QED BY <1>4, <1>5, <1>6 DEF HeapOK, LiveOK, LiveApart, PayloadFits

(* The step of alloc that finds a block: the list gives up the memory of   *)
(* one new allocation, which is what its metadata says.                    *)
LEMMA AllocPreserves ==
  ASSUME HeapOK, NEW l \in Layouts, Alloc(l)
  PROVE  HeapOK'
<1>1. PICK i \in 1 .. Len(free) :
        /\ Fits(l, i)
        /\ LET b == free[i]
               p == AllocAddr(b, RequestAlign(l))
               n == RequestSize(l)
           IN  /\ free' = Splice(free, i, i, LeftBlock(b, p) \o RightBlock(b, p, n))
               /\ live' = live \cup
                    {[ptr |-> p, size |-> l.size, align |-> l.align,
                      start_addr |-> AllocStart(b, p),
                      len |-> AllocEnd(b, p, n) - AllocStart(b, p)]}
  BY DEF Alloc
<1> DEFINE b == free[i]
           p == AllocAddr(b, RequestAlign(l))
           n == RequestSize(l)
           r == LeftBlock(b, p) \o RightBlock(b, p, n)
           e == AllocExtent(b, p, n)
           a == [ptr |-> p, size |-> l.size, align |-> l.align,
                 start_addr |-> AllocStart(b, p),
                 len |-> AllocEnd(b, p, n) - AllocStart(b, p)]
<1>2. ListOK(free) /\ LiveOK /\ LiveApart /\ Covered /\ PayloadFits
  BY DEF HeapOK
<1>3. free \in Seq(Block) /\ BlockOK(b) /\ b \in Block
  BY <1>2 DEF ListOK, BlockOK
<1>4. free' = Splice(free, i, i, r) /\ live' = live \cup {a}
  BY <1>1
<1>5. p + n <= End(b)
  <2>1. End(b) >= p + n
    BY <1>1 DEF Fits, can_allocate
  <2>2. p \in Nat
    BY <1>3, RequestPlaced
  <2>3. n \in Nat /\ End(b) \in Int
    BY <1>3, RequestSized, BlockInts
  <2>. QED BY <2>1, <2>2, <2>3
<1> HIDE DEF b, p
<1>6. p \in Nat /\ b.addr + 16 <= p /\ p % 8 = 0 /\ p % l.align = 0
  BY <1>3, RequestPlaced DEF p
<1>7. n \in Nat /\ l.size <= n /\ n >= 8 /\ n % 8 = 0 /\ l.size \in Nat /\ l.align \in Nat
  BY RequestSized, RequestAligned
<1> HIDE DEF n
<1>8. /\ Cuts(b, e, r)
      /\ AllocStart(b, p) \in Nat /\ AllocEnd(b, p, n) \in Nat
      /\ AllocEnd(b, p, n) - AllocStart(b, p) \in Nat
      /\ AllocStart(b, p) + 16 <= p
      /\ p + n <= AllocEnd(b, p, n)
  BY <1>3, <1>5, <1>6, <1>7, AllocCuts
<1>9. /\ a \in Allocation /\ Extent(a) = e
      /\ a.ptr = p /\ a.size = l.size /\ a.align = l.align
      /\ a.start_addr = AllocStart(b, p)
      /\ a.len = AllocEnd(b, p, n) - AllocStart(b, p)
  BY <1>6, <1>7, <1>8 DEF Allocation, Extent, AllocExtent
<1> HIDE DEF a, e, r
<1>10. TakenOut(free, e, free')
  <2>1. r \in Seq(Block)
    BY <1>8 DEF Cuts, ListOK
  <2>2. ListOK(free) /\ Cuts(free[i], e, r) => TakenOut(free, e, free')
    BY <1>3, <1>4, <2>1, SpliceTakesOut
  <2>. QED BY <1>2, <1>8, <2>2 DEF b
<1>11. ListOK(free') /\ BlockOK(e) /\ ApartFrom(e, free')
  BY <1>10 DEF TakenOut
<1>12. ASSUME NEW c \in live
       PROVE  /\ c \in Allocation /\ BlockOK(Extent(c))
              /\ ApartFrom(Extent(c), free') /\ Apart(Extent(c), e) /\ Apart(e, Extent(c))
  <2>1. c \in Allocation /\ BlockOK(Extent(c)) /\ ApartFrom(Extent(c), free)
    BY <1>2 DEF LiveOK
  <2>2. Extent(c) \in Block /\ Extent(c).size > 0
    BY <2>1 DEF BlockOK, HeaderOK, Block, SizeOfFreeBlock
  <2>3. ApartFrom(Extent(c), free') /\ Apart(Extent(c), e)
    BY <1>10, <2>1, <2>2 DEF TakenOut
  <2>4. Apart(e, Extent(c))
    BY <2>3 DEF Apart
  <2>. QED BY <2>1, <2>3, <2>4
<1>13. LiveOK'
  BY <1>4, <1>9, <1>11, <1>12 DEF LiveOK
<1>14. LiveApart'
  BY <1>2, <1>4, <1>9, <1>12 DEF LiveApart
<1>15. Covered'
  <2> SUFFICES ASSUME NEW x \in Int, InBlock(x, HeapBlock)
               PROVE  \/ \E k \in 1 .. Len(free') : InBlock(x, free'[k])
                      \/ \E c \in live' : InBlock(x, Extent(c))
    BY DEF Covered
  <2>1. CASE \E k \in 1 .. Len(free) : InBlock(x, free[k])
    <3>1. InBlock(x, e) \/ \E k \in 1 .. Len(free') : InBlock(x, free'[k])
      BY <1>10, <2>1 DEF TakenOut
    <3>. QED BY <1>4, <1>9, <3>1
  <2>2. CASE \E c \in live : InBlock(x, Extent(c))
    BY <1>4, <2>2
  <2>. QED BY <1>2, <2>1, <2>2 DEF Covered
<1>16. PayloadFits'
  <2> SUFFICES ASSUME NEW c \in live'
               PROVE  /\ c.ptr % c.align = 0
                      /\ c.start_addr + SizeOfMetaData <= c.ptr
                      /\ c.ptr + c.size <= c.start_addr + c.len
    BY DEF PayloadFits
  <2>1. CASE c \in live
    BY <1>2, <2>1 DEF PayloadFits
  <2>2. CASE c = a
    <3>0. AllocStart(b, p) + (AllocEnd(b, p, n) - AllocStart(b, p)) = AllocEnd(b, p, n)
      <4>1. \A x, y \in Nat : x + (y - x) = y
        OBVIOUS
      <4>. QED BY <1>8, <4>1
    <3>1. a.start_addr + a.len = AllocEnd(b, p, n)
      <4>1. a.start_addr = AllocStart(b, p)
        BY <1>9
      <4>2. a.len = AllocEnd(b, p, n) - AllocStart(b, p)
        BY <1>9
      <4>. QED BY <3>0, <4>1, <4>2, Zenon
    <3>2. p + l.size <= AllocEnd(b, p, n)
      <4>1. \A x, y, z, w \in Nat : y <= z /\ x + z <= w => x + y <= w
        OBVIOUS
      <4>. QED BY <1>6, <1>7, <1>8, <4>1
    <3>3. a.ptr % a.align = 0
      BY <1>6, <1>9
    <3>4. a.start_addr + SizeOfMetaData <= a.ptr
      BY <1>8, <1>9 DEF SizeOfMetaData
    <3>5. a.ptr + a.size <= a.start_addr + a.len
      BY <1>9, <3>1, <3>2
    <3>. QED BY <2>2, <3>3, <3>4, <3>5
  <2>. QED BY <1>4, <2>1, <2>2
<1>. QED BY <1>11, <1>13, <1>14, <1>15, <1>16 DEF HeapOK

(* dealloc puts the memory of the allocation back on the list, in all the  *)
(* positions its walk can stop at.                                         *)
LEMMA DeallocPreserves ==
  ASSUME HeapOK, NEW a \in live, Dealloc(a)
  PROVE  HeapOK'
<1> DEFINE b == Extent(a)
<1>1. ListOK(free) /\ LiveOK /\ LiveApart /\ Covered /\ PayloadFits
  BY DEF HeapOK
<1>2. BlockOK(b) /\ ApartFrom(b, free) /\ live' = live \ {a}
  BY <1>1 DEF LiveOK, Dealloc
<1>3. Inserted(free, b, free')
  <2>1. \/ free = << >> /\ free' = InsertIntoEmpty(free, b)
        \/ free # << >> /\ b.addr < free[1].addr /\ free' = InsertBeforeHead(free, b)
        \/ /\ free # << >> /\ b.addr >= free[1].addr
           /\ \E p \in 1 .. Len(free) :
                IsPrev(free, b, p) /\ free' = InsertAfter(free, b, p)
    BY DEF Dealloc
  <2> HIDE DEF b
  <2>2. CASE \/ free = << >> /\ free' = InsertIntoEmpty(free, b)
             \/ free # << >> /\ b.addr < free[1].addr /\ free' = InsertBeforeHead(free, b)
    BY <1>1, <1>2, <2>2, FrontInserts
  <2>3. CASE /\ free # << >> /\ b.addr >= free[1].addr
             /\ \E p \in 1 .. Len(free) :
                  IsPrev(free, b, p) /\ free' = InsertAfter(free, b, p)
    BY <1>1, <1>2, <2>3, BehindInserts
  <2>. QED BY <2>1, <2>2, <2>3
<1>4. ListOK(free')
  BY <1>3 DEF Inserted
<1>5. ASSUME NEW c \in live'
      PROVE  c \in Allocation /\ BlockOK(Extent(c)) /\ ApartFrom(Extent(c), free')
  <2>1. /\ c \in live /\ c # a /\ c \in Allocation
        /\ BlockOK(Extent(c)) /\ ApartFrom(Extent(c), free)
    BY <1>1, <1>2 DEF LiveOK
  <2>2. Extent(c) \in Block /\ Extent(c).size > 0
    BY <2>1 DEF BlockOK, HeaderOK, Block, SizeOfFreeBlock
  <2>3. Apart(Extent(c), b)
    BY <1>1, <2>1 DEF LiveApart
  <2> HIDE DEF b
  <2>4. ApartFrom(Extent(c), free')
    BY <1>3, <2>1, <2>2, <2>3 DEF Inserted, ApartFrom
  <2>. QED BY <2>1, <2>4
<1>6. LiveOK' /\ LiveApart' /\ PayloadFits'
  BY <1>1, <1>2, <1>5 DEF LiveOK, LiveApart, PayloadFits
<1>7. Covered'
  <2> SUFFICES ASSUME NEW x \in Int, InBlock(x, HeapBlock)
               PROVE  \/ \E k \in 1 .. Len(free') : InBlock(x, free'[k])
                      \/ \E c \in live' : InBlock(x, Extent(c))
    BY DEF Covered
  <2>1. CASE InBlock(x, b) \/ \E k \in 1 .. Len(free) : InBlock(x, free[k])
    BY <1>3, <2>1 DEF Inserted
  <2>2. CASE \E c \in live : c # a /\ InBlock(x, Extent(c))
    BY <1>2, <2>2
  <2>. QED BY <1>1, <2>1, <2>2 DEF Covered
<1>. QED BY <1>4, <1>6, <1>7 DEF HeapOK

(* Every step of the allocator keeps the heap consistent.                  *)
THEOREM HeapConsistent == Spec => []HeapOK
<1>1. HeapOK /\ [Next]_vars => HeapOK'
  <2> SUFFICES ASSUME HeapOK, [Next]_vars PROVE HeapOK'
    OBVIOUS
  <2>1. ASSUME NEW l \in Layouts, Alloc(l) PROVE HeapOK'
    BY <2>1, AllocPreserves
  <2>2. ASSUME NEW a \in live, Dealloc(a) PROVE HeapOK'
    BY <2>2, DeallocPreserves
  <2>3. CASE UNCHANGED vars
    BY <2>3 DEF vars, HeapOK, LiveOK, LiveApart, Covered, PayloadFits
  <2>4. ASSUME NEW l \in Layouts, AllocOutOfMemory(l) PROVE HeapOK'
    BY <2>3, <2>4 DEF AllocOutOfMemory
  <2>. QED BY <2>1, <2>2, <2>3, <2>4 DEF Next
<1>. QED BY InitOK, <1>1, PTL DEF Spec

(* What a consistent heap means to the callers of alloc and dealloc. *)
LEMMA HeapOKImplies ==
  ASSUME HeapOK
  PROVE  TypeOK /\ SortedAndCoalesced /\ NoOverlap /\ HeapIsTiled /\ HeadersFit /\ PayloadFits
<1>1. ListOK(free) /\ LiveOK /\ LiveApart /\ Covered /\ PayloadFits
  BY DEF HeapOK
<1>2. TypeOK
  BY <1>1 DEF TypeOK, ListOK, LiveOK
<1>3. SortedAndCoalesced
  BY <1>1 DEF SortedAndCoalesced, ListOK, Sorted
<1>4. NoOverlap
  BY <1>1 DEF NoOverlap, LiveOK, LiveApart, ApartFrom
<1>5. HeapIsTiled
  <2>1. HeapBlock.addr \in Int /\ End(HeapBlock) \in Int
    BY HeapBlockOK, BlockInts
  <2>2. \A x \in HeapBlock.addr .. End(HeapBlock) - 1 : x \in Int /\ InBlock(x, HeapBlock)
    BY <2>1 DEF InBlock
  <2>3. \A x \in HeapBlock.addr .. End(HeapBlock) - 1 :
          \/ \E i \in 1 .. Len(free) : InBlock(x, free[i])
          \/ \E a \in live : InBlock(x, Extent(a))
    BY <1>1, <2>2 DEF Covered
  <2>. QED BY <1>1, <2>3 DEF HeapIsTiled, ListOK, LiveOK, BlockOK
<1>6. HeadersFit
  <2>1. \A i \in 1 .. Len(free) : HeaderOK(free[i])
    BY <1>1 DEF ListOK, BlockOK
  <2>2. \A a \in live : HeaderOK(Extent(a))
    BY <1>1 DEF LiveOK, BlockOK
  <2>3. \A a \in live : a.start_addr % MinAlign = 0 /\ a.len >= SizeOfFreeBlock
    BY <2>2 DEF HeaderOK, Extent
  <2>. QED BY <2>1, <2>3 DEF HeadersFit, HeaderOK
<1>. QED BY <1>1, <1>2, <1>3, <1>4, <1>5, <1>6

(* A consistent heap with no live allocation is what init left. *)
LEMMA HeapOKIdle ==
  ASSUME HeapOK
  PROVE  IdleHeapIsWhole
<1> SUFFICES ASSUME live = {} PROVE free = << HeapBlock >>
  BY DEF IdleHeapIsWhole
<1> DEFINE h == HeapBlock
<1>1. ListOK(free) /\ Covered
  BY DEF HeapOK
<1>2. free \in Seq(Block) /\ Len(free) \in Nat
  BY <1>1, LenProperties DEF ListOK
<1>3. /\ \A k \in 1 .. Len(free) :
           /\ free[k] \in Block /\ BlockOK(free[k]) /\ Within(free[k], h)
           /\ free[k].addr \in Int /\ End(free[k]) \in Int
      /\ \A k, m \in 1 .. Len(free) : k < m => End(free[k]) < free[m].addr
  BY <1>1, BlockInts DEF ListOK, Sorted, BlockOK
<1>4. h \in Block /\ h.addr \in Int /\ End(h) \in Int /\ h.addr < End(h)
  <2>1. h \in Block /\ h.size >= 24
    BY HeapBlockOK DEF HeaderOK, SizeOfFreeBlock
  <2>. QED BY <2>1 DEF Block, End
<1> HIDE DEF h
<1>5. \A x \in Int : h.addr <= x /\ x < End(h) => \E k \in 1 .. Len(free) : InBlock(x, free[k])
  BY <1>1 DEF Covered, InBlock, h
<1>6. 1 \in 1 .. Len(free)
  BY <1>2, <1>4, <1>5
<1>7. h.addr <= free[1].addr /\ End(free[1]) <= End(h)
  BY <1>3, <1>6 DEF Within
<1>8. \A k \in 1 .. Len(free) : k = 1 \/ End(free[1]) < free[k].addr
  <2> SUFFICES ASSUME NEW k \in 1 .. Len(free), k # 1 PROVE End(free[1]) < free[k].addr
    OBVIOUS
  <2>1. 1 < k
    BY <1>2
  <2>. QED BY <1>3, <1>6, <2>1
<1>9. free[1].addr < End(free[1])
  <2>1. free[1] \in Block /\ free[1].size >= 24
    BY <1>3, <1>6 DEF BlockOK, HeaderOK, SizeOfFreeBlock
  <2>. QED BY <2>1 DEF Block, End
<1>10. free[1].addr = h.addr
  <2>1. PICK k \in 1 .. Len(free) : InBlock(h.addr, free[k])
    BY <1>4, <1>5
  <2>2. free[k].addr <= h.addr
    BY <2>1 DEF InBlock
  <2>3. k = 1
    <3>1. k # 1 => End(free[1]) < free[k].addr
      BY <1>8
    <3>2. /\ free[k].addr \in Int /\ h.addr \in Int /\ free[1].addr \in Int
          /\ End(free[1]) \in Int
      BY <1>3, <1>4, <1>6
    <3>. QED BY <1>7, <1>9, <2>2, <3>1, <3>2
  <2>. QED BY <1>3, <1>4, <1>6, <1>7, <2>2, <2>3
<1>11. End(free[1]) = End(h)
  <2> SUFFICES ASSUME End(free[1]) < End(h) PROVE FALSE
    BY <1>3, <1>4, <1>6, <1>7
  <2>1. PICK k \in 1 .. Len(free) : InBlock(End(free[1]), free[k])
    BY <1>3, <1>4, <1>5, <1>6, <1>9, <1>10
  <2>2. free[k].addr <= End(free[1]) /\ End(free[1]) < End(free[k])
    BY <2>1 DEF InBlock
  <2>. QED BY <1>3, <1>6, <1>8, <2>2
<1>12. Len(free) = 1
  <2> SUFFICES ASSUME Len(free) # 1 PROVE FALSE
    OBVIOUS
  <2>0. \A n \in Nat : 1 \in 1 .. n /\ n # 1 => 2 \in 1 .. n
    OBVIOUS
  <2>1. 2 \in 1 .. Len(free)
    BY <1>2, <1>6, <2>0
  <2>2. End(free[1]) < free[2].addr /\ free[2].addr <= End(free[2]) /\ End(free[2]) <= End(h)
    <3>1. free[2] \in Block
      BY <1>3, <2>1
    <3>2. free[2].addr <= End(free[2])
      BY <3>1 DEF Block, End
    <3>. QED BY <1>3, <1>8, <2>1, <3>2 DEF Within
  <2>. QED BY <1>3, <1>4, <1>6, <1>11, <2>1, <2>2
<1>13. free[1] = h
  <2>1. free[1] \in Block
    BY <1>3, <1>6
  <2>. QED BY <1>4, <1>10, <1>11, <2>1 DEF Block, End
<1>14. free = << free[1] >>
  BY <1>2, <1>12
<1>. QED BY <1>13, <1>14 DEF h

-------------------------------------------------------------------------------
(* Counting bytes: the lengths that used() and free() add up are the sizes *)
(* of disjoint sets of addresses, whose union is the heap.                 *)
BytesIn(b) == b.addr .. End(b) - 1
BytesOf(s, n) == UNION {BytesIn(s[k]) : k \in 1 .. n}
OwnedBy(S) == UNION {BytesIn(Extent(a)) : a \in S}

LEMMA Smallest ==
  ASSUME NEW T \in SUBSET Nat, T # {}
  PROVE  \E x \in T : \A y \in T : x <= y
<1>1. PICK x \in T : \A y \in T : ~ (<<y, x>> \in OpToRel(<, Nat))
  BY NatLessThanWellFounded, WFMin
<1>2. \A y \in T : ~ (y < x)
  BY <1>1 DEF OpToRel
<1>. QED BY <1>2

LEMMA BytesInCount ==
  ASSUME NEW b \in Block
  PROVE  IsFiniteSet(BytesIn(b)) /\ Cardinality(BytesIn(b)) = b.size
<1>1. b.addr \in Int /\ End(b) - 1 \in Int /\ b.size \in Nat /\ End(b) = b.addr + b.size
  BY DEF Block, End
<1>2. /\ IsFiniteSet(b.addr .. End(b) - 1)
      /\ Cardinality(b.addr .. End(b) - 1) =
           IF b.addr > End(b) - 1 THEN 0 ELSE End(b) - 1 - b.addr + 1
  BY <1>1, FS_Interval
<1>. QED BY <1>1, <1>2 DEF BytesIn

LEMMA WithinHeapBytes ==
  ASSUME NEW b \in Block, Within(b, HeapBlock)
  PROVE  BytesIn(b) \subseteq BytesIn(HeapBlock)
BY BlockInts, HeapBlockOK DEF Within, BytesIn

LEMMA ApartBytes ==
  ASSUME NEW b \in Block, NEW c \in Block, Apart(b, c)
  PROVE  BytesIn(b) \cap BytesIn(c) = {}
BY BlockInts DEF Apart, BytesIn

(* A set of heap bytes grows by those of a block apart from it.            *)
LEMMA CountDisjoint ==
  ASSUME NEW S, IsFiniteSet(S), NEW b \in Block, S \cap BytesIn(b) = {}
  PROVE  Cardinality(S \cup BytesIn(b)) = Cardinality(S) + b.size
<1>1. IsFiniteSet(BytesIn(b)) /\ Cardinality(BytesIn(b)) = b.size
  BY BytesInCount
<1>2. Cardinality(S \cup BytesIn(b)) =
        Cardinality(S) + Cardinality(BytesIn(b)) - Cardinality(S \cap BytesIn(b))
  BY <1>1, FS_Union
<1>3. Cardinality(S \cap BytesIn(b)) = 0
  BY FS_EmptySet
<1>4. Cardinality(S) \in Nat /\ b.size \in Nat
  BY FS_CardinalityType DEF Block
<1>. QED BY <1>1, <1>2, <1>3, <1>4

(* What free() adds up is the number of bytes on the list.                 *)
LEMMA FreeBytesCount ==
  ASSUME NEW s \in Seq(Block), Sorted(s),
         \A k \in 1 .. Len(s) : Within(s[k], HeapBlock)
  PROVE  free_bytes(s) = Cardinality(BytesOf(s, Len(s)))
<1> DEFINE N == Len(s)
           count == [n \in 0 .. N |-> Cardinality(BytesOf(s, n))]
           sum == CHOOSE f : f = [n \in 0 .. N |-> IF n = 0 THEN 0 ELSE f[n - 1] + s[n].size]
<1>1. N \in Nat /\ \A k \in 1 .. N : s[k] \in Block
  OBVIOUS
<1>2. \A n \in 0 .. N : BytesOf(s, n) \subseteq BytesIn(HeapBlock)
  BY <1>1, WithinHeapBytes DEF BytesOf
<1>3. \A n \in 0 .. N : IsFiniteSet(BytesOf(s, n))
  BY <1>2, BytesInCount, HeapBlockOK, FS_Subset
<1>4. count[0] = 0
  <2>1. BytesOf(s, 0) = {}
    BY DEF BytesOf
  <2>2. Cardinality(BytesOf(s, 0)) = 0
    BY <2>1, FS_EmptySet
  <2>3. 0 \in 0 .. N
    BY <1>1
  <2>. QED BY <2>2, <2>3
<1>5. ASSUME NEW n \in 1 .. N
      PROVE  count[n] = count[n - 1] + s[n].size
  <2>1. n - 1 \in 0 .. N /\ n \in 0 .. N /\ s[n] \in Block
    BY <1>1
  <2>2. BytesOf(s, n) = BytesOf(s, n - 1) \cup BytesIn(s[n])
    <3>1. 1 .. n = (1 .. n - 1) \cup {n}
      BY <1>1
    <3>. QED BY <3>1 DEF BytesOf
  <2>3. BytesOf(s, n - 1) \cap BytesIn(s[n]) = {}
    <3>1. ASSUME NEW k \in 1 .. n - 1 PROVE BytesIn(s[k]) \cap BytesIn(s[n]) = {}
      <4>1. k \in 1 .. N /\ k < n /\ s[k] \in Block
        BY <1>1
      <4>2. End(s[k]) < s[n].addr /\ End(s[k]) \in Int /\ s[n].addr \in Int
        BY <1>1, <4>1, <2>1, BlockInts DEF Sorted
      <4>3. Apart(s[k], s[n])
        BY <4>2 DEF Apart
      <4>. QED BY <4>1, <2>1, <4>3, ApartBytes
    <3>. QED BY <3>1 DEF BytesOf
  <2>4. Cardinality(BytesOf(s, n)) = Cardinality(BytesOf(s, n - 1)) + s[n].size
    BY <1>3, <2>1, <2>2, <2>3, CountDisjoint
  <2>. QED BY <2>1, <2>4
<1> HIDE DEF N
<1>6. count = [n \in 0 .. N |-> IF n = 0 THEN 0 ELSE count[n - 1] + s[n].size]
  <2>1. ASSUME NEW n \in 0 .. N
        PROVE  count[n] = IF n = 0 THEN 0 ELSE count[n - 1] + s[n].size
    <3> HIDE DEF count
    <3>1. CASE n = 0
      BY <1>4, <3>1
    <3>2. CASE n # 0
      <4>1. n \in 1 .. N
        BY <1>1, <3>2
      <4>. QED BY <1>5, <3>2, <4>1
    <3>. QED BY <3>1, <3>2
  <2>. QED BY <2>1
<1> HIDE DEF count
<1>7. sum = [n \in 0 .. N |-> IF n = 0 THEN 0 ELSE sum[n - 1] + s[n].size]
  BY <1>6
<1> HIDE DEF sum
<1>8. ASSUME NEW n \in 0 .. N, sum[n] # count[n]
      PROVE  FALSE
  <2> DEFINE T == {m \in 0 .. N : sum[m] # count[m]}
  <2>1. T \in SUBSET Nat /\ T # {}
    BY <1>1, <1>8
  <2>2. PICK m \in T : \A y \in T : m <= y
    BY <2>1, Smallest
  <2>3. CASE m = 0
    BY <1>1, <1>4, <1>7, <2>2, <2>3
  <2>4. CASE m # 0
    <3>1. m - 1 \in 0 .. N /\ m \in 1 .. N /\ m - 1 \notin T
      BY <1>1, <2>2, <2>4
    <3>2. sum[m] = sum[m - 1] + s[m].size /\ count[m] = count[m - 1] + s[m].size
      BY <1>5, <1>7, <2>4, <3>1
    <3>. QED BY <2>2, <3>1, <3>2
  <2>. QED BY <2>3, <2>4
<1>9. sum[N] = count[N]
  BY <1>1, <1>8
<1>10. free_bytes(s) = sum[N]
  BY DEF free_bytes, sum, N
<1>11. count[N] = Cardinality(BytesOf(s, N))
  BY <1>1 DEF count
<1>. QED BY <1>9, <1>10, <1>11 DEF N

(* No two live allocations begin at the same address of the heap.          *)
LEMMA LiveFinite ==
  ASSUME \A a \in live : /\ Extent(a) \in Block /\ Extent(a).size > 0
                         /\ Within(Extent(a), HeapBlock),
         \A a, c \in live : a # c => Apart(Extent(a), Extent(c))
  PROVE  IsFiniteSet(live)
<1> DEFINE H == BytesIn(HeapBlock)
           start == [a \in live |-> Extent(a).addr]
<1>1. IsFiniteSet(H)
  BY HeapBlockOK, BytesInCount
<1>2. ASSUME NEW a \in live
      PROVE  start[a] \in BytesIn(Extent(a)) /\ start[a] \in H
  <2>1. Extent(a) \in Block /\ Extent(a).size > 0 /\ Within(Extent(a), HeapBlock)
    OBVIOUS
  <2>2. Extent(a).addr \in BytesIn(Extent(a))
    BY <2>1 DEF Block, BytesIn, End
  <2>. QED BY <2>1, <2>2, WithinHeapBytes
<1>3. ASSUME NEW a \in live, NEW c \in live, a # c
      PROVE  start[a] # start[c]
  <2>1. BytesIn(Extent(a)) \cap BytesIn(Extent(c)) = {}
    BY <1>3, ApartBytes
  <2>. QED BY <1>2, <2>1
<1>4. start \in [live -> H]
  BY <1>2
<1> HIDE DEF start, H
<1>5. start \in Injection(live, H)
  BY <1>3, <1>4 DEF Injection, IsInjective
<1>. QED BY <1>1, <1>5, FS_Injection

(* The lengths in the metadata of the live allocations, added up one by    *)
(* one, are the number of bytes they own.                                  *)
LEMMA LiveBytesCount ==
  ASSUME \A a \in live : /\ Extent(a) \in Block /\ Extent(a).size > 0
                         /\ Within(Extent(a), HeapBlock),
         \A a, c \in live : a # c => Apart(Extent(a), Extent(c)),
         NEW lens,
         lens = CHOOSE f : f = [S \in SUBSET live |->
                  IF S = {} THEN 0
                  ELSE LET a == CHOOSE a \in S : TRUE IN a.len + f[S \ {a}]]
  PROVE  lens[live] = Cardinality(OwnedBy(live))
<1> DEFINE count == [S \in SUBSET live |-> Cardinality(OwnedBy(S))]
           Any(S) == CHOOSE a \in S : TRUE
<1>1. \A S \in SUBSET live : OwnedBy(S) \subseteq BytesIn(HeapBlock)
  BY WithinHeapBytes DEF OwnedBy
<1>2. \A S \in SUBSET live : IsFiniteSet(OwnedBy(S))
  BY <1>1, BytesInCount, HeapBlockOK, FS_Subset
<1>3. count[{}] = 0
  <2>1. OwnedBy({}) = {}
    BY DEF OwnedBy
  <2>2. Cardinality(OwnedBy({})) = 0
    BY <2>1, FS_EmptySet
  <2>. QED BY <2>2
<1>4. ASSUME NEW S \in SUBSET live, S # {}
      PROVE  count[S] = Any(S).len + count[S \ {Any(S)}]
  <2> DEFINE a == Any(S)
             U == S \ {a}
  <2>1. a \in S /\ a \in live /\ U \in SUBSET live /\ S = U \cup {a} /\ a \notin U
    BY <1>4
  <2> HIDE DEF a, U
  <2>2. Extent(a) \in Block /\ Extent(a).size = a.len
    BY <2>1 DEF Extent
  <2>3. OwnedBy(S) = OwnedBy(U) \cup BytesIn(Extent(a))
    BY <2>1 DEF OwnedBy
  <2>4. OwnedBy(U) \cap BytesIn(Extent(a)) = {}
    <3>1. ASSUME NEW c \in U PROVE BytesIn(Extent(c)) \cap BytesIn(Extent(a)) = {}
      <4>1. c \in live /\ c # a
        BY <2>1
      <4>. QED BY <2>1, <4>1, ApartBytes
    <3>. QED BY <3>1 DEF OwnedBy
  <2>5. Cardinality(OwnedBy(S)) = Cardinality(OwnedBy(U)) + a.len
    BY <1>2, <2>1, <2>2, <2>3, <2>4, CountDisjoint
  <2>6. Cardinality(OwnedBy(U)) \in Nat /\ a.len \in Nat
    <3>1. a.len \in Nat
      BY <2>2 DEF Block
    <3>. QED BY <1>2, <2>1, <3>1, FS_CardinalityType
  <2>7. count[S] = Cardinality(OwnedBy(S)) /\ count[U] = Cardinality(OwnedBy(U))
    BY <2>1
  <2> HIDE DEF count
  <2>8. count[S] = a.len + count[U]
    BY <2>5, <2>6, <2>7
  <2>. QED BY <2>8 DEF a, U
<1> HIDE DEF count
<1>5. count = [S \in SUBSET live |->
                 IF S = {} THEN 0 ELSE LET a == CHOOSE a \in S : TRUE IN a.len + count[S \ {a}]]
  <2>1. ASSUME NEW S \in SUBSET live
        PROVE  count[S] = IF S = {} THEN 0
                          ELSE LET a == CHOOSE a \in S : TRUE IN a.len + count[S \ {a}]
    BY <1>3, <1>4
  <2>. QED BY <2>1 DEF count
<1>6. lens = [S \in SUBSET live |->
                IF S = {} THEN 0 ELSE LET a == CHOOSE a \in S : TRUE IN a.len + lens[S \ {a}]]
  <2> DEFINE Sum(f) == [S \in SUBSET live |->
               IF S = {} THEN 0 ELSE LET a == CHOOSE a \in S : TRUE IN a.len + f[S \ {a}]]
  <2>1. count = Sum(count) /\ lens = CHOOSE f : f = Sum(f)
    BY <1>5
  <2> HIDE DEF Sum
  <2>2. lens = Sum(lens)
    BY <2>1, Zenon
  <2>. QED BY <2>2 DEF Sum
<1>7. \A S \in SUBSET live :
        lens[S] = IF S = {} THEN 0 ELSE Any(S).len + lens[S \ {Any(S)}]
  BY <1>6
<1>8. IsFiniteSet(live)
  BY LiveFinite
<1>9. ASSUME lens[live] # count[live]
      PROVE  FALSE
  <2> DEFINE Wrong(S) == lens[S] # count[S]
             T == {n \in Nat : \E S \in SUBSET live : Cardinality(S) = n /\ Wrong(S)}
  <2>1. T # {}
    BY <1>8, <1>9, FS_CardinalityType
  <2>2. PICK n \in T : \A y \in T : n <= y
    BY <2>1, Smallest
  <2>3. PICK S \in SUBSET live : Cardinality(S) = n /\ Wrong(S)
    BY <2>2
  <2>4. S # {}
    BY <1>3, <1>7, <2>3
  <2> DEFINE U == S \ {Any(S)}
  <2>5. Any(S) \in S /\ U \in SUBSET live
    BY <2>4
  <2>6. IsFiniteSet(S) /\ IsFiniteSet(U)
    BY <1>8, <2>5, FS_Subset
  <2>7. Cardinality(U) = Cardinality(S) - 1 /\ Cardinality(U) \in Nat /\ Cardinality(S) \in Nat
    BY <2>5, <2>6, FS_RemoveElement, FS_CardinalityType
  <2>8. ~ Wrong(U)
    <3>1. Wrong(U) => Cardinality(U) \in T
      BY <2>5, <2>7
    <3>2. Cardinality(U) < n
      BY <2>3, <2>7
    <3>3. Cardinality(U) \in T => n <= Cardinality(U)
      BY <2>2
    <3> HIDE DEF Wrong, T, U
    <3>4. ~ (n <= Cardinality(U))
      BY <2>3, <2>7, <3>2
    <3>. QED BY <3>1, <3>3, <3>4
  <2>9. lens[S] = Any(S).len + lens[U] /\ count[S] = Any(S).len + count[U]
    BY <1>4, <1>7, <2>4
  <2>. QED BY <2>3, <2>8, <2>9
<1>10. count[live] = Cardinality(OwnedBy(live))
  BY DEF count
<1>. QED BY <1>9, <1>10

(* In a tiled heap used() and the live allocations agree.                  *)
LEMMA TiledHeapCount ==
  ASSUME free \in Seq(Block), Sorted(free), HeapIsTiled, NoOverlap,
         \A a \in live : Extent(a) \in Block /\ Extent(a).size > 0
  PROVE  UsedIsLive
<1> DEFINE F == BytesOf(free, Len(free))
           L == OwnedBy(live)
           lens == CHOOSE f : f = [S \in SUBSET live |->
                     IF S = {} THEN 0
                     ELSE LET a == CHOOSE a \in S : TRUE IN a.len + f[S \ {a}]]
<1>1. /\ \A k \in 1 .. Len(free) : free[k] \in Block /\ Within(free[k], HeapBlock)
      /\ \A a \in live : Within(Extent(a), HeapBlock)
      /\ \A a, c \in live : a # c => Apart(Extent(a), Extent(c))
  <2>1. \A k \in 1 .. Len(free) : free[k] \in Block
    OBVIOUS
  <2>2. \A k \in 1 .. Len(free) : Within(free[k], HeapBlock)
    BY DEF HeapIsTiled
  <2>3. \A a \in live : Within(Extent(a), HeapBlock)
    BY DEF HeapIsTiled
  <2>4. \A a, c \in live : a # c => Apart(Extent(a), Extent(c))
    BY DEF NoOverlap
  <2>. QED BY <2>1, <2>2, <2>3, <2>4
<1>2. free_bytes(free) = Cardinality(F)
  BY <1>1, FreeBytesCount
<1>3. lens[live] = Cardinality(L)
  <2> HIDE DEF L
  <2>1. lens[live] = Cardinality(OwnedBy(live))
    BY <1>1, LiveBytesCount
  <2>. QED BY <2>1 DEF L
<1>4. F \subseteq BytesIn(HeapBlock) /\ L \subseteq BytesIn(HeapBlock)
  BY <1>1, WithinHeapBytes DEF BytesOf, OwnedBy
<1>5. F \cap L = {}
  <2>1. ASSUME NEW k \in 1 .. Len(free), NEW a \in live
        PROVE  BytesIn(free[k]) \cap BytesIn(Extent(a)) = {}
    <3>1. Apart(Extent(a), free[k])
      BY DEF NoOverlap
    <3>2. BytesIn(Extent(a)) \cap BytesIn(free[k]) = {}
      BY <1>1, <3>1, ApartBytes
    <3>. QED BY <3>2
  <2>. QED BY <2>1 DEF BytesOf, OwnedBy
<1>6. BytesIn(HeapBlock) \subseteq F \cup L
  <2> SUFFICES ASSUME NEW x \in BytesIn(HeapBlock) PROVE x \in F \cup L
    OBVIOUS
  <2>0. x \in Int
    BY HeapBlockOK, BlockInts DEF BytesIn
  <2>1. \/ \E i \in 1 .. Len(free) : InBlock(x, free[i])
        \/ \E a \in live : InBlock(x, Extent(a))
    BY DEF HeapIsTiled, BytesIn
  <2>2. ASSUME NEW i \in 1 .. Len(free), InBlock(x, free[i]) PROVE x \in F
    <3>1. x \in BytesIn(free[i])
      BY <1>1, <2>0, <2>2, BlockInts DEF InBlock, BytesIn
    <3>. QED BY <3>1 DEF BytesOf
  <2>3. ASSUME NEW a \in live, InBlock(x, Extent(a)) PROVE x \in L
    <3>1. x \in BytesIn(Extent(a))
      BY <2>0, <2>3, BlockInts DEF InBlock, BytesIn
    <3>. QED BY <3>1 DEF OwnedBy
  <2>. QED BY <2>1, <2>2, <2>3
<1> HIDE DEF F, L
<1>7. IsFiniteSet(BytesIn(HeapBlock)) /\ Cardinality(BytesIn(HeapBlock)) = total_size
  <2>1. HeapBlock.size = total_size
    BY DEF HeapBlock
  <2>. QED BY <2>1, HeapBlockOK, BytesInCount
<1>8. IsFiniteSet(F) /\ IsFiniteSet(L) /\ F \cup L = BytesIn(HeapBlock)
  BY <1>4, <1>6, <1>7, FS_Subset
<1>9. Cardinality(F \cup L) = Cardinality(F) + Cardinality(L) - Cardinality(F \cap L)
  BY <1>8, FS_Union
<1>10. Cardinality(F \cap L) = 0 /\ Cardinality(F) \in Nat /\ Cardinality(L) \in Nat
  BY <1>5, <1>8, FS_EmptySet, FS_CardinalityType
<1>11. total_size - Cardinality(F) = Cardinality(L)
  <2>1. total_size = Cardinality(F) + Cardinality(L) - 0
    BY <1>7, <1>8, <1>9, <1>10
  <2>. QED BY <1>10, <2>1
<1>12. used_bytes(free) = Cardinality(L)
  BY <1>2, <1>10, <1>11 DEF used_bytes, AtLeast
<1>13. used_bytes(free) = lens[live]
  BY <1>3, <1>12
<1>. QED BY <1>13 DEF UsedIsLive

-------------------------------------------------------------------------------
(* init, alloc and dealloc keep the list a list of (address, size) blocks  *)
(* and the allocations well formed: no size or address underflows.         *)
THEOREM TypeCorrect == Spec => []TypeOK
BY HeapConsistent, HeapOKImplies, PTL

(* alloc never hands out a byte that is in use, for every heap, every set  *)
(* of layouts and every order of alloc and dealloc.                        *)
THEOREM AllocationsDisjoint == Spec => []NoOverlap
BY HeapConsistent, HeapOKImplies, PTL

(* dealloc keeps the list sorted and fully coalesced.                      *)
THEOREM ListSortedAndCoalesced == Spec => []SortedAndCoalesced
BY HeapConsistent, HeapOKImplies, PTL

(* alloc and dealloc neither lose nor invent a byte of the heap.           *)
THEOREM HeapTiled == Spec => []HeapIsTiled
BY HeapConsistent, HeapOKImplies, PTL

(* Every FreeBlock header that alloc or dealloc writes is aligned and lies *)
(* in memory the allocator owns.                                           *)
THEOREM HeadersAlwaysFit == Spec => []HeadersFit
BY HeapConsistent, HeapOKImplies, PTL

(* alloc returns pointers that are aligned as the layout asks, with the    *)
(* requested bytes behind and the metadata in front of them.               *)
THEOREM PayloadsFit == Spec => []PayloadFits
BY HeapConsistent, HeapOKImplies, PTL

(* When the last allocation is freed the heap is one block, as after init. *)
THEOREM NoPermanentFragmentation == Spec => []IdleHeapIsWhole
BY HeapConsistent, HeapOKIdle, PTL

(* used() reports exactly the bytes that live allocations take: metadata,  *)
(* padding and the slack of blocks that were not split are all counted.    *)
THEOREM UsedAlwaysLive == Spec => []UsedIsLive
<1>1. HeapOK => UsedIsLive
  <2> SUFFICES ASSUME HeapOK PROVE UsedIsLive
    OBVIOUS
  <2>1. TypeOK /\ HeapIsTiled /\ NoOverlap
    BY HeapOKImplies
  <2>2. free \in Seq(Block) /\ Sorted(free)
    BY DEF HeapOK, ListOK
  <2>3. \A a \in live : Extent(a) \in Block /\ Extent(a).size > 0
    BY DEF HeapOK, LiveOK, BlockOK, HeaderOK, SizeOfFreeBlock, Block
  <2>. QED BY <2>1, <2>2, <2>3, TiledHeapCount
<1>. QED BY <1>1, HeapConsistent, PTL
===============================================================================
