--------------------------- MODULE PageFramesProofs --------------------------
(***************************************************************************)
(* Proofs about PageFrames for every page size, every memory that          *)
(* usable_memory_ranges may leave and every use of the frames.             *)
(***************************************************************************)
EXTENDS PageFrames, BitmapProofs

(* The arenas keep the shape of the usable memory: complete pages, in      *)
(* ascending order, with a bit for each page.                              *)
ArenasApart ==
  /\ \A k \in 1 .. Len(arenas) :
       /\ PageAligned(arenas[k].start) /\ PageAligned(arenas[k].end)
       /\ arenas[k].start < arenas[k].end
       /\ arenas[k].used.len = NumPages(arenas[k])
  /\ \A j, k \in 1 .. Len(arenas) : j < k => arenas[j].end <= arenas[k].start

FramesInv == /\ TypeOK /\ ArenasApart /\ BitsMatchHeld
             /\ ready \/ arenas = << >>
------------------------------------------------------------------------------
(* Division with remainder, as the provers need it spelled out.            *)
LEMMA Division ==
  \A a \in Nat, b \in Nat \ {0} :
    a \div b \in Nat /\ a % b \in 0 .. b - 1 /\ a = (a \div b) * b + (a % b)
OBVIOUS

LEMMA Multiples ==
  \A b \in Nat \ {0}, m, n \in Nat :
    /\ m * b \in Nat
    /\ m + 1 <= n => m * b + b <= n * b
    /\ m * b = n * b => m = n
<1> SUFFICES ASSUME NEW b \in Nat \ {0}
             PROVE  /\ \A m, n \in Nat : m * b \in Nat /\ (m + 1 <= n => m * b + b <= n * b)
                    /\ \A m, n \in Nat : m * b = n * b => m = n
  OBVIOUS
<1>1. \A m, n \in Nat : m * b \in Nat /\ (m + 1 <= n => m * b + b <= n * b)
  OBVIOUS
<1>2. ASSUME NEW m \in Nat, NEW n \in Nat, m * b = n * b, m + 1 <= n PROVE FALSE
  <2>1. m * b \in Nat /\ m * b + b <= n * b
    BY <1>1, <1>2
  <2> QED
    BY <2>1, <1>2
<1>3. \A m, n \in Nat : m = n \/ m + 1 <= n \/ n + 1 <= m
  OBVIOUS
<1> QED
  BY <1>1, <1>2, <1>3

(* A bit of the bitmap stands for a page inside the arena: Bitmap::new     *)
(* gets the number of complete pages.                                      *)
LEMMA FrameFits ==
  ASSUME NEW a \in [start : Nat, end : Nat, used : Bitmaps], a.start < a.end,
         a.used.len = NumPages(a), NEW i \in Bits(a)
  PROVE  i \in Nat /\ Frame(a, i) \in Nat /\ Frame(a, i) + PAGE_SIZE <= a.end
<1> DEFINE n == a.end - a.start
           p == n \div PAGE_SIZE
<1>1. n \in Nat /\ PAGE_SIZE \in Nat \ {0}
  BY PagesAssumption
<1>2. p \in Nat /\ n % PAGE_SIZE \in 0 .. PAGE_SIZE - 1 /\ n = p * PAGE_SIZE + (n % PAGE_SIZE)
  BY <1>1, Division
<1>3. i \in Nat /\ i + 1 <= p
  BY <1>2 DEF Bits, NumPages
<1> HIDE DEF p
<1>4. i * PAGE_SIZE \in Nat /\ p * PAGE_SIZE \in Nat /\ i * PAGE_SIZE + PAGE_SIZE <= p * PAGE_SIZE
  BY <1>1, <1>2, <1>3, Multiples
<1>5. \A x, y, r \in Nat : n = y + r /\ x + PAGE_SIZE <= y => a.start + x + PAGE_SIZE <= a.end
  BY <1>1
<1>6. n % PAGE_SIZE \in Nat
  BY <1>2, <1>1
<1>7. a.start + i * PAGE_SIZE + PAGE_SIZE <= a.end
  BY <1>2, <1>4, <1>5, <1>6
<1> QED
  BY <1>1, <1>3, <1>4, <1>7 DEF Frame

(* The distance of two multiples is a multiple.                            *)
LEMMA Distance ==
  ASSUME NEW b \in Nat \ {0}, NEW s \in Nat, NEW x \in Nat,
         s % b = 0, x % b = 0, s <= x
  PROVE  s + ((x - s) \div b) * b = x
<1> DEFINE u == x \div b
           v == s \div b
           q == (x - s) \div b
           r == (x - s) % b
<1>1. u \in Nat /\ x = u * b + (x % b)
  BY Division
<1>2. v \in Nat /\ s = v * b + (s % b)
  BY Division
<1>3. x - s \in Nat
  OBVIOUS
<1>4. q \in Nat /\ r \in Nat /\ r < b /\ x - s = q * b + r
  BY <1>3, Division
<1> HIDE DEF u, v, q, r
<1>5. /\ u * b \in Nat /\ v * b \in Nat /\ q * b \in Nat
      /\ x = u * b /\ s = v * b
  BY <1>1, <1>2, <1>4
<1>6. ~ (u + 1 <= v)
  <2>1. u + 1 <= v => u * b + b <= v * b
    BY <1>1, <1>2, Multiples
  <2> QED
    BY <1>5, <2>1
<1>7. PICK w \in Nat : u = v + w
  BY <1>1, <1>2, <1>6
<1>8. (v + w) * b = v * b + w * b /\ w * b \in Nat
  BY <1>2
<1>9. w * b = q * b + r
  BY <1>4, <1>5, <1>7, <1>8
<1>10. /\ w + 1 <= q => w * b + b <= q * b
       /\ q + 1 <= w => q * b + b <= w * b
  BY <1>4, Multiples
<1>11. \A i, j, k \in Nat : i = j + k /\ k < b => ~ (i + b <= j) /\ ~ (j + b <= i)
  OBVIOUS
<1>12. ~ (w + 1 <= q) /\ ~ (q + 1 <= w)
  BY <1>4, <1>5, <1>8, <1>9, <1>10, <1>11
<1>13. w = q
  BY <1>4, <1>12
<1> QED
  BY <1>5, <1>7, <1>8, <1>13 DEF q

(* An aligned address in an aligned arena is the frame of its index, which *)
(* is why FrameArena::free must refuse any other address.                  *)
LEMMA AlignedIsFrame ==
  ASSUME NEW a \in [start : Nat, end : Nat, used : Bitmaps], NEW addr \in Nat,
         PageAligned(a.start), PageAligned(addr), contains(a, addr)
  PROVE  Frame(a, IndexOf(a, addr)) = addr
<1> DEFINE s == a.start
<1>1. s \in Nat /\ s % PAGE_SIZE = 0 /\ addr % PAGE_SIZE = 0 /\ s <= addr
  BY DEF PageAligned, contains
<1> HIDE DEF s
<1>2. s + ((addr - s) \div PAGE_SIZE) * PAGE_SIZE = addr
  BY <1>1, Distance, PagesAssumption
<1> QED
  BY <1>2 DEF Frame, IndexOf, s

(* The index of an address in an arena of complete pages is below the      *)
(* length of the bitmap, as the assertions of Bitmap demand.               *)
LEMMA IndexInBits ==
  ASSUME NEW a \in [start : Nat, end : Nat, used : Bitmaps], NEW addr \in Nat,
         PageAligned(a.start), PageAligned(a.end), contains(a, addr),
         a.used.len = NumPages(a)
  PROVE  IndexOf(a, addr) \in 0 .. a.used.len - 1
<1> DEFINE s == a.start
           e == a.end
           P == PAGE_SIZE
           i == (addr - s) \div P
           n == (e - s) \div P
<1>1. s \in Nat /\ e \in Nat /\ s <= addr /\ addr < e /\ P \in Nat \ {0}
  BY PagesAssumption DEF contains
<1>2. s % P = 0 /\ e % P = 0
  BY DEF PageAligned
<1> HIDE DEF s, e, P
<1>3. s + n * P = e
  BY <1>1, <1>2, Distance
<1>4. addr - s \in Nat /\ e - s \in Nat
  BY <1>1
<1>5. i \in Nat /\ n \in Nat /\ (addr - s) % P \in 0 .. P - 1
      /\ addr - s = i * P + ((addr - s) % P)
  BY <1>1, <1>4, Division
<1> DEFINE r == (addr - s) % P
<1>6. r \in Nat /\ r < P /\ addr - s = i * P + r
  BY <1>1, <1>5
<1> HIDE DEF i, n, r
<1>7. n = i \/ n + 1 <= i => n * P <= i * P
  <2>1. n * P \in Nat /\ i * P \in Nat /\ (n + 1 <= i => n * P + P <= i * P)
    BY <1>1, <1>5, Multiples
  <2> QED
    BY <1>1, <2>1
<1>8. ~ (n * P <= i * P)
  <2> DEFINE x == n * P
             y == i * P
  <2>1. x \in Nat /\ y \in Nat /\ s + x = e /\ addr - s = y + r
    BY <1>1, <1>3, <1>5, <1>6, Multiples
  <2> HIDE DEF x, y
  <2>2. ~ (x <= y)
    BY <1>1, <1>6, <2>1
  <2> QED
    BY <2>2 DEF x, y
<1>9. i \in 0 .. n - 1
  BY <1>5, <1>7, <1>8
<1> QED
  BY <1>9 DEF i, n, s, e, P, IndexOf, NumPages
------------------------------------------------------------------------------
Arenas == [start : Nat, end : Nat, used : Bitmaps]

(* A function on 1 .. n is a sequence of length n: how init builds arenas. *)
LEMMA FunctionIsSeq ==
  ASSUME NEW S, NEW n \in Nat, NEW f \in [1 .. n -> S]
  PROVE  f \in Seq(S) /\ Len(f) = n
<1>1. f \in Seq(S)
  BY SeqDef
<1>2. 1 .. n = 1 .. Len(f) /\ Len(f) \in Nat
  BY <1>1, LenProperties
<1> QED
  BY <1>1, <1>2

WithBits(as, k, U) == [as EXCEPT ![k].used = U]

(* bs is as, but that the bits of arena k are U.                           *)
DiffersInBits(as, bs, k, U) ==
  /\ bs \in Seq(Arenas) /\ Len(bs) = Len(as)
  /\ \A j \in 1 .. Len(as) :
       /\ bs[j].start = as[j].start /\ bs[j].end = as[j].end
       /\ bs[j].used = IF j = k THEN U ELSE as[j].used
       /\ \A i : Frame(bs[j], i) = Frame(as[j], i)

(* Setting or clearing bits of one arena leaves everything else alone.     *)
LEMMA NewBits ==
  ASSUME NEW as \in Seq(Arenas), NEW k \in 1 .. Len(as), NEW U \in Bitmaps,
         NEW bs, bs = WithBits(as, k, U)
  PROVE  DiffersInBits(as, bs, k, U)
<1>1. as \in [1 .. Len(as) -> Arenas] /\ Len(as) \in Nat
  BY LenProperties
<1>2. bs \in [1 .. Len(as) -> Arenas]
  BY <1>1 DEF Arenas, WithBits
<1>3. bs \in Seq(Arenas) /\ Len(bs) = Len(as)
  BY <1>1, <1>2, FunctionIsSeq
<1>4. ASSUME NEW j \in 1 .. Len(as)
      PROVE  /\ bs[j].start = as[j].start /\ bs[j].end = as[j].end
             /\ bs[j].used = IF j = k THEN U ELSE as[j].used
  BY <1>1 DEF Arenas, WithBits
<1>5. \A j \in 1 .. Len(as) : \A i : Frame(bs[j], i) = Frame(as[j], i)
  BY <1>4, Zenon DEF Frame
<1> QED
  BY <1>3, <1>4, <1>5 DEF DiffersInBits

(* Different bits are different frames, in one arena and across arenas.    *)
LEMMA FramesApart ==
  ASSUME TypeOK, ArenasApart,
         NEW j \in 1 .. Len(arenas), NEW k \in 1 .. Len(arenas), NEW i \in Nat, NEW l \in Nat,
         Frame(arenas[j], i) + PAGE_SIZE <= arenas[j].end,
         Frame(arenas[k], l) + PAGE_SIZE <= arenas[k].end,
         Frame(arenas[j], i) = Frame(arenas[k], l)
  PROVE  j = k /\ i = l
<1> DEFINE P == PAGE_SIZE
<1>1. P \in Nat \ {0}
  BY PagesAssumption
<1>2. /\ arenas[j].start \in Nat /\ arenas[j].end \in Nat
      /\ arenas[k].start \in Nat /\ arenas[k].end \in Nat
  <2>1. arenas \in Seq([start : Nat, end : Nat, used : Bitmaps])
    BY DEF TypeOK
  <2>2. arenas[j] \in Arenas /\ arenas[k] \in Arenas
    BY <2>1, ElementOfSeq DEF Arenas
  <2> QED
    BY <2>2 DEF Arenas
<1>3. i * P \in Nat /\ l * P \in Nat /\ (i * P = l * P => i = l)
  BY <1>1, Multiples
<1>4. /\ j < k => arenas[j].end <= arenas[k].start
      /\ k < j => arenas[k].end <= arenas[j].start
  BY DEF ArenasApart
<1>5. /\ arenas[j].start + i * P + P <= arenas[j].end
      /\ arenas[k].start + l * P + P <= arenas[k].end
      /\ arenas[j].start + i * P = arenas[k].start + l * P
  BY DEF Frame
<1>6. ASSUME NEW s \in Nat, NEW t \in Nat, NEW e \in Nat, NEW f \in Nat,
             NEW x \in Nat, NEW y \in Nat,
             s + x + P <= e, t + y + P <= f, s + x = t + y
      PROVE  ~ (e <= t) /\ ~ (f <= s)
  <2> HIDE DEF P
  <2> QED
    BY <1>1, <1>6
<1>7. ~ (arenas[j].end <= arenas[k].start) /\ ~ (arenas[k].end <= arenas[j].start)
  <2> DEFINE x == i * P
             y == l * P
  <2>1. x \in Nat /\ y \in Nat
    BY <1>3
  <2>2. /\ arenas[j].start + x + P <= arenas[j].end
        /\ arenas[k].start + y + P <= arenas[k].end
        /\ arenas[j].start + x = arenas[k].start + y
    BY <1>5
  <2> HIDE DEF x, y, P
  <2> QED
    BY <1>2, <1>6, <2>1, <2>2
<1>8. j = k
  BY <1>4, <1>7
<1>9. \A s, x, y \in Nat : s + x = s + y => x = y
  OBVIOUS
<1> QED
  BY <1>2, <1>3, <1>5, <1>8, <1>9

(* BitsMatchHeld, by members.                                              *)
LEMMA HeldMeans ==
  BitsMatchHeld <=>
    \A f : f \in held <=> \E k \in 1 .. Len(arenas) : \E i \in Ones(arenas[k].used) :
                             f = Frame(arenas[k], i)
<1>1. \A a, f : f \in InUse(a) <=> \E i \in Ones(a.used) : f = Frame(a, i)
  BY DEF InUse
<1>2. BitsMatchHeld <=> \A f : f \in held <=> \E k \in 1 .. Len(arenas) : f \in InUse(arenas[k])
  BY DEF BitsMatchHeld
<1>3. ASSUME NEW f
      PROVE  (\E k \in 1 .. Len(arenas) : f \in InUse(arenas[k]))
               <=> \E k \in 1 .. Len(arenas) : \E i \in Ones(arenas[k].used) :
                     f = Frame(arenas[k], i)
  <2>1. ASSUME NEW k
        PROVE  f \in InUse(arenas[k]) <=> \E i \in Ones(arenas[k].used) :
                                              f = Frame(arenas[k], i)
    BY <1>1
  <2> QED
    BY <2>1, Zenon
<1> QED
  BY <1>2, <1>3

(* The same of the next state.                                             *)
LEMMA HeldMeansNext ==
  BitsMatchHeld' <=>
    \A f : f \in held' <=> \E k \in 1 .. Len(arenas') : \E i \in Ones(arenas'[k].used) :
                              f = Frame(arenas'[k], i)
<1>1. \A a, f : f \in InUse(a) <=> \E i \in Ones(a.used) : f = Frame(a, i)
  BY DEF InUse
<1>2. BitsMatchHeld' <=> \A f : f \in held' <=> \E k \in 1 .. Len(arenas') : f \in InUse(arenas'[k])
  BY DEF BitsMatchHeld
<1>3. ASSUME NEW f
      PROVE  (\E k \in 1 .. Len(arenas') : f \in InUse(arenas'[k]))
               <=> \E k \in 1 .. Len(arenas') : \E i \in Ones(arenas'[k].used) :
                     f = Frame(arenas'[k], i)
  <2>1. ASSUME NEW k
        PROVE  f \in InUse(arenas'[k]) <=> \E i \in Ones(arenas'[k].used) :
                                              f = Frame(arenas'[k], i)
    BY <1>1
  <2> QED
    BY <2>1, Zenon
<1> QED
  BY <1>2, <1>3
------------------------------------------------------------------------------
(* What TypeOK says of an arena and of a set bit.                          *)
LEMMA ArenaType ==
  ASSUME FramesInv
  PROVE  /\ arenas \in Seq(Arenas) /\ Len(arenas) \in Nat
         /\ \A k \in 1 .. Len(arenas) :
              /\ arenas[k] \in Arenas /\ arenas[k].used \in Bitmaps
              /\ arenas[k].start \in Nat /\ arenas[k].end \in Nat
              /\ Bits(arenas[k]) \subseteq Nat
              /\ \A i \in Bits(arenas[k]) : Frame(arenas[k], i) + PAGE_SIZE <= arenas[k].end
              /\ Ones(arenas[k].used) \subseteq Bits(arenas[k])
<1>1. arenas \in Seq(Arenas)
  BY DEF FramesInv, TypeOK, Arenas
<1>2. Len(arenas) \in Nat /\ \A k \in 1 .. Len(arenas) : arenas[k] \in Arenas
  BY <1>1, LenProperties, ElementOfSeq
<1>3. \A k \in 1 .. Len(arenas) :
        /\ arenas[k].used \in Bitmaps /\ arenas[k].start \in Nat /\ arenas[k].end \in Nat
  BY <1>2 DEF Arenas
<1>4. \A k \in 1 .. Len(arenas) : Ones(arenas[k].used) \subseteq Bits(arenas[k])
  BY DEF Ones, Bits
<1>5. \A k \in 1 .. Len(arenas) : Bits(arenas[k]) \subseteq Nat
  BY <1>3, BitmapType DEF Bits
<1> QED
  BY <1>1, <1>2, <1>3, <1>4, <1>5 DEF FramesInv, TypeOK

(* A change of the bits of one arena keeps the arenas apart.               *)
LEMMA BitsKeepShape ==
  ASSUME FramesInv, NEW k \in 1 .. Len(arenas), NEW U \in Bitmaps,
         arenas' = WithBits(arenas, k, U),
         U.len = arenas[k].used.len,
         held' \in SUBSET Nat, ready' = ready, ready
  PROVE  /\ TypeOK' /\ ArenasApart' /\ ready' /\ Len(arenas') = Len(arenas)
         /\ \A j \in 1 .. Len(arenas) :
              /\ arenas'[j].used = IF j = k THEN U ELSE arenas[j].used
              /\ \A i : Frame(arenas'[j], i) = Frame(arenas[j], i)
<1>1. /\ arenas' \in Seq(Arenas) /\ Len(arenas') = Len(arenas)
      /\ \A j \in 1 .. Len(arenas) :
           /\ arenas'[j].start = arenas[j].start /\ arenas'[j].end = arenas[j].end
           /\ arenas'[j].used = IF j = k THEN U ELSE arenas[j].used
           /\ \A i : Frame(arenas'[j], i) = Frame(arenas[j], i)
  <2>1. arenas \in Seq(Arenas)
    BY ArenaType
  <2>2. DiffersInBits(arenas, arenas', k, U)
    BY <2>1, NewBits
  <2> QED
    BY <2>2 DEF DiffersInBits
<1>2. ASSUME NEW j \in 1 .. Len(arenas'), NEW i \in Bits(arenas'[j])
      PROVE  Frame(arenas'[j], i) + PAGE_SIZE <= arenas'[j].end
  <2>1. j \in 1 .. Len(arenas) /\ Frame(arenas'[j], i) = Frame(arenas[j], i)
        /\ arenas'[j].end = arenas[j].end /\ i \in Bits(arenas[j])
    BY <1>1 DEF Bits
  <2>2. Frame(arenas[j], i) + PAGE_SIZE <= arenas[j].end
    BY <1>1, <1>2, <2>1, ArenaType
  <2> QED
    BY <2>1, <2>2
<1>3. TypeOK'
  BY <1>1, <1>2 DEF TypeOK, Arenas, FramesInv
<1>4. ASSUME NEW j \in 1 .. Len(arenas) PROVE arenas'[j].used.len = NumPages(arenas'[j])
  BY <1>1 DEF NumPages, FramesInv, ArenasApart
<1>5. ArenasApart'
  BY <1>1, <1>4 DEF ArenasApart, FramesInv, PageAligned
<1> QED
  BY <1>1, <1>3, <1>5

(* FrameArena::alloc hands out a frame that is not held.                   *)
LEMMA AllocStep ==
  ASSUME FramesInv, NEW f, alloc_frame(f)
  PROVE  FramesInv' /\ f \notin held
<1>0. PICK k \in 1 .. Len(arenas) : \E i \in Bits(arenas[k]) :
        /\ IsNextFree(arenas, k, i) /\ f = Frame(arenas[k], i)
        /\ arenas' = SetBit(arenas, k, i)
  BY DEF alloc_frame
<1>1. PICK i \in Bits(arenas[k]) :
        /\ IsNextFree(arenas, k, i) /\ f = Frame(arenas[k], i)
        /\ arenas' = SetBit(arenas, k, i)
  BY <1>0
<1>2. /\ arenas[k] \in Arenas /\ arenas[k].start < arenas[k].end
      /\ arenas[k].used \in Bitmaps /\ arenas[k].used.len = NumPages(arenas[k])
  BY ArenaType DEF FramesInv, ArenasApart
<1>3. i \in Nat /\ f \in Nat /\ f + PAGE_SIZE <= arenas[k].end
  BY <1>1, <1>2, FrameFits DEF Arenas
<1> DEFINE U == set(arenas[k].used, i)
<1>4. arenas' = WithBits(arenas, k, U)
  BY <1>1 DEF SetBit, WithBits
<1>5. /\ U \in Bitmaps /\ U.len = arenas[k].used.len
      /\ Ones(U) = Ones(arenas[k].used) \cup {i}
  BY <1>1, <1>2, SetExact DEF Bits
<1> HIDE DEF U
<1>6. held' \in SUBSET Nat /\ ready' = ready /\ ready /\ held' = held \cup {f}
  BY <1>3 DEF alloc_frame, FramesInv, TypeOK
<1>7. /\ TypeOK' /\ ArenasApart' /\ ready' /\ Len(arenas') = Len(arenas)
      /\ \A j \in 1 .. Len(arenas) :
           /\ arenas'[j].used = IF j = k THEN U ELSE arenas[j].used
           /\ \A l : Frame(arenas'[j], l) = Frame(arenas[j], l)
  BY <1>4, <1>5, <1>6, BitsKeepShape
<1>8. f \notin held
  <2> SUFFICES ASSUME f \in held PROVE FALSE
    OBVIOUS
  <2>0. PICK j \in 1 .. Len(arenas) : \E l \in Ones(arenas[j].used) : f = Frame(arenas[j], l)
    BY HeldMeans DEF FramesInv
  <2>1. PICK l \in Ones(arenas[j].used) : f = Frame(arenas[j], l)
    BY <2>0
  <2>2. l \in Nat /\ Frame(arenas[j], l) + PAGE_SIZE <= arenas[j].end
    BY ArenaType
  <2>3. j = k /\ l = i
    <3>1. TypeOK /\ ArenasApart /\ Frame(arenas[j], l) = Frame(arenas[k], i)
      BY <1>1, <2>1 DEF FramesInv
    <3>2. Frame(arenas[k], i) + PAGE_SIZE <= arenas[k].end
      BY <1>1, <1>3
    <3> QED
      BY <1>3, <2>2, <3>1, <3>2, FramesApart
  <2>4. i \notin Ones(arenas[k].used)
    BY <1>1, <1>2, FindFreeLowest DEF IsNextFree
  <2> QED
    BY <2>1, <2>3, <2>4
<1>9. BitsMatchHeld'
  <2>1. \A h : h \in held <=> \E j \in 1 .. Len(arenas) : \E l \in Ones(arenas[j].used) :
                               h = Frame(arenas[j], l)
    BY HeldMeans DEF FramesInv
  <2>2. \A h : h \in held' <=> \E j \in 1 .. Len(arenas') : \E l \in Ones(arenas'[j].used) :
                                h = Frame(arenas'[j], l)
    <3>1. ASSUME NEW j \in 1 .. Len(arenas), NEW l \in Ones(arenas[j].used)
          PROVE  l \in Ones(arenas'[j].used) /\ Frame(arenas'[j], l) = Frame(arenas[j], l)
      BY <1>5, <1>7
    <3>2. i \in Ones(arenas'[k].used) /\ f = Frame(arenas'[k], i)
      BY <1>1, <1>5, <1>7
    <3>3. ASSUME NEW j \in 1 .. Len(arenas), NEW l \in Ones(arenas'[j].used)
          PROVE  /\ Frame(arenas'[j], l) = Frame(arenas[j], l)
                 /\ l \in Ones(arenas[j].used) \/ Frame(arenas[j], l) = f
      BY <1>1, <1>5, <1>7
    <3>4. ASSUME NEW h \in held'
          PROVE  \E j \in 1 .. Len(arenas') : \E l \in Ones(arenas'[j].used) : h = Frame(arenas'[j], l)
      <4>1. CASE h = f
        BY <1>7, <3>2, <4>1
      <4>2. CASE h \in held
        <5>1. PICK j \in 1 .. Len(arenas) : \E l \in Ones(arenas[j].used) : h = Frame(arenas[j], l)
          BY <2>1, <4>2
        <5>2. PICK l \in Ones(arenas[j].used) : h = Frame(arenas[j], l)
          BY <5>1
        <5> QED
          BY <1>7, <3>1, <5>2
      <4> QED
        BY <1>6, <4>1, <4>2
    <3>5. ASSUME NEW j \in 1 .. Len(arenas'), NEW l \in Ones(arenas'[j].used)
          PROVE  Frame(arenas'[j], l) \in held'
      <4>1. j \in 1 .. Len(arenas)
        BY <1>7
      <4>2. /\ Frame(arenas'[j], l) = Frame(arenas[j], l)
            /\ l \in Ones(arenas[j].used) \/ Frame(arenas[j], l) = f
        BY <3>3, <4>1
      <4>3. l \in Ones(arenas[j].used) => Frame(arenas[j], l) \in held
        BY <2>1, <4>1
      <4> QED
        BY <1>6, <4>2, <4>3
    <3> QED
      BY <3>4, <3>5, Zenon
  <2> QED
    BY <2>2, HeldMeansNext
<1> QED
  BY <1>7, <1>8, <1>9 DEF FramesInv
(* FrameArena::free clears the bit of the frame it is given, and no other. *)
LEMMA FreeStep ==
  ASSUME FramesInv, NEW addr \in Nat, free_frame(addr)
  PROVE  FramesInv'
<1>1. PICK k \in 1 .. Len(arenas) :
        /\ Freeable(k, addr)
        /\ arenas' = [arenas EXCEPT ![k].used = unset(@, IndexOf(arenas[k], addr))]
  BY DEF free_frame
<1> DEFINE x == IndexOf(arenas[k], addr)
           U == unset(arenas[k].used, x)
<1>2. /\ arenas[k] \in Arenas /\ PageAligned(arenas[k].start) /\ PageAligned(arenas[k].end)
      /\ arenas[k].used \in Bitmaps /\ arenas[k].used.len = NumPages(arenas[k])
  BY ArenaType DEF FramesInv, ArenasApart
<1>3. /\ x \in 0 .. arenas[k].used.len - 1 /\ x \in Ones(arenas[k].used)
      /\ PageAligned(addr) /\ contains(arenas[k], addr)
  <2>1. PageAligned(addr) /\ contains(arenas[k], addr) /\ is_set(arenas[k].used, x)
    BY <1>1 DEF Freeable, IsArenaOf
  <2>2. x \in 0 .. arenas[k].used.len - 1
    BY <1>2, <2>1, IndexInBits DEF Arenas
  <2> QED
    BY <2>1, <2>2 DEF Ones
<1>4. Frame(arenas[k], x) = addr
  BY <1>2, <1>3, AlignedIsFrame DEF Arenas
<1>5. arenas' = WithBits(arenas, k, U)
  BY <1>1 DEF WithBits
<1> HIDE DEF x
<1>6. /\ U \in Bitmaps /\ U.len = arenas[k].used.len
      /\ Ones(U) = Ones(arenas[k].used) \ {x}
  BY <1>2, <1>3, UnsetExact
<1> HIDE DEF U
<1>7. held' \in SUBSET Nat /\ ready' = ready /\ ready /\ held' = held \ {addr}
  BY DEF free_frame, FramesInv, TypeOK
<1>8. /\ TypeOK' /\ ArenasApart' /\ ready' /\ Len(arenas') = Len(arenas)
      /\ \A j \in 1 .. Len(arenas) :
           /\ arenas'[j].used = IF j = k THEN U ELSE arenas[j].used
           /\ \A l : Frame(arenas'[j], l) = Frame(arenas[j], l)
  BY <1>5, <1>6, <1>7, BitsKeepShape
<1>9. BitsMatchHeld'
  <2>1. \A h : h \in held <=> \E j \in 1 .. Len(arenas) : \E l \in Ones(arenas[j].used) :
                               h = Frame(arenas[j], l)
    BY HeldMeans DEF FramesInv
  <2>2. ASSUME NEW h \in held'
        PROVE  \E j \in 1 .. Len(arenas') : \E l \in Ones(arenas'[j].used) : h = Frame(arenas'[j], l)
    <3>1. h \in held /\ h # addr
      BY <1>7
    <3>2. PICK j \in 1 .. Len(arenas) : \E l \in Ones(arenas[j].used) : h = Frame(arenas[j], l)
      BY <2>1, <3>1
    <3>3. PICK l \in Ones(arenas[j].used) : h = Frame(arenas[j], l)
      BY <3>2
    <3>4. ~ (j = k /\ l = x)
      BY <1>4, <3>1, <3>3
    <3>5. l \in Ones(arenas'[j].used) /\ Frame(arenas'[j], l) = h
      BY <1>6, <1>8, <3>3, <3>4
    <3> QED
      BY <1>8, <3>5
  <2>3. ASSUME NEW j \in 1 .. Len(arenas'), NEW l \in Ones(arenas'[j].used)
        PROVE  Frame(arenas'[j], l) \in held'
    <3>1. j \in 1 .. Len(arenas) /\ l \in Ones(arenas[j].used) /\ ~ (j = k /\ l = x)
          /\ Frame(arenas'[j], l) = Frame(arenas[j], l)
      BY <1>6, <1>8
    <3>2. Frame(arenas[j], l) \in held
      BY <2>1, <3>1
    <3>3. Frame(arenas[j], l) # addr
      <4> SUFFICES ASSUME Frame(arenas[j], l) = Frame(arenas[k], x) PROVE FALSE
        BY <1>4
      <4>1. /\ l \in Nat /\ Frame(arenas[j], l) + PAGE_SIZE <= arenas[j].end
            /\ x \in Nat /\ Frame(arenas[k], x) + PAGE_SIZE <= arenas[k].end
        BY <1>3, <3>1, ArenaType
      <4>2. TypeOK /\ ArenasApart
        BY DEF FramesInv
      <4>3. j = k /\ l = x
        BY <3>1, <4>1, <4>2, FramesApart, ZenonT(30)
      <4> QED
        BY <3>1, <4>3
    <3> QED
      BY <1>7, <3>1, <3>2, <3>3
  <2>4. \A h : h \in held' <=> \E j \in 1 .. Len(arenas') : \E l \in Ones(arenas'[j].used) :
                                h = Frame(arenas'[j], l)
    BY <2>2, <2>3, Zenon
  <2> QED
    BY <2>4, HeldMeansNext
<1> QED
  BY <1>8, <1>9 DEF FramesInv

LEMMA StutterStep ==
  ASSUME FramesInv, UNCHANGED frame_vars
  PROVE  FramesInv'
<1>1. ready' = ready /\ arenas' = arenas /\ held' = held
  BY DEF frame_vars
<1>2. TypeOK'
  BY <1>1 DEF FramesInv, TypeOK
<1>3. ArenasApart'
  BY <1>1 DEF FramesInv, ArenasApart
<1>4. BitsMatchHeld'
  BY <1>1 DEF FramesInv, BitsMatchHeld
<1> QED
  BY <1>1, <1>2, <1>3, <1>4 DEF FramesInv

(* init makes empty arenas of the usable memory, once.                     *)
LEMMA InitStep ==
  ASSUME FramesInv, NEW u \in Usable, init(u)
  PROVE  FramesInv'
<1>1. CASE ready
  BY <1>1, StutterStep DEF init, frame_vars, FramesInv
<1>2. CASE ~ ready
  <2>1. /\ arenas' = [k \in 1 .. Len(u) |-> Arena(u[k])]
        /\ arenas = << >> /\ held' = held /\ ready'
    BY <1>2 DEF init, FramesInv
  <2>2. held = {}
    BY <2>1 DEF FramesInv, BitsMatchHeld
  <2>3. u \in Seq([start : Nat, end : Nat])
    BY UsableAssumption
  <2>4. Len(u) \in Nat /\ \A k \in 1 .. Len(u) : u[k] \in [start : Nat, end : Nat]
    BY <2>3, LenProperties, ElementOfSeq
  <2>5. \A k \in 1 .. Len(u) :
          /\ Arena(u[k]) \in Arenas /\ Ones(Arena(u[k]).used) = {}
          /\ Arena(u[k]).start = u[k].start /\ Arena(u[k]).end = u[k].end
          /\ Arena(u[k]).used.len = NumPages(Arena(u[k])) /\ u[k].start < u[k].end
    <3> SUFFICES ASSUME NEW k \in 1 .. Len(u)
                 PROVE  /\ Arena(u[k]) \in Arenas /\ Ones(Arena(u[k]).used) = {}
                        /\ Arena(u[k]).start = u[k].start /\ Arena(u[k]).end = u[k].end
                        /\ Arena(u[k]).used.len = NumPages(Arena(u[k]))
                        /\ u[k].start < u[k].end
      OBVIOUS
    <3> DEFINE b == EmptyBitmap(u[k])
               n == NumPages(u[k])
    <3>1. u[k].start \in Nat /\ u[k].end \in Nat /\ u[k].start < u[k].end
      BY <2>4, UsableAssumption
    <3>2. u[k].end - u[k].start \in Nat /\ PAGE_SIZE \in Nat \ {0}
      BY <3>1, PagesAssumption
    <3>3. n \in Nat
      BY <3>2, Division DEF NumPages
    <3>4. b \in Bitmaps /\ Ones(b) = {} /\ b.len = n
      BY <3>3, NewIsEmpty DEF EmptyBitmap
    <3>5. Arena(u[k]) = [start |-> u[k].start, end |-> u[k].end, used |-> b]
      BY DEF Arena
    <3> HIDE DEF b, n
    <3>6. /\ Arena(u[k]).start = u[k].start /\ Arena(u[k]).end = u[k].end
          /\ Arena(u[k]).used = b /\ Arena(u[k]) \in Arenas
      BY <3>1, <3>4, <3>5 DEF Arenas
    <3>7. NumPages(Arena(u[k])) = n
      BY <3>6 DEF NumPages, n
    <3> QED
      BY <3>1, <3>4, <3>6, <3>7
  <2>6. arenas' \in [1 .. Len(u) -> Arenas]
    BY <2>1, <2>5
  <2>7. arenas' \in Seq(Arenas) /\ Len(arenas') = Len(u)
    BY <2>4, <2>6, FunctionIsSeq
  <2>8. \A k \in 1 .. Len(arenas') :
          /\ arenas'[k] \in Arenas /\ Ones(arenas'[k].used) = {}
          /\ arenas'[k].start = u[k].start /\ arenas'[k].end = u[k].end
          /\ arenas'[k].used.len = NumPages(arenas'[k]) /\ arenas'[k].start < arenas'[k].end
    BY <2>1, <2>5, <2>7
  <2>9. TypeOK'
    <3>1. \A k \in 1 .. Len(arenas') : \A i \in Bits(arenas'[k]) :
            Frame(arenas'[k], i) + PAGE_SIZE <= arenas'[k].end
      BY <2>8, FrameFits DEF Arenas
    <3> QED
      BY <2>1, <2>2, <2>7, <3>1 DEF TypeOK, Arenas
  <2>10. ArenasApart'
    BY <2>7, <2>8, UsableAssumption DEF ArenasApart
  <2>11. BitsMatchHeld'
    <3>1. \A h : ~ (h \in held') /\ ~ \E k \in 1 .. Len(arenas') : \E i \in Ones(arenas'[k].used) :
                                        h = Frame(arenas'[k], i)
      BY <2>1, <2>2, <2>8
    <3> QED
      BY <3>1, HeldMeansNext
  <2> QED
    BY <2>1, <2>9, <2>10, <2>11 DEF FramesInv
<1> QED
  BY <1>1, <1>2
------------------------------------------------------------------------------
(* The inductive invariant: the bitmaps match what is held because arenas  *)
(* are disjoint and aligned, and they stay so because a bit never stands   *)
(* for anything but its own frame.                                         *)
THEOREM FramesConsistent == Spec => []FramesInv
<1>1. Init => FramesInv
  <2> SUFFICES ASSUME Init PROVE FramesInv
    OBVIOUS
  <2>1. arenas = << >> /\ held = {} /\ ready = FALSE /\ Len(<< >>) = 0
    BY DEF Init
  <2>2. TypeOK
    <3>1. arenas \in Seq([start : Nat, end : Nat, used : Bitmaps])
      BY <2>1, EmptySeq
    <3>2. 1 .. Len(arenas) = {}
      BY <2>1
    <3> QED
      BY <2>1, <3>1, <3>2 DEF TypeOK
  <2>3. ArenasApart /\ BitsMatchHeld
    BY <2>1 DEF ArenasApart, BitsMatchHeld
  <2> QED
    BY <2>1, <2>2, <2>3 DEF FramesInv
<1>2. FramesInv /\ [Next]_frame_vars => FramesInv'
  <2> SUFFICES ASSUME FramesInv, [Next]_frame_vars PROVE FramesInv'
    OBVIOUS
  <2>1. ASSUME NEW u \in Usable, init(u) PROVE FramesInv'
    BY <2>1, InitStep
  <2>2. ASSUME NEW f \in Frames, alloc_frame(f) PROVE FramesInv'
    BY <2>2, AllocStep
  <2>3. ASSUME NEW addr \in FreeArgs, free_frame(addr) PROVE FramesInv'
    BY <2>3, FreeStep, FreeArgsAssumption
  <2>4. CASE UNCHANGED frame_vars
    BY <2>4, StutterStep
  <2> QED
    BY <2>1, <2>2, <2>3, <2>4 DEF Next, alloc_none, free_refused
<1> QED
  BY <1>1, <1>2, PTL DEF Spec

(* Every set bit stands for a page inside its arena.                       *)
THEOREM FrameTypes == Spec => []TypeOK
<1>1. FramesInv => TypeOK
  BY DEF FramesInv
<1> QED
  BY <1>1, FramesConsistent, PTL

(* The bitmaps say exactly which frames are handed out, for every page     *)
(* size, every usable memory and every address passed to free_frame.       *)
THEOREM BitmapsExact == Spec => []BitsMatchHeld
<1>1. FramesInv => BitsMatchHeld
  BY DEF FramesInv
<1> QED
  BY <1>1, FramesConsistent, PTL

(* alloc_frame never hands out a frame that is held.                       *)
THEOREM FramesFresh == Spec => FreshFrames
<1>1. FramesInv /\ [Next]_frame_vars
        => [\A f \in Frames : alloc_frame(f) => f \notin held]_frame_vars
  BY AllocStep
<1> QED
  BY <1>1, FramesConsistent, PTL DEF Spec, FreshFrames
==============================================================================
