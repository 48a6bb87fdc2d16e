---------------------------- MODULE BitmapProofs -----------------------------
(***************************************************************************)
(* What the operations of Bitmap do to the set of its set bits, for every  *)
(* word width and length.                                                  *)
(***************************************************************************)
EXTENDS Bitmap, SequenceTheorems, WellFoundedInduction, TLAPS

(* Division with remainder, as the provers need it spelled out.            *)
LEMMA WordDivision ==
  \A a \in Nat, b \in Nat \ {0} :
    a \div b \in Nat /\ a % b \in 0 .. b - 1 /\ a = (a \div b) * b + (a % b)
OBVIOUS

LEMMA WordMultiples ==
  \A b \in Nat \ {0}, m, n \in Nat :
    m * b \in Nat /\ (m + 1 <= n => m * b + b <= n * b)
OBVIOUS

LEMMA SmallestExists ==
  ASSUME NEW T \in SUBSET Nat, T # {}
  PROVE  \E x \in T : \A y \in T : x <= y
<1>1. \E x \in T : \A y \in T : ~ (<<y, x>> \in OpToRel(<, Nat))
  BY NatLessThanWellFounded, WFMin
<1>2. PICK x \in T : \A y \in T : ~ (<<y, x>> \in OpToRel(<, Nat))
  BY <1>1
<1>3. \A y \in T : ~ (y < x)
  BY <1>2 DEF OpToRel
<1> QED
  BY <1>3

(* A quotient and a remainder determine each other.                        *)
LEMMA DivisionUnique ==
  ASSUME NEW b \in Nat \ {0}, NEW q \in Nat, NEW r \in 0 .. b - 1,
         NEW p \in Nat, NEW s \in 0 .. b - 1, q * b + r = p * b + s
  PROVE  q = p /\ r = s
<1> DEFINE x == q * b
           y == p * b
<1>1. x \in Nat /\ y \in Nat /\ x + r = y + s
  BY WordMultiples
<1>2. (q + 1 <= p => x + b <= y) /\ (p + 1 <= q => y + b <= x)
  BY WordMultiples
<1>3. q = p => x = y
  OBVIOUS
<1> HIDE DEF x, y
<1>4. ~ (q + 1 <= p) /\ ~ (p + 1 <= q)
  BY <1>1, <1>2
<1>5. q = p
  BY <1>4
<1> QED
  BY <1>1, <1>3, <1>5

(* Word and bit of an index, and back.                                     *)
LEMMA IndexOfSplit ==
  ASSUME NEW i \in Nat
  PROVE  /\ WordOf(i) \in Nat \ {0} /\ BitOf(i) \in BitPositions
         /\ IndexAt(WordOf(i), BitOf(i)) = i
<1> DEFINE q == i \div BITS_PER_WORD
           r == i % BITS_PER_WORD
<1>1. q \in Nat /\ r \in 0 .. BITS_PER_WORD - 1 /\ i = q * BITS_PER_WORD + r
  BY WordAssumption, WordDivision
<1>2. (q + 1) - 1 = q
  BY <1>1
<1> QED
  BY <1>1, <1>2 DEF WordOf, BitOf, IndexAt, BitPositions

LEMMA SplitOfIndex ==
  ASSUME NEW w \in Nat \ {0}, NEW t \in BitPositions
  PROVE  /\ IndexAt(w, t) \in Nat
         /\ WordOf(IndexAt(w, t)) = w /\ BitOf(IndexAt(w, t)) = t
<1> DEFINE v == w - 1
           i == IndexAt(w, t)
<1>1. v \in Nat /\ t \in 0 .. BITS_PER_WORD - 1 /\ i = v * BITS_PER_WORD + t
  BY DEF BitPositions, IndexAt
<1>2. BITS_PER_WORD \in Nat \ {0}
  BY WordAssumption
<1>3. i \in Nat
  <2>1. v * BITS_PER_WORD \in Nat
    BY <1>1, <1>2, WordMultiples
  <2> QED
    BY <1>1, <1>2, <2>1
<1> DEFINE q == i \div BITS_PER_WORD
           r == i % BITS_PER_WORD
<1>4. q \in Nat /\ r \in 0 .. BITS_PER_WORD - 1 /\ i = q * BITS_PER_WORD + r
  BY <1>2, <1>3, WordDivision
<1> HIDE DEF i, q, r
<1>5. q = v /\ r = t
  BY <1>1, <1>2, <1>4, DivisionUnique
<1>6. v + 1 = w
  OBVIOUS
<1> QED
  BY <1>3, <1>5, <1>6 DEF q, r, i, WordOf, BitOf

(* The order of indices is that of their words, then of their bits.        *)
LEMMA IndexOrder ==
  ASSUME NEW w \in Nat \ {0}, NEW t \in BitPositions,
         NEW v \in Nat \ {0}, NEW u \in BitPositions
  PROVE  /\ w < v => IndexAt(w, t) < IndexAt(v, u)
         /\ w = v => (IndexAt(w, t) <= IndexAt(v, u) <=> t <= u)
<1> DEFINE x == (w - 1) * BITS_PER_WORD
           y == (v - 1) * BITS_PER_WORD
<1>1. x \in Nat /\ y \in Nat /\ (w < v => x + BITS_PER_WORD <= y) /\ (w = v => x = y)
  <2>1. w - 1 \in Nat /\ v - 1 \in Nat /\ (w < v => (w - 1) + 1 <= v - 1)
    OBVIOUS
  <2> QED
    BY <2>1, WordMultiples, WordAssumption
<1> HIDE DEF x, y
<1>2. t \in Nat /\ u \in Nat /\ t < BITS_PER_WORD /\ BITS_PER_WORD \in Nat
  BY WordAssumption DEF BitPositions
<1>3. (w < v => x + t < y + u) /\ (w = v => (x + t <= y + u <=> t <= u))
  BY <1>1, <1>2
<1> QED
  BY <1>3 DEF IndexAt, x, y

(* An index below the length has its word.                                 *)
LEMMA WordExists ==
  ASSUME NEW len \in Nat
  PROVE  /\ WordCount(len) \in Nat
         /\ \A i \in 0 .. len - 1 : WordOf(i) \in 1 .. WordCount(len)
<1> DEFINE W == BITS_PER_WORD
           n == len + W - 1
           c == n \div W
<1>1. W \in Nat \ {0} /\ n \in Nat
  BY WordAssumption
<1>2. c \in Nat /\ n % W \in 0 .. W - 1 /\ n = c * W + (n % W)
  BY <1>1, WordDivision
<1>3. ASSUME NEW i \in 0 .. len - 1
      PROVE  WordOf(i) \in 1 .. c
  <2> DEFINE q == i \div W
             r == i % W
  <2>0. i \in Nat
    BY <1>3
  <2>1. q \in Nat /\ r \in 0 .. W - 1 /\ i = q * W + r
    <3> HIDE DEF n, c, W
    <3> QED
      BY <1>1, <2>0, WordDivision
  <2>2. q * W \in Nat /\ c * W \in Nat /\ (c + 1 <= q + 1 => c <= q)
    BY <1>1, <1>2, <2>1, WordMultiples
  <2>3. c <= q => c * W <= q * W
    <3>1. c + 1 <= q => c * W + W <= q * W
      BY <1>1, <1>2, <2>1, WordMultiples
    <3>2. c = q => c * W = q * W
      OBVIOUS
    <3> DEFINE x == q * W
               y == c * W
    <3>3. x \in Nat /\ y \in Nat
      BY <2>2
    <3> HIDE DEF c, q, x, y
    <3>4. (c + 1 <= q => y + W <= x) /\ (c = q => y = x)
      BY <3>1, <3>2 DEF x, y
    <3>5. c <= q => y <= x
      BY <1>1, <1>2, <2>1, <3>3, <3>4
    <3> QED
      BY <3>5 DEF x, y
  <2>4. i + 1 <= len
    BY <1>3
  <2>5. ASSUME c * W <= q * W PROVE FALSE
    <3> DEFINE x == q * W
               y == c * W
               z == n % W
    <3>1. x \in Nat /\ y \in Nat /\ z \in 0 .. W - 1 /\ y <= x
          /\ i = x + r /\ len + W - 1 = y + z
      BY <1>2, <2>1, <2>2, <2>5
    <3> HIDE DEF x, y, z, q, r, n, W
    <3>2. r \in Nat
      BY <2>1, <1>1
    <3> QED
      BY <1>1, <2>4, <3>1, <3>2
  <2>6. q + 1 <= c
    BY <1>2, <2>1, <2>3, <2>5
  <2> QED
    BY <1>2, <2>1, <2>6 DEF WordOf
<1> QED
  BY <1>2, <1>3 DEF WordCount

(* The last word of a bitmap is the one its length falls into, or the one  *)
(* before it.                                                              *)
LEMMA WordCountIs ==
  ASSUME NEW len \in Nat
  PROVE  /\ BitOf(len) # 0 => WordCount(len) = WordOf(len)
         /\ BitOf(len) = 0 => WordCount(len) = WordOf(len) - 1
<1> DEFINE W == BITS_PER_WORD
           q == len \div W
           r == len % W
           n == len + W - 1
           c == n \div W
           z == n % W
<1>1. W \in Nat \ {0} /\ n \in Nat
  BY WordAssumption
<1>2. q \in Nat /\ r \in 0 .. W - 1 /\ len = q * W + r
  <2> HIDE DEF W
  <2> QED
    BY <1>1, WordDivision
<1>3. c \in Nat /\ z \in 0 .. W - 1 /\ n = c * W + z
  <2> HIDE DEF n, W
  <2> QED
    BY <1>1, WordDivision
<1> HIDE DEF q, r, c, z
<1>4. q * W \in Nat /\ c * W \in Nat /\ (q + 1) * W = q * W + W
  BY <1>1, <1>2, <1>3
<1>5. r # 0 => c = q + 1
  <2>1. SUFFICES ASSUME r # 0 PROVE (q + 1) * W + (r - 1) = c * W + z
    BY <1>1, <1>2, <1>3, DivisionUnique
  <2>2. n = (q * W + r) + W - 1
    BY <1>2
  <2> QED
    BY <1>1, <1>2, <1>3, <1>4, <2>2
<1>6. r = 0 => c = q
  <2>1. SUFFICES ASSUME r = 0 PROVE q * W + (W - 1) = c * W + z
    BY <1>1, <1>2, <1>3, DivisionUnique
  <2>2. n = (q * W + r) + W - 1
    BY <1>2
  <2> QED
    BY <1>1, <1>2, <1>3, <1>4, <2>1, <2>2
<1> QED
  BY <1>2, <1>5, <1>6 DEF WordCount, WordOf, BitOf, q, r, c
------------------------------------------------------------------------------
(* The words of a bitmap, and the word of one of its bits.                 *)
LEMMA BitmapType ==
  ASSUME NEW b \in Bitmaps
  PROVE  /\ b.len \in Nat /\ b.words \in Seq(Word)
         /\ b.words \in [1 .. WordCount(b.len) -> Word]
         /\ Len(b.words) = WordCount(b.len) /\ WordCount(b.len) \in Nat
<1>1. b.len \in Nat /\ b.words \in Seq(Word) /\ Len(b.words) = WordCount(b.len)
  BY DEF Bitmaps
<1>2. b.words \in [1 .. Len(b.words) -> Word] /\ Len(b.words) \in Nat
  BY <1>1, LenProperties
<1> QED
  BY <1>1, <1>2

(* A function on the word numbers makes a bitmap.                          *)
LEMMA BitmapOf ==
  ASSUME NEW len \in Nat, NEW words \in [1 .. WordCount(len) -> Word]
  PROVE  [len |-> len, words |-> words] \in Bitmaps
<1>1. WordCount(len) \in Nat
  BY WordExists
<1>2. words \in Seq(Word)
  BY <1>1, SeqDef
<1>3. 1 .. WordCount(len) = 1 .. Len(words) /\ Len(words) \in Nat
  BY <1>2, LenProperties
<1>4. Len(words) = WordCount(len)
  BY <1>1, <1>3
<1> QED
  BY <1>2, <1>4 DEF Bitmaps

(* Bitmap::new has no set bit.                                             *)
THEOREM NewIsEmpty ==
  ASSUME NEW len \in Nat
  PROVE  new(len) \in Bitmaps /\ Ones(new(len)) = {} /\ new(len).len = len
<1> DEFINE ws == [w \in 1 .. WordCount(len) |-> {}]
<1>1. ws \in [1 .. WordCount(len) -> Word]
  BY DEF Word
<1>2. new(len) = [len |-> len, words |-> ws]
  BY DEF new
<1> HIDE DEF ws
<1>3. new(len) \in Bitmaps
  BY <1>1, <1>2, BitmapOf
<1>4. \A i \in 0 .. len - 1 : WordOf(i) \in 1 .. WordCount(len)
  BY WordExists
<1>5. \A i \in 0 .. len - 1 : ws[WordOf(i)] = {}
  BY <1>4 DEF ws
<1>6. new(len).len = len /\ new(len).words = ws
  BY <1>2
<1>7. Ones(new(len)) = {}
  BY <1>5, <1>6 DEF Ones, is_set
<1> QED
  BY <1>3, <1>6, <1>7

(* Two words of two indices: another index is another bit.                 *)
LEMMA OtherBit ==
  ASSUME NEW i \in Nat, NEW j \in Nat, WordOf(i) = WordOf(j), BitOf(i) = BitOf(j)
  PROVE  i = j
<1>1. IndexAt(WordOf(i), BitOf(i)) = i /\ IndexAt(WordOf(j), BitOf(j)) = j
  BY IndexOfSplit
<1> QED
  BY <1>1

(* Bitmap::set sets one bit, and no other bit of its word or of another.   *)
THEOREM SetExact ==
  ASSUME NEW b \in Bitmaps, NEW i \in 0 .. b.len - 1
  PROVE  /\ set(b, i) \in Bitmaps /\ set(b, i).len = b.len
         /\ Ones(set(b, i)) = Ones(b) \cup {i}
<1> DEFINE w == WordOf(i)
           ws == [b.words EXCEPT ![w] = @ \cup {BitOf(i)}]
<1>1. b.len \in Nat /\ b.words \in [1 .. WordCount(b.len) -> Word]
  BY BitmapType
<1>2. i \in Nat /\ w \in 1 .. WordCount(b.len) /\ BitOf(i) \in BitPositions
  <2>1. i \in Nat
    BY <1>1
  <2> QED
    BY <1>1, <2>1, WordExists, IndexOfSplit
<1>3. ws \in [1 .. WordCount(b.len) -> Word]
  BY <1>1, <1>2 DEF Word
<1>4. set(b, i) = [len |-> b.len, words |-> ws]
  BY DEF set
<1>5. set(b, i) \in Bitmaps
  BY <1>1, <1>3, <1>4, BitmapOf
<1>6. set(b, i).len = b.len /\ set(b, i).words = ws
  BY <1>4
<1>7. ASSUME NEW j \in 0 .. b.len - 1
      PROVE  BitOf(j) \in ws[WordOf(j)] <=> (BitOf(j) \in b.words[WordOf(j)] \/ j = i)
  <2>1. j \in Nat /\ WordOf(j) \in 1 .. WordCount(b.len)
    <3>1. b.len \in Nat
      BY <1>1
    <3>2. j \in Nat
      BY <3>1
    <3>3. WordOf(j) \in 1 .. WordCount(b.len)
      BY <3>1, WordExists
    <3> QED
      BY <3>2, <3>3
  <2>2. ws[WordOf(j)] = IF WordOf(j) = w THEN b.words[w] \cup {BitOf(i)} ELSE b.words[WordOf(j)]
    BY <1>1, <1>2, <2>1
  <2>3. WordOf(j) = w /\ BitOf(j) = BitOf(i) => j = i
    BY <1>2, <2>1, OtherBit
  <2> HIDE DEF ws
  <2> QED
    BY <2>2, <2>3
<1> HIDE DEF ws
<1>8. \A j : j \in Ones(set(b, i)) <=> j \in Ones(b) \/ j = i
  BY <1>6, <1>7 DEF Ones, is_set
<1> QED
  BY <1>5, <1>6, <1>8

(* Bitmap::unset clears one bit.                                           *)
THEOREM UnsetExact ==
  ASSUME NEW b \in Bitmaps, NEW i \in 0 .. b.len - 1
  PROVE  /\ unset(b, i) \in Bitmaps /\ unset(b, i).len = b.len
         /\ Ones(unset(b, i)) = Ones(b) \ {i}
<1> DEFINE w == WordOf(i)
           ws == [b.words EXCEPT ![w] = @ \ {BitOf(i)}]
<1>1. b.len \in Nat /\ b.words \in [1 .. WordCount(b.len) -> Word]
  BY BitmapType
<1>2. i \in Nat /\ w \in 1 .. WordCount(b.len) /\ BitOf(i) \in BitPositions
  <2>1. i \in Nat
    BY <1>1
  <2> QED
    BY <1>1, <2>1, WordExists, IndexOfSplit
<1>3. ws \in [1 .. WordCount(b.len) -> Word]
  BY <1>1, <1>2 DEF Word
<1>4. unset(b, i) = [len |-> b.len, words |-> ws]
  BY DEF unset
<1>5. unset(b, i) \in Bitmaps
  BY <1>1, <1>3, <1>4, BitmapOf
<1>6. unset(b, i).len = b.len /\ unset(b, i).words = ws
  BY <1>4
<1>7. ASSUME NEW j \in 0 .. b.len - 1
      PROVE  BitOf(j) \in ws[WordOf(j)] <=> (BitOf(j) \in b.words[WordOf(j)] /\ j # i)
  <2>1. j \in Nat /\ WordOf(j) \in 1 .. WordCount(b.len)
    <3>1. b.len \in Nat
      BY <1>1
    <3>2. j \in Nat
      BY <3>1
    <3>3. WordOf(j) \in 1 .. WordCount(b.len)
      BY <3>1, WordExists
    <3> QED
      BY <3>2, <3>3
  <2>2. ws[WordOf(j)] = IF WordOf(j) = w THEN b.words[w] \ {BitOf(i)} ELSE b.words[WordOf(j)]
    BY <1>1, <1>2, <2>1
  <2>3. WordOf(j) = w /\ BitOf(j) = BitOf(i) => j = i
    BY <1>2, <2>1, OtherBit
  <2> HIDE DEF ws
  <2> QED
    BY <2>2, <2>3
<1> HIDE DEF ws
<1>8. \A j : j \in Ones(unset(b, i)) <=> j \in Ones(b) /\ j # i
  BY <1>6, <1>7 DEF Ones, is_set
<1> QED
  BY <1>5, <1>6, <1>8

(* Bitmap::from_words keeps the bits below the length and clears padding,  *)
(* whatever the words on disk held.                                        *)
THEOREM FromWordsMasks ==
  ASSUME NEW len \in Nat, NEW words \in Seq(Word), ~ InvalidWordCount(len, words)
  PROVE  /\ from_words(len, words) \in Bitmaps
         /\ \A w \in 1 .. WordCount(len) : from_words(len, words).words[w] \subseteq words[w]
         /\ \A i \in 0 .. len - 1 : i \in Ones(from_words(len, words))
                                   <=> BitOf(i) \in words[WordOf(i)]
         /\ PaddingClear(from_words(len, words))
<1> DEFINE n == WordCount(len)
           ms == Masked(len, words)
           r == BitOf(len)
<1>1. n \in Nat /\ words \in [1 .. n -> Word] /\ Len(words) = n
  BY WordExists, LenProperties DEF InvalidWordCount
<1>2. r \in BitPositions /\ WordOf(len) \in Nat \ {0} /\ IndexAt(WordOf(len), r) = len
  BY IndexOfSplit
<1>3. \A w \in 1 .. n : ms[w] = IF w = n /\ r # 0 THEN words[w] \cap (0 .. r - 1) ELSE words[w]
  BY <1>1 DEF Masked
<1>4. ms \in [1 .. n -> Word]
  BY <1>1 DEF Masked, Word
<1>5. from_words(len, words) = [len |-> len, words |-> ms]
  BY DEF from_words
<1> HIDE DEF ms
<1>6. from_words(len, words) \in Bitmaps
  BY <1>4, <1>5, BitmapOf
<1>7. /\ from_words(len, words).len = len /\ from_words(len, words).words = ms
      /\ Len(ms) = n
  BY <1>5, <1>6, BitmapType
<1>8. \A w \in 1 .. n : ms[w] \subseteq words[w]
  BY <1>3
(* The last word is the one that len falls into, or the one before it.     *)
<1>9. (r # 0 => n = WordOf(len)) /\ (r = 0 => n = WordOf(len) - 1)
  BY WordCountIs
<1>10. ASSUME NEW i \in 0 .. len - 1
       PROVE  BitOf(i) \in ms[WordOf(i)] <=> BitOf(i) \in words[WordOf(i)]
  <2>1. /\ i \in Nat /\ WordOf(i) \in 1 .. n /\ BitOf(i) \in BitPositions
        /\ IndexAt(WordOf(i), BitOf(i)) = i
    <3>1. i \in Nat
      OBVIOUS
    <3> QED
      BY <3>1, WordExists, IndexOfSplit
  <2>2. ASSUME WordOf(i) = n, r # 0 PROVE BitOf(i) \in 0 .. r - 1
    <3>1. WordOf(i) = WordOf(len) /\ ~ (len <= i)
      BY <1>9, <2>2
    <3>2. ~ (r <= BitOf(i))
      BY <1>2, <2>1, <3>1, IndexOrder
    <3> QED
      BY <1>2, <2>1, <3>2, WordAssumption DEF BitPositions
  <2> QED
    BY <1>3, <2>1, <2>2
<1>11. ASSUME NEW w \in 1 .. n, NEW t \in ms[w] PROVE IndexAt(w, t) < len
  <2>1. t \in BitPositions /\ w \in Nat \ {0}
    BY <1>1, <1>4 DEF Word
  <2>2. CASE w < WordOf(len)
    BY <1>2, <2>1, <2>2, IndexOrder
  <2>3. CASE ~ (w < WordOf(len))
    <3>1. w = n /\ r # 0 /\ w = WordOf(len)
      BY <1>1, <1>2, <1>9, <2>1, <2>3
    <3>2. t \in 0 .. r - 1
      BY <1>3, <3>1
    <3>3. ~ (r <= t)
      BY <1>2, <2>1, <3>2, WordAssumption DEF BitPositions
    <3>4. ~ (IndexAt(WordOf(len), r) <= IndexAt(w, t))
      BY <1>2, <2>1, <3>1, <3>3, IndexOrder
    <3>5. IndexAt(w, t) \in Nat
      BY <2>1, SplitOfIndex
    <3> QED
      BY <1>2, <3>4, <3>5
  <2> QED
    BY <2>2, <2>3
<1>12. PaddingClear(from_words(len, words))
  BY <1>7, <1>11 DEF PaddingClear
<1>13. \A i \in 0 .. len - 1 : i \in Ones(from_words(len, words))
                               <=> BitOf(i) \in words[WordOf(i)]
  BY <1>7, <1>10 DEF Ones, is_set
<1> QED
  BY <1>6, <1>7, <1>8, <1>12, <1>13

(* What word and position say of an index, and the other way round.        *)
LEMMA BitAt ==
  ASSUME NEW b \in Bitmaps, NEW i \in 0 .. b.len - 1
  PROVE  /\ i \in Nat /\ WordOf(i) \in 1 .. Len(b.words) /\ BitOf(i) \in BitPositions
         /\ IndexAt(WordOf(i), BitOf(i)) = i
         /\ i \in Ones(b) <=> BitOf(i) \in b.words[WordOf(i)]
<1>1. b.len \in Nat /\ i \in Nat /\ Len(b.words) = WordCount(b.len)
  BY BitmapType
<1> QED
  BY <1>1, WordExists, IndexOfSplit DEF Ones, is_set

LEMMA IndexBit ==
  ASSUME NEW b \in Bitmaps, NEW w \in 1 .. Len(b.words), NEW t \in BitPositions,
         IndexAt(w, t) < b.len
  PROVE  /\ IndexAt(w, t) \in 0 .. b.len - 1
         /\ IndexAt(w, t) \in Ones(b) <=> t \in b.words[w]
<1>1. b.len \in Nat /\ Len(b.words) \in Nat
  BY BitmapType
<1>2. /\ w \in Nat \ {0} /\ IndexAt(w, t) \in Nat
      /\ WordOf(IndexAt(w, t)) = w /\ BitOf(IndexAt(w, t)) = t
  BY <1>1, SplitOfIndex
<1> QED
  BY <1>1, <1>2, BitAt

(* Bitmap::find_free returns the lowest clear bit.                         *)
THEOREM FindFreeLowest ==
  ASSUME NEW b \in Bitmaps, NEW i, finds_free(b, i)
  PROVE  i \in (0 .. b.len - 1) \ Ones(b) /\ \A j \in (0 .. b.len - 1) \ Ones(b) : i <= j
<1>1. PICK w \in 1 .. Len(b.words), t \in BitPositions :
        FirstClear(b, w, t) /\ i = IndexAt(w, t) /\ i < b.len
  BY DEF finds_free
<1>2. t \notin b.words[w]
  BY <1>1 DEF FirstClear, IsLowestIn
<1>3. i \in (0 .. b.len - 1) \ Ones(b)
  BY <1>1, <1>2, IndexBit
<1>4. ASSUME NEW j \in (0 .. b.len - 1) \ Ones(b) PROVE i <= j
  <2>1. /\ j \in 0 .. b.len - 1 /\ WordOf(j) \in 1 .. Len(b.words)
        /\ BitOf(j) \in BitPositions \ b.words[WordOf(j)]
        /\ IndexAt(WordOf(j), BitOf(j)) = j
    BY BitAt
  <2>2. /\ b.words[WordOf(j)] # BitPositions /\ ~ (WordOf(j) \in 1 .. w - 1)
        /\ WordOf(j) = w => t <= BitOf(j)
    BY <1>1, <2>1 DEF FirstClear, IsLowestIn
  <2>3. w \in Nat \ {0} /\ WordOf(j) \in Nat \ {0} /\ (w < WordOf(j) \/ w = WordOf(j))
    BY <2>1, <2>2, BitmapType
  <2>4. /\ w < WordOf(j) => IndexAt(w, t) < IndexAt(WordOf(j), BitOf(j))
        /\ w = WordOf(j) => IndexAt(w, t) <= IndexAt(WordOf(j), BitOf(j))
    BY <2>1, <2>2, <2>3, IndexOrder
  <2>5. i \in Nat /\ j \in Nat
    BY <1>3, <2>1
  <2> QED
    BY <1>1, <2>1, <2>3, <2>4, <2>5
<1> QED
  BY <1>3, <1>4

LEMMA ClearBitIsFound ==
  ASSUME NEW b \in Bitmaps, \E i \in (0 .. b.len - 1) : i \notin Ones(b)
  PROVE  ~ finds_none(b)
<1> DEFINE Clear(w) == BitPositions \ b.words[w]
           ws == {w \in 1 .. Len(b.words) : Clear(w) # {}}
<1>1. PICK i \in 0 .. b.len - 1 : i \notin Ones(b)
  OBVIOUS
<1>2. WordOf(i) \in ws /\ BitOf(i) \in Clear(WordOf(i)) /\ IndexAt(WordOf(i), BitOf(i)) = i
  BY <1>1, BitAt
<1>3. ws \in SUBSET Nat /\ ws # {}
  BY <1>2, BitmapType
<1>4. PICK w \in ws : \A v \in ws : w <= v
  BY <1>3, SmallestExists
<1>5. Clear(w) \in SUBSET Nat /\ Clear(w) # {}
  BY WordAssumption DEF BitPositions
<1>6. PICK t \in Clear(w) : \A u \in Clear(w) : t <= u
  BY <1>5, SmallestExists
<1>7. w \in Nat \ {0} /\ w \in 1 .. Len(b.words) /\ t \in BitPositions
  BY BitmapType
<1>8. ASSUME NEW v \in 1 .. w - 1 PROVE b.words[v] = BitPositions
  <2>1. v \in 1 .. Len(b.words) /\ ~ (w <= v)
    BY <1>7, BitmapType
  <2>2. b.words[v] \subseteq BitPositions
    BY <2>1, BitmapType DEF Word
  <2>3. v \notin ws
    BY <1>4, <2>1
  <2> QED
    BY <2>1, <2>2, <2>3
<1>9. FirstClear(b, w, t)
  BY <1>6, <1>8 DEF FirstClear, IsLowestIn
<1>10. /\ w < WordOf(i) \/ (w = WordOf(i) /\ t <= BitOf(i))
       /\ WordOf(i) \in Nat \ {0} /\ BitOf(i) \in BitPositions
  BY <1>2, <1>3, <1>4, <1>6, <1>7, BitmapType
<1>11. IndexAt(w, t) <= i /\ IndexAt(w, t) \in Nat
  BY <1>2, <1>7, <1>10, IndexOrder, SplitOfIndex, SMTT(20)
<1>12. ~ (IndexAt(w, t) >= b.len)
  BY <1>11, BitmapType
<1> QED
  BY <1>7, <1>9, <1>12 DEF finds_none

(* Bitmap::find_free returns None exactly when every bit is set.           *)
THEOREM FindsNoneIsFull ==
  ASSUME NEW b \in Bitmaps
  PROVE  finds_none(b) <=> (0 .. b.len - 1) \subseteq Ones(b)
<1>1. finds_none(b) => (0 .. b.len - 1) \subseteq Ones(b)
  BY ClearBitIsFound
<1>2. ASSUME (0 .. b.len - 1) \subseteq Ones(b),
             NEW w \in 1 .. Len(b.words), NEW t \in BitPositions, FirstClear(b, w, t)
      PROVE  IndexAt(w, t) >= b.len
  <2>1. t \notin b.words[w] /\ ~ (IndexAt(w, t) < b.len)
    BY <1>2, IndexBit DEF FirstClear, IsLowestIn
  <2>2. w \in Nat \ {0} /\ b.len \in Nat
    BY BitmapType
  <2>3. IndexAt(w, t) \in Nat
    BY <2>2, SplitOfIndex
  <2> QED
    BY <2>1, <2>2, <2>3
<1> QED
  BY <1>1, <1>2 DEF finds_none

(* drain_ones yields a set bit that is lowest, provided that from_words    *)
(* has cleared the padding.                                                *)
THEOREM DrainsLowest ==
  ASSUME NEW b \in Bitmaps, PaddingClear(b), NEW i, drains(b, i)
  PROVE  i \in Ones(b) /\ \A j \in Ones(b) : i <= j
<1>1. PICK w \in 1 .. Len(b.words), t \in BitPositions : FirstSet(b, w, t) /\ i = IndexAt(w, t)
  BY DEF drains
<1>2. t \in b.words[w] /\ i < b.len
  BY <1>1 DEF FirstSet, IsLowestIn, PaddingClear
<1>3. i \in Ones(b) /\ i \in 0 .. b.len - 1
  BY <1>1, <1>2, IndexBit
<1>4. ASSUME NEW j \in Ones(b) PROVE i <= j
  <2>1. /\ j \in 0 .. b.len - 1 /\ WordOf(j) \in 1 .. Len(b.words)
        /\ BitOf(j) \in BitPositions /\ BitOf(j) \in b.words[WordOf(j)]
        /\ IndexAt(WordOf(j), BitOf(j)) = j
    <3>1. j \in 0 .. b.len - 1
      BY DEF Ones
    <3> QED
      BY <3>1, BitAt
  <2>2. /\ b.words[WordOf(j)] # {} /\ ~ (WordOf(j) \in 1 .. w - 1)
        /\ WordOf(j) = w => t <= BitOf(j)
    BY <1>1, <2>1 DEF FirstSet, IsLowestIn
  <2>3. w \in Nat \ {0} /\ WordOf(j) \in Nat \ {0} /\ (w < WordOf(j) \/ w = WordOf(j))
    BY <2>1, <2>2, BitmapType
  <2>4. /\ w < WordOf(j) => IndexAt(w, t) < IndexAt(WordOf(j), BitOf(j))
        /\ w = WordOf(j) => IndexAt(w, t) <= IndexAt(WordOf(j), BitOf(j))
    BY <2>1, <2>2, <2>3, IndexOrder
  <2>5. i \in Nat /\ j \in Nat
    BY <1>3, <2>1
  <2> QED
    BY <1>1, <2>1, <2>3, <2>4, <2>5
<1> QED
  BY <1>3, <1>4
==============================================================================
