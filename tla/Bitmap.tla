------------------------------- MODULE Bitmap --------------------------------
(***************************************************************************)
(* The bitmap under the frame allocator, the filesystem and its cache      *)
(* (bitmap/src): len bits in words, a word being the set of its set bits.  *)
(* Indices out of bounds are an assertion failure and are not passed.      *)
(***************************************************************************)
EXTENDS Integers, Sequences

CONSTANT BITS_PER_WORD

ASSUME WordAssumption == BITS_PER_WORD \in Nat \ {0}

BitPositions == 0 .. BITS_PER_WORD - 1
Word == SUBSET BitPositions
WordCount(len) == (len + BITS_PER_WORD - 1) \div BITS_PER_WORD

Bitmaps == {b \in [len : Nat, words : Seq(Word)] : Len(b.words) = WordCount(b.len)}

WordOf(i) == i \div BITS_PER_WORD + 1
BitOf(i) == i % BITS_PER_WORD
IndexAt(w, t) == (w - 1) * BITS_PER_WORD + t
------------------------------------------------------------------------------
new(len) == [len |-> len, words |-> [w \in 1 .. WordCount(len) |-> {}]]

(* The bits of the last word beyond the end are padding.                   *)
Masked(len, words) ==
  [w \in 1 .. Len(words) |->
     IF w = Len(words) /\ BitOf(len) # 0 THEN words[w] \cap (0 .. BitOf(len) - 1)
                                         ELSE words[w]]
InvalidWordCount(len, words) == Len(words) # WordCount(len)
from_words(len, words) == [len |-> len, words |-> Masked(len, words)]

set(b, i) ==
  [len |-> b.len, words |-> [b.words EXCEPT ![WordOf(i)] = @ \cup {BitOf(i)}]]
unset(b, i) ==
  [len |-> b.len, words |-> [b.words EXCEPT ![WordOf(i)] = @ \ {BitOf(i)}]]
is_set(b, i) == BitOf(i) \in b.words[WordOf(i)]

(* trailing_zeros of the complement, and of the word itself.               *)
IsLowestIn(t, word) == t \in word /\ \A u \in word : t <= u
FirstClear(b, w, t) ==
  /\ \A v \in 1 .. w - 1 : b.words[v] = BitPositions
  /\ IsLowestIn(t, BitPositions \ b.words[w])
FirstSet(b, w, t) ==
  /\ \A v \in 1 .. w - 1 : b.words[v] = {}
  /\ IsLowestIn(t, b.words[w])

(* find_free returns Some(i), and None.                                    *)
finds_free(b, i) ==
  i < b.len /\ \E w \in 1 .. Len(b.words), t \in BitPositions :
                 FirstClear(b, w, t) /\ i = IndexAt(w, t)
finds_none(b) ==
  \A w \in 1 .. Len(b.words), t \in BitPositions :
    FirstClear(b, w, t) => IndexAt(w, t) >= b.len

(* The iterator of drain_ones yields i and unsets it.                      *)
drains(b, i) ==
  \E w \in 1 .. Len(b.words), t \in BitPositions : FirstSet(b, w, t) /\ i = IndexAt(w, t)
------------------------------------------------------------------------------
(* What a bitmap stands for.                                               *)
Ones(b) == {i \in 0 .. b.len - 1 : is_set(b, i)}

PaddingClear(b) ==
  \A w \in 1 .. Len(b.words) : \A t \in b.words[w] : IndexAt(w, t) < b.len
==============================================================================
