------------------------------- MODULE Bitmap -------------------------------
(***************************************************************************)
(* kernel/lib/bitmap.c: sets, clears and searches for runs of bits that    *)
(* cross word boundaries.  A word is the set of its bits that are 1.       *)
(* `bits' keeps what the caller asked for, as one set.                     *)
(***************************************************************************)
EXTENDS Integers, FiniteSetsExt

CONSTANTS BITS_PER_WORD, word_count, MaxLen
SizeAssumption == {BITS_PER_WORD, word_count, MaxLen} \subseteq Nat \ {0}

VARIABLES words, bits
vars == <<words, bits>>

BitCount == BITS_PER_WORD * word_count
Word == 0..(BITS_PER_WORD - 1)
Words == 0..(word_count - 1)

Init == words = [k \in Words |-> {}] /\ bits = {}

-----------------------------------------------------------------------------
\* make_bitmask for word k in the loops over offset, len: the bit offset is
\* that of the start in the first word, and 0 in the others.
make_bitmask(offset, len, k) ==
  LET first == offset \div BITS_PER_WORD
      done == IF k = first THEN 0
              ELSE (k - first) * BITS_PER_WORD - (offset % BITS_PER_WORD)
      from == IF k = first THEN offset % BITS_PER_WORD ELSE 0
  IN {i \in Word : k >= first /\ from <= i /\ i < from + len - done}

bitmap_set_bits(offset, len) ==
  /\ words' = [k \in Words |-> words[k] \cup make_bitmask(offset, len, k)]
  /\ bits' = bits \cup ((offset..(offset + len - 1)) \cap (0..(BitCount - 1)))
bitmap_clear_bits(offset, len) ==
  /\ words' = [k \in Words |-> words[k] \ make_bitmask(offset, len, k)]
  /\ bits' = bits \ (offset..(offset + len - 1))
bitmap_set_bit(offset) ==
  /\ words' = [words EXCEPT ![offset \div BITS_PER_WORD] = @ \cup {offset % BITS_PER_WORD}]
  /\ bits' = bits \cup {offset}
bitmap_clear_bit(offset) ==
  /\ words' = [words EXCEPT ![offset \div BITS_PER_WORD] = @ \ {offset % BITS_PER_WORD}]
  /\ bits' = bits \ {offset}

Next ==
  \E offset \in 0..(BitCount - 1) :
    \/ \E len \in 0..MaxLen : bitmap_set_bits(offset, len) \/ bitmap_clear_bits(offset, len)
    \/ bitmap_set_bit(offset)
    \/ bitmap_clear_bit(offset)

Spec == Init /\ [][Next]_vars

-----------------------------------------------------------------------------
(***************************************************************************)
(* The searches.  -1 is "not found".                                       *)
(***************************************************************************)
MinOr(S) == IF S = {} THEN -1 ELSE Min(S)

findfirstsetbit(word, startpos) == MinOr({i \in word : i >= startpos})
\* The run of ones at startpos ends before the first zero after it.
findlastcontiguousbit(word, startpos) ==
  IF word = Word THEN BITS_PER_WORD - 1
  ELSE IF startpos \notin word THEN -1
  ELSE Min({i \in 0..BITS_PER_WORD : i >= startpos /\ i \notin word}) - 1

BitOffset(startpos, k) ==
  IF k = startpos \div BITS_PER_WORD THEN startpos % BITS_PER_WORD ELSE 0

bitmap_find_first_set_bit(startpos) ==
  LET from[k \in (startpos \div BITS_PER_WORD)..word_count] ==
        IF k = word_count THEN -1
        ELSE LET idx == findfirstsetbit(words[k], BitOffset(startpos, k)) IN
             IF 0 <= idx THEN k * BITS_PER_WORD + idx ELSE from[k + 1]
  IN from[startpos \div BITS_PER_WORD]

\* A run that reaches the last bit of a word may go on in the next one.
\* Fault: it is taken to end there.
RunEnds_atWord(k, idx) == TRUE
RunEnds(k, idx) ==
  \/ idx # BITS_PER_WORD - 1
  \/ k + 1 < word_count /\ 0 \notin words[k + 1]
bitmap_find_last_contiguous_bit(startpos) ==
  LET from[k \in (startpos \div BITS_PER_WORD)..word_count] ==
        IF k = word_count THEN BitCount - 1
        ELSE LET idx == findlastcontiguousbit(words[k], BitOffset(startpos, k)) IN
             IF idx < 0 THEN -1
             ELSE IF RunEnds(k, idx) THEN k * BITS_PER_WORD + idx ELSE from[k + 1]
  IN from[startpos \div BITS_PER_WORD]

bitmap_find_set_bits(startpos, minlen) ==
  LET from[pos \in startpos..BitCount] ==
        LET first == bitmap_find_first_set_bit(pos)
            last == bitmap_find_last_contiguous_bit(first) IN
        IF first < 0 THEN -1
        ELSE IF minlen <= last - first + 1 THEN first ELSE from[last + 1]
  IN from[startpos]

bitmap_are_bits_set(offset, len) ==
  /\ len # 0
  /\ offset + len <= BitCount
  /\ \A k \in Words : make_bitmask(offset, len, k) \subseteq words[k]

bitmap_is_bit_set(offset) == offset % BITS_PER_WORD \in words[offset \div BITS_PER_WORD]

-----------------------------------------------------------------------------
(***************************************************************************)
(* Properties.                                                             *)
(***************************************************************************)

\* The words hold exactly the bits that were set and not cleared since, for
\* ranges that start, end and continue anywhere.
WordsHoldBits == bits = {n \in 0..(BitCount - 1) : bitmap_is_bit_set(n)}

\* bitmap_find_set_bits finds the first run of minlen set bits, whichever
\* words it lies in, and -1 only if there is none.
FindsFirstRun ==
  \A startpos \in 0..(BitCount - 1), minlen \in 1..MaxLen :
    bitmap_find_set_bits(startpos, minlen) =
      MinOr({n \in startpos..(BitCount - minlen) : n..(n + minlen - 1) \subseteq bits})

\* bitmap_are_bits_set is true exactly for ranges of set bits inside the map.
TestsWholeRange ==
  \A offset \in 0..(BitCount - 1), len \in 1..MaxLen :
    bitmap_are_bits_set(offset, len) <=> offset..(offset + len - 1) \subseteq bits
=============================================================================
