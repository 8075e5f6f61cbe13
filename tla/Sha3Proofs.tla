----------------------------- MODULE Sha3Proofs -----------------------------
(***************************************************************************)
(* The hashes of Sha3 are those of FIPS 202, for messages of any length    *)
(* cut into pieces of any lengths, and for every permutation.              *)
(*                                                                         *)
(* The context is known after any number of bytes (ContextAt): it does not *)
(* depend on the pieces.  The folds that the model is made of are followed *)
(* step by step (module Folding).                                          *)
(***************************************************************************)
EXTENDS Sha3, SequenceTheorems, TLAPS

Words == INSTANCE Folding WITH Op <- AddWord
Blocks == INSTANCE Folding WITH Op <- AbsorbBlock

\* Adding words leads through the contexts that AddWord leads through.
Leads(h, c, words, n) == h[0] = c /\ \A i \in 1 .. n : h[i] = AddWord(h[i - 1], words[i])

LEMMA AddWordsIs ==
  ASSUME NEW c, NEW words, NEW n \in Nat, DOMAIN words = 1 .. n, NEW h, Leads(h, c, words, n)
  PROVE  AddWords(c, words) = h[n]
<1>1. AddWords(c, words) = Words!Folded(c, words)
  BY DEF AddWords, Words!Folded, FoldLeft, MapThenFoldSet, Max,
         Words!FoldLeft, Words!MapThenFoldSet, Words!Max
<1>2. QED BY <1>1, Words!FoldedIs DEF Leads

\* The same for blocks ...
LEMMA AbsorbBlocksIs ==
  ASSUME NEW blocks, NEW n \in Nat, DOMAIN blocks = 1 .. n,
         NEW h, h[0] = NoSponge, \A i \in 1 .. n : h[i] = AbsorbBlock(h[i - 1], blocks[i])
  PROVE  AbsorbBlocks(blocks) = h[n]
<1>1. AbsorbBlocks(blocks) = Blocks!Folded(NoSponge, blocks)
  BY DEF AbsorbBlocks, Blocks!Folded, FoldLeft, MapThenFoldSet, Max,
         Blocks!FoldLeft, Blocks!MapThenFoldSet, Blocks!Max
<1>2. QED BY <1>1, Blocks!FoldedIs

\* ... and a block more is absorbed last.
LEMMA AbsorbBlocksNext ==
  ASSUME NEW n \in Nat, NEW blocks, DOMAIN blocks = 1 .. n,
         NEW longer, DOMAIN longer = 1 .. n + 1, \A i \in 1 .. n : longer[i] = blocks[i]
  PROVE  AbsorbBlocks(longer) = AbsorbBlock(AbsorbBlocks(blocks), longer[n + 1])
<1>1. \A q : AbsorbBlocks(q) = Blocks!Folded(NoSponge, q)
  BY DEF AbsorbBlocks, Blocks!Folded, FoldLeft, MapThenFoldSet, Max,
         Blocks!FoldLeft, Blocks!MapThenFoldSet, Blocks!Max
<1>2. QED BY <1>1, Blocks!FoldedNext

-----------------------------------------------------------------------------
(* The context after n bytes of a message.                                 *)

Context(saved, s, byteIndex, wordIndex, capacityWords) ==
  [saved |-> saved, s |-> s, byteIndex |-> byteIndex, wordIndex |-> wordIndex,
   capacityWords |-> capacityWords]

\* A context with another sponge.
Advanced(c, s, wordIndex) == [c EXCEPT !.s = s, !.wordIndex = wordIndex]

LEMMA ContextAdvanced ==
  ASSUME NEW saved, NEW s, NEW byte, NEW word, NEW capacity, NEW t, NEW place
  PROVE  Advanced(Context(saved, s, byte, word, capacity), t, place) =
         Context(saved, t, byte, place, capacity)
<1>1. PICK c : c = Context(saved, s, byte, word, capacity)
  OBVIOUS
<1>2. PICK f : f = [c EXCEPT !.s = t]
  OBVIOUS
<1>3. Advanced(c, t, place) = [f EXCEPT !.wordIndex = place]
  BY <1>2 DEF Advanced
<1>4. f = Context(saved, t, byte, word, capacity)
  BY <1>1, <1>2 DEF Context
<1>5. [f EXCEPT !.wordIndex = place] = Context(saved, t, byte, place, capacity)
  BY <1>4 DEF Context
<1>6. QED BY <1>1, <1>3, <1>5

\* The sponge and the place in it behind a word added.
NextSponge(s, word, x, capacity) ==
  LET t == [s EXCEPT ![word] = XOR(@, x)]
  IN IF word + 1 = SpongeWords - capacity THEN Permuted(t) ELSE t
NextIndex(word, capacity) == IF word + 1 = SpongeWords - capacity THEN 0 ELSE word + 1

LEMMA AddWordContext ==
  ASSUME NEW saved, NEW s, NEW byte, NEW word, NEW capacity, NEW x
  PROVE  AddWord(Context(saved, s, byte, word, capacity), x) =
         Context(saved, NextSponge(s, word, x, capacity), byte, NextIndex(word, capacity), capacity)
<1>1. PICK c : c = Context(saved, s, byte, word, capacity)
  OBVIOUS
<1>2. c.s = s /\ c.wordIndex = word /\ c.capacityWords = capacity
  BY <1>1 DEF Context
<1>3. PICK sponge, index : /\ sponge = NextSponge(s, word, x, capacity)
                           /\ index = NextIndex(word, capacity)
  OBVIOUS
<1>4. AddWord(c, x) = Advanced(c, sponge, index)
  BY <1>2, <1>3 DEF AddWord, Advanced, RateWords, NextSponge, NextIndex
<1>5. QED BY <1>1, <1>3, <1>4, ContextAdvanced

\* A context with other saved bytes.
Kept(c, saved, byteIndex) == [c EXCEPT !.saved = saved, !.byteIndex = byteIndex]

LEMMA ContextKept ==
  ASSUME NEW saved, NEW s, NEW byte, NEW word, NEW capacity, NEW t, NEW place
  PROVE  Kept(Context(saved, s, byte, word, capacity), t, place) =
         Context(t, s, place, word, capacity)
<1>1. PICK c : c = Context(saved, s, byte, word, capacity)
  OBVIOUS
<1>2. PICK f : f = [c EXCEPT !.saved = t]
  OBVIOUS
<1>3. Kept(c, t, place) = [f EXCEPT !.byteIndex = place]
  BY <1>2 DEF Kept
<1>4. f = Context(t, s, byte, word, capacity)
  BY <1>1, <1>2 DEF Context
<1>5. [f EXCEPT !.byteIndex = place] = Context(t, s, place, word, capacity)
  BY <1>4 DEF Context
<1>6. QED BY <1>1, <1>3, <1>5

\* What a word holds after some bytes more.
Joined(saved, byte, bytes, m) == saved \cup {<<byte + i - 1, bytes[i]>> : i \in 1 .. m}

LEMMA SaveContext ==
  ASSUME NEW saved, NEW s, NEW byte, NEW word, NEW capacity, NEW m, NEW bytes,
         DOMAIN bytes = 1 .. m, Len(bytes) = m, NEW tail, tail = byte + m
  PROVE  Save(Context(saved, s, byte, word, capacity), bytes) =
         Context(Joined(saved, byte, bytes, m), s, tail, word, capacity)
<1>1. PICK c : c = Context(saved, s, byte, word, capacity)
  OBVIOUS
<1>2. c.saved = saved /\ c.byteIndex = byte
  BY <1>1 DEF Context
<1>3. PICK t : t = Joined(saved, byte, bytes, m)
  OBVIOUS
<1>4. Save(c, bytes) = Kept(c, t, tail)
  BY <1>2, <1>3 DEF Save, Kept, Joined
<1>5. QED BY <1>1, <1>3, <1>4, ContextKept

\* The bytes of a block, a word of the message, a block of the message, and the sponge
\* behind so many blocks.
Rate(w) == 200 - w \div 4
WordAt(i) == {<<place, MessageByte(i + place + 1)>> : place \in 0 .. 7}
FullBlock(rate, k) == [l \in Lanes |-> IF 8 * l >= rate THEN {} ELSE WordAt(k * rate + 8 * l)]
Chain(rate, k) == AbsorbBlocks([i \in 1 .. k |-> FullBlock(rate, i - 1)])

\* The bytes of a word that is not complete, and all of the context.
SavedAt(n, t) == {<<place, MessageByte(n - t + place + 1)>> : place \in 0 .. t - 1}
SpongeAt(rate, n) ==
  [l \in Lanes |->
     IF 8 * l + 8 <= n % rate
     THEN XOR(Chain(rate, n \div rate)[l], WordAt((n \div rate) * rate + 8 * l))
     ELSE Chain(rate, n \div rate)[l]]
ContextAt(w, n) ==
  Context(SavedAt(n, n % 8), SpongeAt(Rate(w), n), n % 8, (n % Rate(w)) \div 8, (2 * w) \div 64)

LEMMA ChainNext ==
  ASSUME NEW rate, NEW k \in Nat
  PROVE  /\ Chain(rate, 0) = NoSponge
         /\ Chain(rate, k + 1) = AbsorbBlock(Chain(rate, k), FullBlock(rate, k))
<1> DEFINE blocks(j) == [i \in 1 .. j |-> FullBlock(rate, i - 1)]
<1>1. \A i \in 1 .. k : blocks(k + 1)[i] = blocks(k)[i]
  OBVIOUS
<1>2. blocks(k + 1)[k + 1] = FullBlock(rate, k) /\ \A j : DOMAIN blocks(j) = 1 .. j
  OBVIOUS
<1>3. AbsorbBlocks(blocks(k + 1)) = AbsorbBlock(AbsorbBlocks(blocks(k)), FullBlock(rate, k))
  <2> HIDE DEF blocks
  <2>1. QED BY <1>1, <1>2, AbsorbBlocksNext
<1>4. AbsorbBlocks(blocks(0)) = NoSponge
  <2> DEFINE h == [i \in {0} |-> NoSponge]
  <2>1. h[0] = NoSponge /\ \A i \in 1 .. 0 : h[i] = AbsorbBlock(h[i - 1], blocks(0)[i])
    OBVIOUS
  <2> HIDE DEF h, blocks
  <2>2. AbsorbBlocks(blocks(0)) = h[0]
    BY <1>2, <2>1, AbsorbBlocksIs
  <2>3. QED BY <2>1, <2>2
<1>5. QED BY <1>3, <1>4 DEF Chain

LEMMA Rates ==
  ASSUME NEW w \in {256, 384, 512}
  PROVE  /\ Rate(w) \in {136, 104, 72} /\ Rate(w) = 8 * (SpongeWords - (2 * w) \div 64)
         /\ (2 * w) \div 64 \in {8, 12, 16}
BY DEF Rate, SpongeWords

\* The byte n of a message is in the block k, there in a word, and in the word at t.
Place(n, rate, k, word, t) ==
  /\ n \in Nat /\ k \in Nat /\ word \in Nat /\ t \in 0 .. 7 /\ rate \in {136, 104, 72}
  /\ n = k * rate + 8 * word + t /\ 8 * word + 8 <= rate

LEMMA PlaceOfByte ==
  ASSUME NEW rate \in {136, 104, 72}, NEW n \in Nat
  PROVE  \E k, word, t : Place(n, rate, k, word, t)
<1>1. CASE rate = 136
  <2>1. n \div 136 \in Nat /\ (n % 136) \div 8 \in Nat /\ n % 8 \in 0 .. 7
    OBVIOUS
  <2>2. /\ n = (n \div 136) * 136 + 8 * ((n % 136) \div 8) + (n % 8)
        /\ 8 * ((n % 136) \div 8) + 8 <= 136
    OBVIOUS
  <2>3. Place(n, rate, n \div 136, (n % 136) \div 8, n % 8)
    BY <1>1, <2>1, <2>2 DEF Place
  <2>4. QED BY <2>3
<1>2. CASE rate = 104
  <2>1. n \div 104 \in Nat /\ (n % 104) \div 8 \in Nat /\ n % 8 \in 0 .. 7
    OBVIOUS
  <2>2. /\ n = (n \div 104) * 104 + 8 * ((n % 104) \div 8) + (n % 8)
        /\ 8 * ((n % 104) \div 8) + 8 <= 104
    OBVIOUS
  <2>3. Place(n, rate, n \div 104, (n % 104) \div 8, n % 8)
    BY <1>2, <2>1, <2>2 DEF Place
  <2>4. QED BY <2>3
<1>3. CASE rate = 72
  <2>1. n \div 72 \in Nat /\ (n % 72) \div 8 \in Nat /\ n % 8 \in 0 .. 7
    OBVIOUS
  <2>2. n = (n \div 72) * 72 + 8 * ((n % 72) \div 8) + (n % 8) /\ 8 * ((n % 72) \div 8) + 8 <= 72
    OBVIOUS
  <2>3. Place(n, rate, n \div 72, (n % 72) \div 8, n % 8)
    BY <1>3, <2>1, <2>2 DEF Place
  <2>4. QED BY <2>3
<1>4. QED BY <1>1, <1>2, <1>3

LEMMA PlaceIs ==
  ASSUME NEW n, NEW rate, NEW k, NEW word, NEW t, Place(n, rate, k, word, t)
  PROVE  /\ n \in Nat /\ k \in Nat /\ word \in Nat /\ t \in 0 .. 7
         /\ n % 8 = t /\ n \div rate = k /\ n % rate = 8 * word + t /\ (n % rate) \div 8 = word
<1>1. CASE rate = 136
  BY <1>1 DEF Place
<1>2. CASE rate = 104
  BY <1>2 DEF Place
<1>3. CASE rate = 72
  BY <1>3 DEF Place
<1>4. QED BY <1>1, <1>2, <1>3 DEF Place

\* Another byte of the same word.
LEMMA PlaceInWord ==
  ASSUME NEW n, NEW rate, NEW k, NEW word, NEW t, Place(n, rate, k, word, t),
         NEW u \in 0 .. 7, NEW m, m = n - t + u
  PROVE  Place(m, rate, k, word, u)
<1>1. CASE rate = 136
  BY <1>1 DEF Place
<1>2. CASE rate = 104
  BY <1>2 DEF Place
<1>3. CASE rate = 72
  BY <1>3 DEF Place
<1>4. QED BY <1>1, <1>2, <1>3 DEF Place

\* The sponge after whole blocks and some words of another.
SpongeOf(rate, k, word) ==
  [l \in Lanes |-> IF l < word THEN XOR(Chain(rate, k)[l], WordAt(k * rate + 8 * l))
                   ELSE Chain(rate, k)[l]]

LEMMA SpongeAtWord ==
  ASSUME NEW rate, NEW n, NEW k, NEW word \in Nat, NEW tail \in 0 .. 7,
         n \div rate = k, n % rate = 8 * word + tail
  PROVE  SpongeAt(rate, n) = SpongeOf(rate, k, word)
<1>1. PICK m \in Nat : m = n % rate /\ m = 8 * word + tail
  OBVIOUS
<1>2. \A l \in Lanes : 8 * l + 8 <= m <=> l < word
  BY <1>1 DEF Lanes, SpongeWords
<1>3. SpongeAt(rate, n) = [l \in Lanes |-> IF 8 * l + 8 <= m
                             THEN XOR(Chain(rate, k)[l], WordAt(k * rate + 8 * l))
                             ELSE Chain(rate, k)[l]]
  BY <1>1 DEF SpongeAt
<1>4. QED BY <1>2, <1>3 DEF SpongeOf

\* So the context after any number of bytes.
LEMMA ContextAtPlace ==
  ASSUME NEW w, NEW k, NEW word, NEW t, NEW n, Place(n, Rate(w), k, word, t)
  PROVE  ContextAt(w, n) =
           Context(SavedAt(n, t), SpongeOf(Rate(w), k, word), t, word, (2 * w) \div 64)
<1>1. PICK rate : rate = Rate(w)
  OBVIOUS
<1>2. /\ word \in Nat /\ t \in 0 .. 7 /\ n % 8 = t /\ n \div rate = k
      /\ n % rate = 8 * word + t /\ (n % rate) \div 8 = word
  BY <1>1, PlaceIs
<1>3. SpongeAt(rate, n) = SpongeOf(rate, k, word)
  BY <1>2, SpongeAtWord
<1>4. QED BY <1>1, <1>2, <1>3 DEF ContextAt

LEMMA NothingSaved ==
  ASSUME NEW w, NEW k, NEW word, NEW n, Place(n, Rate(w), k, word, 0)
  PROVE  ContextAt(w, n) = Context({}, SpongeOf(Rate(w), k, word), 0, word, (2 * w) \div 64)
<1>1. SavedAt(n, 0) = {}
  BY DEF SavedAt
<1>2. QED BY <1>1, ContextAtPlace

\* A word added after a whole number of words.
LEMMA AddWordAt ==
  ASSUME NEW w \in {256, 384, 512}, NEW k, NEW word, NEW n, Place(n, Rate(w), k, word, 0)
  PROVE  AddWord(ContextAt(w, n), WordAt(n)) = ContextAt(w, n + 8)
<1>1. PICK rate \in {136, 104, 72} : rate = Rate(w)
  BY Rates
<1>2. /\ word \in Lanes /\ n = k * rate + 8 * word /\ 8 * word + 8 <= rate
      /\ n \in Nat /\ k \in Nat /\ word \in Nat /\ Place(n, rate, k, word, 0)
  BY <1>1 DEF Lanes, SpongeWords, Place
<1>3. PICK capacity \in {8, 12, 16} : capacity = (2 * w) \div 64 /\ rate = 8 * (25 - capacity)
  BY <1>1, Rates DEF SpongeWords
<1>4. PICK before : before = SpongeOf(rate, k, word)
  OBVIOUS
<1>5. PICK s : s = [before EXCEPT ![word] = XOR(@, WordAt(n))]
  OBVIOUS
<1>6. PICK full \in BOOLEAN : full <=> 8 * word + 8 = rate
  OBVIOUS
<1>7. ContextAt(w, n) = Context({}, before, 0, word, capacity)
  <2>1. ContextAt(w, n) = Context({}, SpongeOf(Rate(w), k, word), 0, word, (2 * w) \div 64)
    BY NothingSaved
  <2>2. QED BY <1>1, <1>3, <1>4, <2>1
<1>next. PICK after : after = IF full THEN SpongeOf(rate, k + 1, 0) ELSE SpongeOf(rate, k, word + 1)
  OBVIOUS
<1>8. ContextAt(w, n + 8) = Context({}, after, 0, IF full THEN 0 ELSE word + 1, capacity)
  <2>1. PICK j, next \in Nat : /\ j = IF full THEN k + 1 ELSE k
                               /\ next = IF full THEN 0 ELSE word + 1
    BY <1>2
  <2>2. Place(n + 8, rate, j, next, 0)
    BY <1>2, <1>3, <1>6, <2>1 DEF Place
  <2>3. after = SpongeOf(rate, j, next)
    BY <1>next, <2>1
  <2>4. ContextAt(w, n + 8) = Context({}, after, 0, next, capacity)
    <3>1. PICK m : m = n + 8
      OBVIOUS
    <3>2. Place(m, Rate(w), j, next, 0)
      BY <1>1, <2>2, <3>1
    <3>3. ContextAt(w, m) = Context({}, SpongeOf(Rate(w), j, next), 0, next, (2 * w) \div 64)
      BY <3>2, NothingSaved
    <3>4. QED BY <1>1, <1>3, <2>3, <3>1, <3>3
  <2>5. QED BY <2>1, <2>4
<1>9. AddWord(ContextAt(w, n), WordAt(n)) =
        Context({}, IF full THEN Permuted(s) ELSE s, 0, IF full THEN 0 ELSE word + 1, capacity)
  <2>1. word + 1 = 25 - capacity <=> full
    BY <1>2, <1>3, <1>6
  <2>2. NextSponge(before, word, WordAt(n), capacity) = IF full THEN Permuted(s) ELSE s
    BY <1>5, <2>1 DEF NextSponge, SpongeWords
  <2>3. NextIndex(word, capacity) = IF full THEN 0 ELSE word + 1
    BY <2>1 DEF NextIndex, SpongeWords
  <2>4. QED BY <1>7, <2>2, <2>3, AddWordContext
<1>10. s = [l \in Lanes |-> IF l <= word THEN XOR(Chain(rate, k)[l], WordAt(k * rate + 8 * l))
                            ELSE Chain(rate, k)[l]]
  <2>1. \A l \in Lanes : l <= word <=> l < word \/ l = word
    BY <1>2 DEF Lanes, SpongeWords
  <2>2. s = [l \in Lanes |-> IF l = word THEN XOR(before[l], WordAt(n)) ELSE before[l]]
    BY <1>4, <1>5 DEF SpongeOf
  <2>3. before[word] = Chain(rate, k)[word]
    BY <1>2, <1>4 DEF SpongeOf
  <2>4. \A l \in Lanes : l # word => before[l] = IF l < word
                           THEN XOR(Chain(rate, k)[l], WordAt(k * rate + 8 * l))
                           ELSE Chain(rate, k)[l]
    BY <1>4 DEF SpongeOf
  <2>5. QED BY <1>2, <2>1, <2>2, <2>3, <2>4
<1>12. CASE full
  <2>1. s = [l \in Lanes |-> XOR(Chain(rate, k)[l], FullBlock(rate, k)[l])]
    <3>1. \A l \in Lanes : l <= word <=> ~(8 * l >= rate)
      BY <1>2, <1>6, <1>12 DEF Lanes, SpongeWords
    <3>2. \A x : XOR(x, {}) = x
      BY DEF XOR
    <3>3. QED BY <1>10, <3>1, <3>2 DEF FullBlock
  <2>2. Permuted(s) = Chain(rate, k + 1)
    BY <1>2, <2>1, ChainNext DEF AbsorbBlock
  <2>3. after = Permuted(s)
    <3>1. \A l \in Lanes : ~(l < 0)
      BY DEF Lanes
    <3>2. QED BY <1>next, <1>12, <2>2, <3>1 DEF SpongeOf, Permuted
  <2>4. QED BY <1>8, <1>9, <1>12, <2>3
<1>13. CASE ~full
  <2>1. \A l \in Lanes : l < word + 1 <=> l <= word
    BY <1>2 DEF Lanes, SpongeWords
  <2>2. after = s
    BY <1>next, <1>10, <1>13, <2>1 DEF SpongeOf
  <2>3. QED BY <1>8, <1>9, <1>13, <2>2
<1>14. QED BY <1>12, <1>13

-----------------------------------------------------------------------------
(* sha3_Update.                                                            *)

\* What update() gets of the message after n bytes.
Bytes(n, len) == [i \in 1 .. len |-> MessageByte(n + i)]

MessageBytes == {MessageByte(i) : i \in Nat}

LEMMA BytesAre ==
  ASSUME NEW n \in Nat, NEW len \in Nat
  PROVE  /\ Bytes(n, len) \in Seq(MessageBytes)
         /\ Len(Bytes(n, len)) = len /\ DOMAIN Bytes(n, len) = 1 .. len
<1>1. \A i \in 1 .. len : n + i \in Nat
  OBVIOUS
<1>2. QED BY <1>1 DEF Bytes, MessageBytes

Part(a, len) == a \in Nat /\ len \in Nat /\ a <= len

\* What is left behind the first a of the bytes.
Cut(n, len, a, next, middle, left) ==
  n \in Nat /\ Part(a, len) /\ next = a + 1 /\ middle = n + a /\ left = len - a

LEMMA SubSeqBytes ==
  ASSUME NEW n, NEW len, NEW a, NEW next, NEW middle, NEW left,
         Cut(n, len, a, next, middle, left)
  PROVE  SubSeq(Bytes(n, len), next, len) = Bytes(middle, left)
<1>1. PICK q : q = Bytes(n, len)
  OBVIOUS
<1>0. len \in Nat /\ a \in 0 .. len /\ n \in Nat
      /\ next = a + 1 /\ middle = n + a /\ left = len - a
  BY DEF Cut, Part
<1>2. q \in Seq(MessageBytes) /\ Len(q) = len
  BY <1>0, <1>1, BytesAre
<1>3. SubSeq(q, next, len) = [i \in 1 .. left |-> q[a + i]]
  BY <1>0, <1>2, SubSeqProperties
<1>4. \A i \in 1 .. left : q[a + i] = MessageByte(middle + i)
  BY <1>0, <1>1, <1>2 DEF Bytes
<1>5. QED BY <1>1, <1>3, <1>4 DEF Bytes

LEMMA SubSeqPrefix ==
  ASSUME NEW n, n \in Nat, NEW len, NEW a, Part(a, len)
  PROVE  SubSeq(Bytes(n, len), 1, a) = Bytes(n, a)
<1>1. PICK q : q = Bytes(n, len)
  OBVIOUS
<1>0. len \in Nat /\ a \in 0 .. len
  BY DEF Part
<1>2. q \in Seq(MessageBytes) /\ Len(q) = len
  BY <1>0, <1>1, BytesAre
<1>3. SubSeq(q, 1, a) = [i \in 1 .. a |-> q[i]]
  BY <1>0, <1>2, SubSeqProperties
<1>4. QED BY <1>0, <1>1, <1>3 DEF Bytes

\* Bytes that do not complete the word.
LEMMA SaveAt ==
  ASSUME NEW w, NEW k, NEW word, NEW t, NEW n, Place(n, Rate(w), k, word, t),
         NEW m \in Nat, t + m <= 8
  PROVE  Save(ContextAt(w, n), Bytes(n, m)) =
         Context(SavedAt(n + m, t + m), SpongeOf(Rate(w), k, word), t + m, word, (2 * w) \div 64)
<1>1. t \in 0 .. 7 /\ n \in Nat
  BY PlaceIs
<1>2. PICK bytes : bytes = Bytes(n, m)
  OBVIOUS
<1>3. Len(bytes) = m /\ DOMAIN bytes = 1 .. m /\ \A i \in 1 .. m : bytes[i] = MessageByte(n + i)
  BY <1>1, <1>2, BytesAre DEF Bytes
<1>4. PICK s, capacity : s = SpongeOf(Rate(w), k, word) /\ capacity = (2 * w) \div 64
  OBVIOUS
<1>5. ContextAt(w, n) = Context(SavedAt(n, t), s, t, word, capacity)
  BY <1>4, ContextAtPlace
<1>6. Joined(SavedAt(n, t), t, bytes, m) = SavedAt(n + m, t + m)
  <2>0. PICK start, tail : start = n - t /\ tail = t + m
    OBVIOUS
  <2> DEFINE old == {<<place, MessageByte(start + place + 1)>> : place \in 0 .. t - 1}
             new == {<<t + i - 1, MessageByte(n + i)>> : i \in 1 .. m}
             all == {<<place, MessageByte(start + place + 1)>> : place \in 0 .. tail - 1}
  <2>1. old \cup new \subseteq all
    <3>1. \A i \in 1 .. m : t + i - 1 \in 0 .. tail - 1 /\ n + i = start + (t + i - 1) + 1
      BY <1>1, <2>0
    <3>2. 0 .. t - 1 \subseteq 0 .. tail - 1
      BY <1>1, <2>0
    <3>3. QED BY <3>1, <3>2
  <2>2. all \subseteq old \cup new
    <3> SUFFICES ASSUME NEW place \in 0 .. tail - 1
                 PROVE  <<place, MessageByte(start + place + 1)>> \in old \cup new
      OBVIOUS
    <3>1. CASE place < t
      BY <1>1, <2>0, <3>1
    <3>2. CASE place >= t
      <4>1. PICK i \in 1 .. m : place = t + i - 1 /\ start + place + 1 = n + i
        BY <1>1, <2>0, <3>2, place - t + 1 \in 1 .. m
      <4>2. QED BY <4>1
    <3>3. QED BY <1>1, <2>0, <3>1, <3>2
  <2>3. {<<t + i - 1, bytes[i]>> : i \in 1 .. m} = new
    BY <1>3
  <2>4. SavedAt(n, t) = old
    BY <2>0 DEF SavedAt
  <2>5. SavedAt(n + m, t + m) = all
    <3>1. PICK sum : sum = n + m /\ sum - tail = start
      BY <1>1, <2>0
    <3>2. SavedAt(sum, tail) = all
      BY <3>1 DEF SavedAt
    <3>3. QED BY <2>0, <3>1, <3>2
  <2> HIDE DEF old, new, all
  <2>6. QED BY <2>1, <2>2, <2>3, <2>4, <2>5 DEF Joined
<1>7. PICK saved, tail : saved = SavedAt(n, t) /\ tail = t + m
  OBVIOUS
<1>8. Save(Context(saved, s, t, word, capacity), bytes) =
        Context(Joined(saved, t, bytes, m), s, tail, word, capacity)
  BY <1>3, <1>7, SaveContext
<1>9. QED BY <1>2, <1>4, <1>5, <1>6, <1>7, <1>8

\* Bytes that leave the word short.
Short(n, m) == n \in Nat /\ m \in Nat /\ (n % 8) + m < 8

LEMMA SaveShort ==
  ASSUME NEW w \in {256, 384, 512}, NEW n, NEW m, Short(n, m), NEW sum, sum = n + m
  PROVE  Save(ContextAt(w, n), Bytes(n, m)) = ContextAt(w, sum)
<1>0. n \in Nat /\ m \in Nat /\ (n % 8) + m < 8
  BY DEF Short
<1>1. PICK k, word, t : Place(n, Rate(w), k, word, t)
  <2>1. PICK rate : rate = Rate(w)
    OBVIOUS
  <2>2. rate \in {136, 104, 72}
    BY <2>1, Rates
  <2>3. QED BY <1>0, <2>1, <2>2, PlaceOfByte
<1>2. t \in 0 .. 7 /\ n % 8 = t
  BY <1>1, PlaceIs
<1>3. PICK tail : tail = t + m
  OBVIOUS
<1>4. Place(sum, Rate(w), k, word, tail)
  <2>1. tail \in 0 .. 7 /\ sum = n - t + tail
    BY <1>0, <1>2, <1>3
  <2>2. QED BY <1>1, <2>1, PlaceInWord
<1>5. ContextAt(w, sum) =
        Context(SavedAt(sum, tail), SpongeOf(Rate(w), k, word), tail, word, (2 * w) \div 64)
  BY <1>4, ContextAtPlace
<1>6. t + m <= 8
  BY <1>0, <1>2
<1>7. QED BY <1>0, <1>1, <1>3, <1>5, <1>6, SaveAt

\* The bytes that complete the word.
LEMMA AddSavedAt ==
  ASSUME NEW w \in {256, 384, 512}, NEW n \in Nat, n % 8 # 0, NEW m, m = 8 - (n % 8)
  PROVE  AddSaved(Save(ContextAt(w, n), Bytes(n, m))) = ContextAt(w, n + m)
<1>1. PICK k, word, t : Place(n, Rate(w), k, word, t)
  BY PlaceOfByte, Rates
<1>2. t \in 0 .. 7 /\ n % 8 = t /\ m \in Nat /\ t + m = 8
  BY <1>1, PlaceIs
<1>3. PICK i : i = n - t
  OBVIOUS
<1>4. Place(i, Rate(w), k, word, 0)
  <2>1. i = n - t + 0 /\ 0 \in 0 .. 7
    BY <1>2, <1>3
  <2>2. QED BY <1>1, <2>1, PlaceInWord
<1>5. PICK s, capacity : s = SpongeOf(Rate(w), k, word) /\ capacity = (2 * w) \div 64
  OBVIOUS
<1>6. SavedAt(n + m, 8) = WordAt(i)
  <2>1. n + m - 8 = i
    BY <1>2, <1>3
  <2>2. 0 .. 8 - 1 = 0 .. 7
    OBVIOUS
  <2>3. QED BY <2>1, <2>2 DEF SavedAt, WordAt
<1>7. Save(ContextAt(w, n), Bytes(n, m)) = Context(WordAt(i), s, 8, word, capacity)
  BY <1>1, <1>2, <1>5, <1>6, SaveAt
<1>8. ContextAt(w, i) = Context({}, s, 0, word, capacity)
  BY <1>4, <1>5, NothingSaved
<1>9. PICK next, index : /\ next = NextSponge(s, word, WordAt(i), capacity)
                         /\ index = NextIndex(word, capacity)
  OBVIOUS
<1>10. ContextAt(w, i + 8) = Context({}, next, 0, index, capacity)
  BY <1>4, <1>8, <1>9, AddWordAt, AddWordContext
<1>11. PICK c : c = Context(WordAt(i), s, 8, word, capacity)
  OBVIOUS
<1>12. AddWord(c, WordAt(i)) = Context(WordAt(i), next, 8, index, capacity)
  BY <1>9, <1>11, AddWordContext
<1>13. c.saved = WordAt(i)
  BY <1>11 DEF Context
<1>14. AddSaved(c) = Kept(Context(WordAt(i), next, 8, index, capacity), {}, 0)
  BY <1>12, <1>13 DEF AddSaved, Kept
<1>15. AddSaved(c) = Context({}, next, 0, index, capacity)
  BY <1>14, ContextKept
<1>16. i + 8 = n + m
  BY <1>2, <1>3
<1>17. QED BY <1>7, <1>10, <1>11, <1>15, <1>16

Aligned(n) == n \in Nat /\ n % 8 = 0

LEMMA AddWordsAt ==
  ASSUME NEW w \in {256, 384, 512}, NEW n, Aligned(n), NEW m \in Nat,
         NEW words, DOMAIN words = 1 .. m, \A i \in 1 .. m : words[i] = WordAt(n + 8 * (i - 1))
  PROVE  AddWords(ContextAt(w, n), words) = ContextAt(w, n + 8 * m)
<1>0. n \in Nat /\ n % 8 = 0
  BY DEF Aligned
<1> DEFINE h == [i \in 0 .. m |-> ContextAt(w, n + 8 * i)]
<1>1. ASSUME NEW i \in 1 .. m PROVE h[i] = AddWord(h[i - 1], words[i])
  <2>1. PICK j : j = n + 8 * (i - 1)
    OBVIOUS
  <2>2. j \in Nat /\ j % 8 = 0 /\ j + 8 = n + 8 * i /\ i - 1 \in 0 .. m
    BY <1>0, <2>1
  <2>3. PICK k, word, t : Place(j, Rate(w), k, word, t)
    <3>1. PICK rate : rate = Rate(w)
      OBVIOUS
    <3>2. j \in Nat /\ rate \in {136, 104, 72}
      BY <2>2, <3>1, Rates
    <3>3. QED BY <3>1, <3>2, PlaceOfByte
  <2>4. t = 0
    <3>1. j % 8 = t
      BY <2>3, PlaceIs
    <3>2. QED BY <2>2, <3>1
  <2>5. AddWord(ContextAt(w, j), WordAt(j)) = ContextAt(w, j + 8)
    BY <2>3, <2>4, AddWordAt
  <2>6. h[i] = ContextAt(w, j + 8) /\ h[i - 1] = ContextAt(w, j)
    BY <2>1, <2>2
  <2>7. QED BY <2>1, <2>5, <2>6
<1>2. h[0] = ContextAt(w, n) /\ h[m] = ContextAt(w, n + 8 * m)
  BY <1>0
<1> HIDE DEF h
<1>3. PICK c : c = ContextAt(w, n)
  OBVIOUS
<1>4. Leads(h, c, words, m)
  BY <1>1, <1>2, <1>3 DEF Leads
<1>5. PICK path : path = h
  OBVIOUS
<1>6. AddWords(c, words) = path[m]
  BY <1>4, <1>5, AddWordsIs
<1>7. QED BY <1>2, <1>3, <1>5, <1>6

\* The rest of the bytes, from a word's beginning on.
LEMMA AbsorbWords ==
  ASSUME NEW w \in {256, 384, 512}, NEW n, Aligned(n), NEW len, len \in Nat,
         NEW rest, rest = Bytes(n, len), NEW sum, sum = n + len
  PROVE  Save(AddWords(ContextAt(w, n), WordsOf(rest)),
              SubSeq(rest, 8 * (Len(rest) \div 8) + 1, Len(rest))) = ContextAt(w, sum)
<1>0. n \in Nat /\ n % 8 = 0
  BY DEF Aligned
<1>1. PICK m : m = len \div 8
  OBVIOUS
<1>2. m \in Nat /\ 8 * m <= len /\ len - 8 * m \in 0 .. 7 /\ Len(rest) = len
  <2>1. m \in Nat /\ 8 * m <= len /\ len - 8 * m \in 0 .. 7
    BY <1>1
  <2>2. Len(rest) = len
    BY <1>0, BytesAre
  <2>3. QED BY <2>1, <2>2
<1>3. \A i \in 1 .. m : WordOf(rest, i) = WordAt(n + 8 * (i - 1))
  <2> SUFFICES ASSUME NEW i \in 1 .. m PROVE WordOf(rest, i) = WordAt(n + 8 * (i - 1))
    OBVIOUS
  <2>1. PICK start, from : start = n + 8 * (i - 1) /\ from = 8 * (i - 1)
    OBVIOUS
  <2>2. \A place \in 0 .. 7 : /\ from + place + 1 \in 1 .. len
                              /\ n + (from + place + 1) = start + place + 1
    BY <1>0, <1>2, <2>1
  <2>3. \A j \in 1 .. len : rest[j] = MessageByte(n + j)
    BY DEF Bytes
  <2>4. \A place \in 0 .. 7 : rest[from + place + 1] = MessageByte(start + place + 1)
    BY <2>2, <2>3
  <2>5. WordOf(rest, i) = {<<place, rest[from + place + 1]>> : place \in 0 .. 7}
    BY <2>1 DEF WordOf
  <2>6. WordOf(rest, i) = WordAt(start)
    BY <2>4, <2>5 DEF WordAt
  <2>7. QED BY <2>1, <2>6
<1>4. PICK words : words = WordsOf(rest)
  OBVIOUS
<1>5. DOMAIN words = 1 .. m /\ \A i \in 1 .. m : words[i] = WordAt(n + 8 * (i - 1))
  BY <1>1, <1>2, <1>3, <1>4 DEF WordsOf
<1>6. AddWords(ContextAt(w, n), words) = ContextAt(w, n + 8 * m)
  BY <1>2, <1>5, AddWordsAt
<1>7. PICK a, next, middle, left : /\ a = 8 * m /\ next = a + 1
                                   /\ middle = n + a /\ left = len - a
  OBVIOUS
<1>8. /\ Part(a, len) /\ Short(middle, left)
      /\ n \in Nat /\ a = 8 * m /\ middle = n + a /\ sum = middle + left
  BY <1>0, <1>2, <1>7 DEF Part, Short
<1>9. SubSeq(rest, next, len) = Bytes(middle, left)
  <2>1. Cut(n, len, a, next, middle, left)
    BY <1>7, <1>8 DEF Cut
  <2>2. SubSeq(Bytes(n, len), next, len) = Bytes(middle, left)
    BY <2>1, SubSeqBytes
  <2>3. QED BY <2>2
<1>10. Save(ContextAt(w, middle), Bytes(middle, left)) = ContextAt(w, sum)
  BY <1>8, SaveShort
<1>11. QED BY <1>1, <1>2, <1>4, <1>6, <1>7, <1>8, <1>9, <1>10

\* So update() leads from the context after n bytes to that after all of them.
LEMMA AbsorbAt ==
  ASSUME NEW w \in {256, 384, 512}, NEW n, n \in Nat, NEW len, len \in Nat, NEW sum, sum = n + len
  PROVE  Absorb(ContextAt(w, n), Bytes(n, len)) = ContextAt(w, sum)
<1>1. PICK c, buf : c = ContextAt(w, n) /\ buf = Bytes(n, len)
  OBVIOUS
<1>2. c.byteIndex = n % 8 /\ Len(buf) = len
  BY <1>1, BytesAre DEF ContextAt, Context
<1>3. PICK oldTail : oldTail = (8 - c.byteIndex) % 8
  OBVIOUS
<1>4. PICK first : first = IF oldTail = 0 THEN c ELSE AddSaved(Save(c, SubSeq(buf, 1, oldTail)))
  OBVIOUS
<1>5. PICK rest : rest = SubSeq(buf, oldTail + 1, len)
  OBVIOUS
<1>6. Absorb(c, buf) =
        IF len < oldTail THEN Save(c, buf)
        ELSE Save(AddWords(first, WordsOf(rest)),
                  SubSeq(rest, 8 * (Len(rest) \div 8) + 1, Len(rest)))
  BY <1>2, <1>3, <1>4, <1>5 DEF Absorb
<1>7. oldTail \in 0 .. 7 /\ (oldTail = 0 <=> n % 8 = 0) /\ (oldTail # 0 => oldTail = 8 - (n % 8))
  BY <1>2, <1>3
<1>8. CASE len < oldTail
  <2>1. Short(n, len)
    BY <1>7, <1>8 DEF Short
  <2>2. QED BY <1>1, <1>6, <1>8, <2>1, SaveShort
<1>9. CASE len >= oldTail
  <2>1. PICK middle, left : middle = n + oldTail /\ left = len - oldTail
    OBVIOUS
  <2>2. /\ Aligned(middle) /\ left \in Nat /\ sum = middle + left
        /\ Part(oldTail, len)
    BY <1>7, <1>9, <2>1 DEF Aligned, Part
  <2>3. first = ContextAt(w, middle)
    <3>1. CASE oldTail = 0
      BY <1>1, <1>4, <2>1, <3>1
    <3>2. CASE oldTail # 0
      <4>1. n % 8 # 0 /\ oldTail = 8 - (n % 8)
        BY <1>7, <3>2
      <4>2. SubSeq(buf, 1, oldTail) = Bytes(n, oldTail)
        BY <1>1, <2>2, SubSeqPrefix
      <4>3. AddSaved(Save(ContextAt(w, n), Bytes(n, oldTail))) = ContextAt(w, n + oldTail)
        BY <4>1, AddSavedAt
      <4>4. QED BY <1>1, <1>4, <2>1, <3>2, <4>2, <4>3
    <3>3. QED BY <3>1, <3>2
  <2>4. rest = Bytes(middle, left)
    <3>1. PICK next : next = oldTail + 1
      OBVIOUS
    <3>2. Cut(n, len, oldTail, next, middle, left)
      BY <2>1, <2>2, <3>1 DEF Cut
    <3>3. SubSeq(Bytes(n, len), next, len) = Bytes(middle, left)
      BY <3>2, SubSeqBytes
    <3>4. QED BY <1>1, <1>5, <3>1, <3>3
  <2>5. Save(AddWords(ContextAt(w, middle), WordsOf(rest)),
             SubSeq(rest, 8 * (Len(rest) \div 8) + 1, Len(rest))) = ContextAt(w, sum)
    BY <2>2, <2>4, AbsorbWords
  <2>6. QED BY <1>1, <1>6, <1>7, <1>9, <2>3, <2>5
<1>10. QED BY <1>7, <1>8, <1>9
-----------------------------------------------------------------------------
(* sha3_Finalize and FIPS 202.                                             *)

\* Where a byte of a block is in the padded message.
BlockByte(n, rate, k, word, t, j, l, place, i) ==
  /\ i \in Nat /\ place \in 0 .. 7
  /\ i < n <=> j < k \/ l < word \/ (l = word /\ place < t)
  /\ i = n <=> j = k /\ l = word /\ place = t
  /\ i = k * rate + rate - 1 <=> j = k /\ place = 7 /\ 8 * l + 8 = rate

LEMMA BlockBytes ==
  ASSUME NEW n, NEW rate, NEW k, NEW word, NEW t, Place(n, rate, k, word, t),
         NEW j \in 0 .. k, NEW l \in Nat, 8 * l < rate, NEW place \in 0 .. 7
  PROVE  BlockByte(n, rate, k, word, t, j, l, place, j * rate + 8 * l + place)
<1>1. CASE rate = 136
  BY <1>1 DEF Place, BlockByte
<1>2. CASE rate = 104
  BY <1>2 DEF Place, BlockByte
<1>3. CASE rate = 72
  BY <1>3 DEF Place, BlockByte
<1>4. QED BY <1>1, <1>2, <1>3 DEF Place

LEMMA PaddedByteIs ==
  ASSUME NEW n \in Nat, NEW rate, NEW i \in Nat, NEW k, n \div rate = k, NEW b
  PROVE  b \in PaddedByte(n, rate, i) <=>
           \/ i < n /\ b = MessageByte(i + 1)
           \/ i = n /\ b = Suffix
           \/ i = k * rate + rate - 1 /\ b = LastBit
<1>1. PICK last : last = k * rate + rate - 1
  OBVIOUS
<1>2. i \in 0 .. n - 1 <=> i < n
  OBVIOUS
<1>3. PaddedByte(n, rate, i) = {MessageByte(i + 1) : x \in {i} \cap 0 .. n - 1}
        \cup {Suffix : x \in {i} \cap {n}} \cup {LastBit : x \in {i} \cap {last}}
  BY <1>1 DEF PaddedByte
<1>4. QED BY <1>1, <1>2, <1>3

\* What is XORed with a word of the last block.
LastWord(n, rate, k, word, t, l) ==
  (IF l < word THEN WordAt(k * rate + 8 * l)
   ELSE IF l = word THEN SavedAt(n, t) \cup {<<t, Suffix>>} ELSE {})
  \cup IF 8 * l + 8 = rate THEN {<<7, LastBit>>} ELSE {}

\* A word of a block, whose bytes begin at base.
BlockWord(n, rate, base) ==
  UNION {{<<place, b>> : b \in PaddedByte(n, rate, base + place)} : place \in 0 .. 7}

LEMMA BlockWordHas ==
  ASSUME NEW n, NEW rate, NEW k, NEW word, NEW t, Place(n, rate, k, word, t),
         NEW j \in 0 .. k, NEW l \in Nat, 8 * l < rate, NEW base, base = j * rate + 8 * l, NEW x
  PROVE  x \in BlockWord(n, rate, base) <=>
           \E place \in 0 .. 7 :
             \/ /\ j < k \/ l < word \/ (l = word /\ place < t)
                /\ x = <<place, MessageByte(base + place + 1)>>
             \/ (j = k /\ l = word /\ place = t) /\ x = <<place, Suffix>>
             \/ (j = k /\ place = 7 /\ 8 * l + 8 = rate) /\ x = <<place, LastBit>>
<1>1. x \in BlockWord(n, rate, base) <=>
        \E place \in 0 .. 7 : \E b \in PaddedByte(n, rate, base + place) : x = <<place, b>>
  BY DEF BlockWord
<1>2. ASSUME NEW place \in 0 .. 7
      PROVE  (\E b \in PaddedByte(n, rate, base + place) : x = <<place, b>>) <=>
             \/ /\ j < k \/ l < word \/ (l = word /\ place < t)
                /\ x = <<place, MessageByte(base + place + 1)>>
             \/ (j = k /\ l = word /\ place = t) /\ x = <<place, Suffix>>
             \/ (j = k /\ place = 7 /\ 8 * l + 8 = rate) /\ x = <<place, LastBit>>
  <2>1. PICK i : i = base + place
    OBVIOUS
  <2>2. BlockByte(n, rate, k, word, t, j, l, place, j * rate + 8 * l + place)
    BY BlockBytes
  <2>3. BlockByte(n, rate, k, word, t, j, l, place, i)
    BY <2>1, <2>2
  <2>4. n \in Nat /\ n \div rate = k
    BY PlaceIs
  <2>5. PICK last : last = k * rate + rate - 1
    OBVIOUS
  <2>6. /\ i \in Nat
        /\ i < n <=> j < k \/ l < word \/ (l = word /\ place < t)
        /\ i = n <=> j = k /\ l = word /\ place = t
        /\ i = last <=> j = k /\ place = 7 /\ 8 * l + 8 = rate
    BY <2>3, <2>5 DEF BlockByte
  <2>7. \A b : b \in PaddedByte(n, rate, i) <=>
           \/ i < n /\ b = MessageByte(i + 1)
           \/ i = n /\ b = Suffix
           \/ i = last /\ b = LastBit
    BY <2>4, <2>5, <2>6, PaddedByteIs
  <2>8. QED BY <2>1, <2>6, <2>7
<1>3. QED BY <1>1, <1>2

LEMMA BlockWordFull ==
  ASSUME NEW n, NEW rate, NEW k, NEW word, NEW t, Place(n, rate, k, word, t),
         NEW j \in Nat, j < k, NEW l \in Nat, 8 * l < rate, NEW base, base = j * rate + 8 * l
  PROVE  BlockWord(n, rate, base) = WordAt(base)
<1>1. k \in Nat
  BY PlaceIs
<1>2. ASSUME NEW x PROVE x \in BlockWord(n, rate, base) <=> x \in WordAt(base)
  <2>1. x \in BlockWord(n, rate, base) <=>
          \E place \in 0 .. 7 :
             \/ /\ j < k \/ l < word \/ (l = word /\ place < t)
                /\ x = <<place, MessageByte(base + place + 1)>>
             \/ (j = k /\ l = word /\ place = t) /\ x = <<place, Suffix>>
             \/ (j = k /\ place = 7 /\ 8 * l + 8 = rate) /\ x = <<place, LastBit>>
    BY <1>1, BlockWordHas
  <2>2. x \in BlockWord(n, rate, base) <=>
          \E place \in 0 .. 7 : x = <<place, MessageByte(base + place + 1)>>
    BY <1>1, <2>1
  <2>3. QED BY <2>2 DEF WordAt
<1>3. QED BY <1>2

LEMMA BlockWordLast ==
  ASSUME NEW n, NEW rate, NEW k, NEW word, NEW t, Place(n, rate, k, word, t),
         NEW l \in Nat, 8 * l < rate, NEW base, base = k * rate + 8 * l
  PROVE  BlockWord(n, rate, base) = LastWord(n, rate, k, word, t, l)
<1>1. k \in Nat /\ word \in Nat /\ t \in 0 .. 7 /\ n \in Nat /\ k \in 0 .. k
  BY PlaceIs
<1>2. PICK final : final = IF 8 * l + 8 = rate THEN {<<7, LastBit>>} ELSE {}
  OBVIOUS
<1>3. \A x : x \in BlockWord(n, rate, base) <=>
          \E place \in 0 .. 7 :
             \/ /\ l < word \/ (l = word /\ place < t)
                /\ x = <<place, MessageByte(base + place + 1)>>
             \/ (l = word /\ place = t) /\ x = <<place, Suffix>>
             \/ (place = 7 /\ 8 * l + 8 = rate) /\ x = <<place, LastBit>>
  <2> TAKE x
  <2>1. x \in BlockWord(n, rate, base) <=>
          \E place \in 0 .. 7 :
             \/ /\ k < k \/ l < word \/ (l = word /\ place < t)
                /\ x = <<place, MessageByte(base + place + 1)>>
             \/ (k = k /\ l = word /\ place = t) /\ x = <<place, Suffix>>
             \/ (k = k /\ place = 7 /\ 8 * l + 8 = rate) /\ x = <<place, LastBit>>
    BY <1>1, BlockWordHas
  <2>2. QED BY <1>1, <2>1
<1>4. \A x : x \in final <=> 8 * l + 8 = rate /\ x = <<7, LastBit>>
  BY <1>2
<1>5. CASE l < word
  <2>1. \A x : x \in BlockWord(n, rate, base) <=> x \in WordAt(base) \/ x \in final
    BY <1>1, <1>3, <1>4, <1>5 DEF WordAt
  <2>2. LastWord(n, rate, k, word, t, l) = WordAt(base) \cup final
    BY <1>2, <1>5 DEF LastWord
  <2>3. QED BY <2>1, <2>2
<1>6. CASE l = word
  <2>1. base = n - t
    BY <1>1, <1>6 DEF Place
  <2>2. PICK saved : saved = {<<place, MessageByte(base + place + 1)>> : place \in 0 .. t - 1}
    OBVIOUS
  <2>3. SavedAt(n, t) = saved
    BY <2>1, <2>2 DEF SavedAt
  <2>4. \A x : x \in BlockWord(n, rate, base) <=> x \in saved \/ x = <<t, Suffix>> \/ x \in final
    BY <1>1, <1>3, <1>4, <1>6, <2>2
  <2>5. ~(l < word)
    BY <1>1, <1>6
  <2>6. LastWord(n, rate, k, word, t, l) = (saved \cup {<<t, Suffix>>}) \cup final
    BY <1>2, <1>6, <2>3, <2>5 DEF LastWord
  <2>7. QED BY <2>4, <2>6
<1>7. CASE l > word
  <2>1. \A x : x \in BlockWord(n, rate, base) <=> x \in final
    BY <1>1, <1>3, <1>4, <1>7
  <2>2. LastWord(n, rate, k, word, t, l) = final
    BY <1>1, <1>2, <1>7 DEF LastWord
  <2>3. QED BY <2>1, <2>2
<1>8. QED BY <1>1, <1>5, <1>6, <1>7

\* The blocks before the last are of the message alone.
LEMMA BlockFull ==
  ASSUME NEW n, NEW rate, NEW k, NEW word, NEW t, Place(n, rate, k, word, t),
         NEW j \in Nat, j < k
  PROVE  Block(n, rate, j) = FullBlock(rate, j)
<1>1. PICK first : first = j * rate
  OBVIOUS
<1>2. \A l \in Lanes : l \in Nat
  BY DEF Lanes
<1>3. \A l \in Lanes : ~(8 * l >= rate) => BlockWord(n, rate, first + 8 * l) = WordAt(first + 8 * l)
  <2> SUFFICES ASSUME NEW l \in Lanes, ~(8 * l >= rate)
               PROVE  BlockWord(n, rate, first + 8 * l) = WordAt(first + 8 * l)
    OBVIOUS
  <2>1. PICK base : base = first + 8 * l
    OBVIOUS
  <2>2. l \in Nat /\ 8 * l < rate /\ base = j * rate + 8 * l
    BY <1>1, <1>2, <2>1 DEF Place
  <2>3. BlockWord(n, rate, base) = WordAt(base)
    BY <2>2, BlockWordFull
  <2>4. QED BY <2>1, <2>3
<1>4. Block(n, rate, j) = [l \in Lanes |-> IF 8 * l >= rate THEN {}
                                           ELSE BlockWord(n, rate, first + 8 * l)]
  BY <1>1 DEF Block, BlockWord
<1>5. FullBlock(rate, j) = [l \in Lanes |-> IF 8 * l >= rate THEN {} ELSE WordAt(first + 8 * l)]
  BY <1>1 DEF FullBlock
<1>6. QED BY <1>3, <1>4, <1>5

LEMMA SpongeIs ==
  ASSUME NEW n, NEW rate, NEW k, NEW word, NEW t, Place(n, rate, k, word, t)
  PROVE  Sponge(n, rate) = AbsorbBlock(Chain(rate, k), Block(n, rate, k))
<1>1. k \in Nat /\ n \div rate = k
  BY PlaceIs
<1>2. PICK blocks : blocks = [i \in 1 .. k |-> FullBlock(rate, i - 1)]
  OBVIOUS
<1>3. PICK longer : longer = [i \in 1 .. k + 1 |-> Block(n, rate, i - 1)]
  OBVIOUS
<1>4. DOMAIN blocks = 1 .. k /\ DOMAIN longer = 1 .. k + 1 /\ longer[k + 1] = Block(n, rate, k)
  BY <1>1, <1>2, <1>3
<1>5. ASSUME NEW i \in 1 .. k PROVE longer[i] = blocks[i]
  <2>1. PICK j \in Nat : j = i - 1 /\ j < k
    BY <1>1
  <2>2. Block(n, rate, j) = FullBlock(rate, j)
    BY <2>1, BlockFull
  <2>3. QED BY <1>1, <1>2, <1>3, <2>1, <2>2
<1>6. AbsorbBlocks(longer) = AbsorbBlock(AbsorbBlocks(blocks), longer[k + 1])
  BY <1>1, <1>4, <1>5, AbsorbBlocksNext
<1>7. Sponge(n, rate) = AbsorbBlocks(longer) /\ Chain(rate, k) = AbsorbBlocks(blocks)
  BY <1>1, <1>2, <1>3 DEF Sponge, Chain
<1>8. QED BY <1>4, <1>6, <1>7

LEMMA Disjoint ==
  ASSUME NEW a, NEW b, NEW c, b \cap c = {}
  PROVE  XOR(b, c) = b \cup c /\ XOR(XOR(a, b), c) = XOR(a, b \cup c)
BY DEF XOR

LEMMA Unpadded ==
  ASSUME NEW a
  PROVE  XOR(a, {}) = a
BY DEF XOR

\* The words that the padding meets.
LEMMA PaddingApart ==
  ASSUME NEW n \in Nat, NEW t \in 0 .. 7
  PROVE  /\ SavedAt(n, t) \cap {<<t, Suffix>>} = {}
         /\ (SavedAt(n, t) \cup {<<t, Suffix>>}) \cap {<<7, LastBit>>} = {}
<1>1. \A x \in SavedAt(n, t) : x[1] \in 0 .. t - 1
  BY DEF SavedAt
<1>2. \A b : <<t, b>> \notin SavedAt(n, t) /\ <<7, b>> \notin SavedAt(n, t)
  BY <1>1
<1>3. <<t, Suffix>> # <<7, LastBit>>
  BY DEF Suffix, LastBit
<1>4. PICK x, y, saved : x = <<t, Suffix>> /\ y = <<7, LastBit>> /\ saved = SavedAt(n, t)
  OBVIOUS
<1>5. x \notin saved /\ y \notin saved /\ x # y
  BY <1>2, <1>3, <1>4
<1>6. QED BY <1>4, <1>5

\* The sponge that is permuted last.
PaddedSponge(s, word, last, saved, t) ==
  LET padded == [s EXCEPT ![word] = XOR(@, XOR(saved, {<<t, Suffix>>}))]
  IN [padded EXCEPT ![last] = XOR(@, {<<7, LastBit>>})]

LEMMA PaddedSpongeIs ==
  ASSUME NEW n, NEW rate, NEW k, NEW word, NEW t, Place(n, rate, k, word, t),
         NEW last \in Lanes, 8 * last + 8 = rate, NEW l \in Lanes
  PROVE  PaddedSponge(SpongeOf(rate, k, word), word, last, SavedAt(n, t), t)[l] =
           XOR(Chain(rate, k)[l], Block(n, rate, k)[l])
<1>1. /\ word \in Nat /\ t \in 0 .. 7 /\ n \in Nat
      /\ word <= last /\ word \in Lanes /\ rate \in {136, 104, 72}
  BY PlaceIs DEF Place, Lanes, SpongeWords
<1>2. PICK chain, saved, suffix, final :
        /\ chain = Chain(rate, k)[l] /\ saved = SavedAt(n, t)
        /\ suffix = {<<t, Suffix>>} /\ final = {<<7, LastBit>>}
  OBVIOUS
<1>3. saved \cap suffix = {} /\ (saved \cup suffix) \cap final = {}
  BY <1>1, <1>2, PaddingApart
<1>4. XOR(saved, suffix) = saved \cup suffix
  BY <1>3, Disjoint
<1>5. PICK s : s = SpongeOf(rate, k, word)
  OBVIOUS
<1>6. s[l] = (IF l < word THEN XOR(chain, WordAt(k * rate + 8 * l)) ELSE chain) /\ DOMAIN s = Lanes
  BY <1>2, <1>5 DEF SpongeOf
<1>7. PaddedSponge(s, word, last, saved, t)[l] =
        LET a == IF l = word THEN XOR(s[l], saved \cup suffix) ELSE s[l]
        IN IF l = last THEN XOR(a, final) ELSE a
  <2>1. PICK padded : padded = [s EXCEPT ![word] = XOR(@, XOR(saved, {<<t, Suffix>>}))]
    OBVIOUS
  <2>2. DOMAIN padded = Lanes /\ padded[l] = IF l = word THEN XOR(s[l], saved \cup suffix) ELSE s[l]
    BY <1>1, <1>2, <1>4, <1>6, <2>1
  <2>3. PaddedSponge(s, word, last, saved, t) = [padded EXCEPT ![last] = XOR(@, final)]
    BY <1>2, <2>1 DEF PaddedSponge
  <2>4. QED BY <2>2, <2>3
<1>8. l \in Nat /\ last \in Nat /\ (l = last <=> 8 * l + 8 = rate) /\ (8 * l >= rate <=> l > last)
  BY <1>1 DEF Lanes
<1>9. CASE l > last
  <2>1. Block(n, rate, k)[l] = {}
    BY <1>8, <1>9 DEF Block
  <2>2. PaddedSponge(s, word, last, saved, t)[l] = chain
    BY <1>1, <1>6, <1>7, <1>8, <1>9
  <2>3. QED BY <1>2, <1>5, <2>1, <2>2, Unpadded
<1>10. CASE l <= last
  <2>1. PICK base : base = k * rate + 8 * l
    OBVIOUS
  <2>2. Block(n, rate, k)[l] = BlockWord(n, rate, base)
    BY <1>8, <1>10, <2>1 DEF Block, BlockWord
  <2>3. l \in Nat /\ 8 * l < rate
    BY <1>1, <1>8, <1>10
  <2>4. Block(n, rate, k)[l] = LastWord(n, rate, k, word, t, l)
    BY <2>1, <2>2, <2>3, BlockWordLast
  <2>5. Block(n, rate, k)[l] =
          (IF l < word THEN WordAt(base) ELSE IF l = word THEN saved \cup suffix ELSE {})
          \cup IF l = last THEN final ELSE {}
    BY <1>2, <1>8, <2>1, <2>4 DEF LastWord
  <2>6. CASE l < word
    <3>1. l # last /\ l # word
      BY <1>1, <1>8, <2>6
    <3>2. QED BY <1>2, <1>5, <1>6, <1>7, <2>1, <2>5, <2>6, <3>1
  <2>7. CASE l = word
    <3>1. ~(l < word)
      BY <1>1, <2>7
    <3>2. CASE l = last
      <4>1. Block(n, rate, k)[l] = (saved \cup suffix) \cup final
        BY <2>5, <2>7, <3>1, <3>2
      <4>2. PaddedSponge(s, word, last, saved, t)[l] = XOR(XOR(chain, saved \cup suffix), final)
        BY <1>6, <1>7, <2>7, <3>1, <3>2
      <4>3. QED BY <1>2, <1>3, <1>5, <4>1, <4>2, Disjoint
    <3>3. CASE l # last
      <4>1. Block(n, rate, k)[l] = saved \cup suffix
        BY <2>5, <2>7, <3>1, <3>3
      <4>2. PaddedSponge(s, word, last, saved, t)[l] = XOR(chain, saved \cup suffix)
        BY <1>6, <1>7, <2>7, <3>1, <3>3
      <4>3. QED BY <1>2, <1>5, <4>1, <4>2
    <3>4. QED BY <3>2, <3>3
  <2>8. CASE l > word
    <3>1. ~(l < word) /\ l # word
      BY <1>1, <1>8, <2>8
    <3>2. Block(n, rate, k)[l] = IF l = last THEN final ELSE {}
      BY <2>5, <3>1
    <3>3. PaddedSponge(s, word, last, saved, t)[l] = IF l = last THEN XOR(chain, final) ELSE chain
      BY <1>6, <1>7, <3>1
    <3>4. QED BY <1>2, <1>5, <3>2, <3>3, Unpadded
  <2>9. QED BY <1>1, <1>8, <2>6, <2>7, <2>8
<1>11. QED BY <1>8, <1>9, <1>10

\* So what getHash() copies from is the sponge of FIPS 202.
LEMMA PadAndPermuteAt ==
  ASSUME NEW w \in {256, 384, 512}, NEW n, n \in Nat
  PROVE  PadAndPermute(ContextAt(w, n)).s = Sponge(n, Rate(w))
<1>1. PICK rate \in {136, 104, 72}, capacity \in {8, 12, 16} :
        rate = Rate(w) /\ capacity = (2 * w) \div 64 /\ rate = 8 * (25 - capacity)
  BY Rates DEF SpongeWords
<1>2. PICK k, word, t : Place(n, rate, k, word, t)
  BY <1>1, PlaceOfByte
<1>3. PICK s, saved : s = SpongeOf(rate, k, word) /\ saved = SavedAt(n, t)
  OBVIOUS
<1>4. PICK c : c = Context(saved, s, t, word, capacity)
  OBVIOUS
<1>5. ContextAt(w, n) = c
  <2>1. Place(n, Rate(w), k, word, t)
    BY <1>1, <1>2
  <2>2. ContextAt(w, n) =
          Context(SavedAt(n, t), SpongeOf(Rate(w), k, word), t, word, (2 * w) \div 64)
    BY <2>1, ContextAtPlace
  <2>3. QED BY <1>1, <1>3, <1>4, <2>2
<1>6. PICK last \in Lanes : last = 25 - capacity - 1 /\ 8 * last + 8 = rate
  BY <1>1 DEF Lanes, SpongeWords
<1>7. /\ c.s = s /\ c.wordIndex = word /\ c.saved = saved /\ c.byteIndex = t
      /\ RateWords(c) - 1 = last
  BY <1>4, <1>6 DEF Context, RateWords, SpongeWords
<1>8. PICK padded : padded = PaddedSponge(s, word, last, saved, t)
  OBVIOUS
<1>9. PadAndPermute(c) = [c EXCEPT !.s = Permuted(padded)]
  BY <1>7, <1>8 DEF PadAndPermute, PaddedSponge
<1>10. PadAndPermute(c).s = Permuted(padded)
  BY <1>4, <1>9 DEF Context
<1>11. \A l \in Lanes : padded[l] = XOR(Chain(rate, k)[l], Block(n, rate, k)[l])
  BY <1>2, <1>3, <1>6, <1>8, PaddedSpongeIs
<1>12. padded = [l \in Lanes |-> padded[l]]
  <2>1. PICK middle : middle = [s EXCEPT ![word] = XOR(@, XOR(saved, {<<t, Suffix>>}))]
    OBVIOUS
  <2>2. s = [l \in Lanes |-> s[l]]
    BY <1>3 DEF SpongeOf
  <2>3. middle = [l \in Lanes |-> middle[l]]
    BY <2>1, <2>2
  <2>4. padded = [middle EXCEPT ![last] = XOR(@, {<<7, LastBit>>})]
    BY <1>8, <2>1 DEF PaddedSponge
  <2>5. QED BY <2>3, <2>4
<1>13. padded = [l \in Lanes |-> XOR(Chain(rate, k)[l], Block(n, rate, k)[l])]
  BY <1>11, <1>12
<1>14. Sponge(n, rate) = Permuted(padded)
  BY <1>2, <1>13, SpongeIs DEF AbsorbBlock
<1>15. QED BY <1>1, <1>5, <1>10, <1>14

\* Until it is finalized the context is that of the bytes fed, so that nothing of how
\* they were cut into pieces is left in it.
HashInv ==
  /\ phase \in {"none", "updating", "finalized"} /\ fed \in Nat
  /\ phase # "none" => width \in {256, 384, 512}
  /\ phase = "updating" => ctx = ContextAt(width, fed)
  /\ HashIsOfMessage

LEMMA Constructed ==
  ASSUME NEW w \in {256, 384, 512}
  PROVE  [Zero EXCEPT !.capacityWords = (2 * w) \div 64] = ContextAt(w, 0)
<1>1. PICK capacity, rate : capacity = (2 * w) \div 64 /\ rate = Rate(w)
  OBVIOUS
<1>2. [Zero EXCEPT !.capacityWords = capacity] = Context({}, NoSponge, 0, 0, capacity)
  BY DEF Zero, Context, NoSponge
<1>3. Place(0, rate, 0, 0, 0)
  BY <1>1, Rates DEF Place
<1>4. ContextAt(w, 0) = Context({}, SpongeOf(rate, 0, 0), 0, 0, capacity)
  BY <1>1, <1>3, NothingSaved
<1>5. SpongeOf(rate, 0, 0) = NoSponge
  <2>1. \A l \in Lanes : ~(l < 0)
    BY DEF Lanes
  <2>2. Chain(rate, 0) = NoSponge
    BY ChainNext
  <2>3. QED BY <2>1, <2>2 DEF SpongeOf, NoSponge
<1>6. QED BY <1>1, <1>2, <1>4, <1>5

LEMMA HashStep ==
  ASSUME Sha3Assumption, HashInv, [Next]_vars
  PROVE  HashInv'
<1>1. CASE Construct
  <2>1. PICK w \in Widths : width' = w /\ ctx' = [Zero EXCEPT !.capacityWords = (2 * w) \div 64]
    BY <1>1 DEF Construct
  <2>2. w \in {256, 384, 512} /\ phase' = "updating" /\ fed' = 0
    BY <1>1 DEF Construct, Sha3Assumption
  <2>3. ctx' = ContextAt(width', fed')
    BY <2>1, <2>2, Constructed
  <2>4. QED BY <2>1, <2>2, <2>3 DEF HashInv, HashIsOfMessage
<1>2. CASE Update
  <2>1. PICK len \in Pieces :
          fed' = fed + len /\ ctx' = Absorb(ctx, [n \in 1 .. len |-> MessageByte(fed + n)])
    BY <1>2 DEF Update
  <2>2. len \in Nat /\ fed \in Nat /\ width \in {256, 384, 512} /\ ctx = ContextAt(width, fed)
    BY <1>2 DEF Update, Sha3Assumption, HashInv
  <2>3. ctx' = Absorb(ctx, Bytes(fed, len))
    BY <2>1 DEF Bytes
  <2>4. ctx' = ContextAt(width, fed')
    BY <2>1, <2>2, <2>3, AbsorbAt
  <2>5. phase' = "updating" /\ width' = width /\ fed' \in Nat
    BY <1>2, <2>1, <2>2 DEF Update
  <2>6. QED BY <2>2, <2>4, <2>5 DEF HashInv, HashIsOfMessage
<1>3. CASE Finalize
  <2>1. width \in {256, 384, 512} /\ fed \in Nat /\ ctx = ContextAt(width, fed)
    BY <1>3 DEF Finalize, HashInv
  <2>2. PICK s : s = ctx'.s
    OBVIOUS
  <2>3. ctx' = PadAndPermute(ctx) /\ digest' = [n \in 1 .. width \div 64 |-> s[n - 1]]
    BY <1>3, <2>2 DEF Finalize
  <2>4. s = Sponge(fed, Rate(width))
    BY <2>1, <2>2, <2>3, PadAndPermuteAt
  <2>5. PICK rate : rate = Rate(width) /\ rate = 200 - width \div 4
    BY DEF Rate
  <2>6. digest' = [n \in 1 .. width \div 64 |-> Sponge(fed, 200 - width \div 4)[n - 1]]
    BY <2>3, <2>4, <2>5
  <2>7. phase' = "finalized" /\ width' = width /\ fed' = fed
    BY <1>3 DEF Finalize
  <2>8. HashIsOfMessage'
    BY <2>6, <2>7 DEF HashIsOfMessage
  <2>9. QED BY <2>1, <2>7, <2>8 DEF HashInv
<1>4. CASE UNCHANGED vars
  BY <1>4 DEF HashInv, HashIsOfMessage, vars
<1>5. QED BY <1>1, <1>2, <1>3, <1>4 DEF Next

\* However a message is cut into pieces, and whatever its length, its hash is the one
\* of FIPS 202.
THEOREM HashOfMessage ==
  ASSUME Sha3Assumption
  PROVE  Spec => []HashIsOfMessage
<1>1. Init => HashInv
  BY DEF Init, HashInv, HashIsOfMessage
<1>2. HashInv /\ [Next]_vars => HashInv'
  BY HashStep
<1>3. HashInv => HashIsOfMessage
  BY DEF HashInv
<1>4. QED BY <1>1, <1>2, <1>3, PTL DEF Spec
=============================================================================
