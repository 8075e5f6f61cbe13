-------------------------------- MODULE Sha3 --------------------------------
(***************************************************************************)
(* The sponge of hash/sha3.c under Sha3_Hasher (hash/sha3_hasher.hpp): a   *)
(* message fed in pieces of any length, then padded and squeezed.          *)
(*                                                                         *)
(* Bytes are symbols.  A 64-bit word is the set of what is in it, pairs of *)
(* a byte's place in the word and a symbol, so that XOR is the symmetric   *)
(* difference, OR the union, and a shift the choice of the place.  The     *)
(* permutation (module Keccak) is a parameter.                             *)
(***************************************************************************)
EXTENDS Integers, Sequences, SequencesExt

CONSTANTS
  Permutation(_),    \* keccakf, of the sponge's words
  Widths,            \* the NBits of the hashers
  Pieces,            \* the lengths that update() is called with
  MaxLength          \* bound: the length of a message

Sha3Assumption ==
  /\ Widths \subseteq {256, 384, 512} /\ Pieces \subseteq Nat /\ MaxLength \in Nat

VARIABLES
  ctx,               \* sha3_context
  phase,             \* "none" before the first Init, "updating", "finalized"
  width,
  fed,               \* history: the length of the message
  digest

vars == <<ctx, phase, width, fed, digest>>

SpongeWords == 25
Lanes == 0 .. SpongeWords - 1
XOR(a, b) == (a \ b) \cup (b \ a)

MessageByte(n) == <<"byte", n>>
Suffix == <<"01 and the first bit of the padding">>
LastBit == <<"the last bit of the padding">>

Zero == [saved |-> {}, s |-> [l \in Lanes |-> {}], byteIndex |-> 0, wordIndex |-> 0,
         capacityWords |-> 0]

Init == ctx = Zero /\ phase = "none" /\ width = 0 /\ fed = 0 /\ digest = <<>>

\* sha3_Init256, sha3_Init384, sha3_Init512: "for Init or Reset".
Construct ==
  /\ \E w \in Widths : /\ width' = w
                       /\ ctx' = [Zero EXCEPT !.capacityWords = (2 * w) \div 64]
  /\ phase' = "updating" /\ fed' = 0 /\ digest' = <<>>

-----------------------------------------------------------------------------
(* sha3_Update.                                                            *)

Save(c, bytes) ==
  [c EXCEPT !.saved = @ \cup {<<c.byteIndex + n - 1, bytes[n]>> : n \in DOMAIN bytes},
            !.byteIndex = @ + Len(bytes)]

\* The permutation leaves its result in the sponge.
Permuted(s) == [l \in Lanes |-> Permutation(s)[l]]

RateWords(c) == SpongeWords - c.capacityWords

AddWord(c, word) ==
  LET s == [c.s EXCEPT ![c.wordIndex] = XOR(@, word)]
      full == c.wordIndex + 1 = RateWords(c)
  IN [c EXCEPT !.s = IF full THEN Permuted(s) ELSE s,
               !.wordIndex = IF full THEN 0 ELSE @ + 1]

\* Mutant: the saved bytes are ORed into the next word too.
AddSavedOnce(c) == [AddWord(c, c.saved) EXCEPT !.byteIndex = 0]
AddSaved(c) == [AddWord(c, c.saved) EXCEPT !.saved = {}, !.byteIndex = 0]

AddWords(c, words) == FoldLeft(AddWord, c, words)

\* The whole words of the bytes.
WordOf(bytes, n) == {<<place, bytes[8 * (n - 1) + place + 1]>> : place \in 0 .. 7}
WordsOf(bytes) == [n \in 1 .. Len(bytes) \div 8 |-> WordOf(bytes, n)]

Absorb(c, buf) ==
  LET oldTail == (8 - c.byteIndex) % 8
      first == IF oldTail = 0 THEN c ELSE AddSaved(Save(c, SubSeq(buf, 1, oldTail)))
      rest == SubSeq(buf, oldTail + 1, Len(buf))
  IN IF Len(buf) < oldTail THEN Save(c, buf)
     ELSE Save(AddWords(first, WordsOf(rest)), SubSeq(rest, 8 * (Len(rest) \div 8) + 1, Len(rest)))

\* The asserts of the hasher rule out an update() or a second getHash() behind it.
Update ==
  /\ phase = "updating"
  /\ \E len \in Pieces : /\ fed + len <= MaxLength /\ fed' = fed + len
                         /\ ctx' = Absorb(ctx, [n \in 1 .. len |-> MessageByte(fed + n)])
  /\ UNCHANGED <<phase, width, digest>>

-----------------------------------------------------------------------------
(* sha3_Finalize, and what getHash() copies of the result.                 *)

PadAndPermute(c) ==
  LET padded == [c.s EXCEPT ![c.wordIndex] = XOR(@, XOR(c.saved, {<<c.byteIndex, Suffix>>}))]
  IN [c EXCEPT !.s = Permuted([padded EXCEPT ![RateWords(c) - 1] = XOR(@, {<<7, LastBit>>})])]

Finalize ==
  /\ phase = "updating" /\ phase' = "finalized"
  /\ ctx' = PadAndPermute(ctx)
  /\ digest' = [n \in 1 .. width \div 64 |-> ctx'.s[n - 1]]
  /\ UNCHANGED <<width, fed>>

Next == Construct \/ Update \/ Finalize

Spec == Init /\ [][Next]_vars

-----------------------------------------------------------------------------
(* FIPS 202: SHA3-d(M) = KECCAK[2d](M || 01, d), with bytes for bits.      *)

\* The byte at i, from 0, of the message of n bytes padded to a multiple of rate.
PaddedByte(n, rate, i) ==
  {MessageByte(i + 1) : j \in {i} \cap 0 .. n - 1}
  \cup {Suffix : j \in {i} \cap {n}}
  \cup {LastBit : j \in {i} \cap {(n \div rate) * rate + rate - 1}}

\* The block at k, from 0, as the words it is XORed with.
Block(n, rate, k) ==
  [l \in Lanes |-> IF 8 * l >= rate THEN {}
     ELSE UNION {{<<place, b>> : b \in PaddedByte(n, rate, k * rate + 8 * l + place)} :
                 place \in 0 .. 7}]

AbsorbBlock(s, block) == Permuted([l \in Lanes |-> XOR(s[l], block[l])])
NoSponge == [l \in Lanes |-> {}]
AbsorbBlocks(blocks) == FoldLeft(AbsorbBlock, NoSponge, blocks)

Sponge(n, rate) == AbsorbBlocks([k \in 1 .. n \div rate + 1 |-> Block(n, rate, k - 1)])

\* The hash is that of the bytes fed since the last Init, however they were cut
\* into pieces: pieces that end inside a word, complete one or leave it just
\* short, that fill the sponge's rate or cross it, and empty ones.
HashIsOfMessage ==
  phase = "finalized" =>
    digest = [n \in 1 .. width \div 64 |-> Sponge(fed, 200 - width \div 4)[n - 1]]
=============================================================================
