------------------------------- MODULE Keccak -------------------------------
(***************************************************************************)
(* keccakf of hash/sha3.c, the permutation under the sponge of module      *)
(* Sha3: one step is one round of its loop.  A 64-bit word is the set of   *)
(* the positions of its ones, and the tables are those of the code.        *)
(***************************************************************************)
EXTENDS Integers, Sequences, SequencesExt

CONSTANT Seeds       \* sets of positions 0 .. 63, to fill the state with

KeccakAssumption == \A seed \in Seeds : seed \subseteq 0 .. 63

VARIABLES s, round

vars == <<s, round>>

Lane == 0 .. 24
Column == 0 .. 4
XOR(a, b) == (a \ b) \cup (b \ a)
ROTL64(word, n) == {(i + n) % 64 : i \in word}

keccakf_rndc ==
  <<{0}, {1, 7, 15}, {1, 3, 7, 15, 63}, {15, 31, 63},
    {0, 1, 3, 7, 15}, {0, 31}, {0, 7, 15, 31, 63}, {0, 3, 15, 63},
    {1, 3, 7}, {3, 7}, {0, 3, 15, 31}, {1, 3, 31},
    {0, 1, 3, 7, 15, 31}, {0, 1, 3, 7, 63}, {0, 3, 7, 15, 63},
    {0, 1, 15, 63}, {1, 15, 63}, {7, 63}, {1, 3, 15}, {1, 3, 31, 63},
    {0, 7, 15, 31, 63}, {7, 15, 63}, {0, 31}, {3, 15, 31, 63}>>

keccakf_rotc == <<1, 3, 6, 10, 15, 21, 28, 36, 45, 55, 2, 14, 27, 41, 56, 8, 25, 43, 62,
                  18, 39, 61, 20, 44>>
keccakf_piln == <<10, 7, 11, 17, 18, 3, 5, 16, 8, 21, 24, 4, 15, 23, 19, 13, 12, 2, 20,
                  14, 22, 9, 6, 1>>

\* No call of the permutation yet; one begins on a state filled with a seed.
Init == s = [l \in Lane |-> {}] /\ round = 24

Begin == /\ round = 24 /\ round' = 0
         /\ \E seed \in Seeds : s' = [l \in Lane |-> ROTL64(seed, l * l)]

Theta(a) ==
  LET bc == [i \in Column |-> XOR(a[i], XOR(a[i + 5], XOR(a[i + 10], XOR(a[i + 15], a[i + 20]))))]
      t == [i \in Column |-> XOR(bc[(i + 4) % 5], ROTL64(bc[(i + 1) % 5], 1))]
  IN [l \in Lane |-> XOR(a[l], t[l % 5])]

\* Each lane of the cycle gets, rotated, what the one before it had.
RhoPi(a) ==
  LET From(n) == IF n = 1 THEN 1 ELSE keccakf_piln[n - 1]
  IN [l \in Lane |-> UNION {ROTL64(a[From(n)], keccakf_rotc[n]) :
                            n \in {n \in 1 .. 24 : keccakf_piln[n] = l}}
                     \cup (IF l = 0 THEN a[0] ELSE {})]

\* Mutant: the first lane of a row is overwritten before the others are computed.
ChiInPlace(a) ==
  LET b == [l \in Lane |-> IF l % 5 = 0 THEN XOR(a[l], a[l + 2] \ a[l + 1]) ELSE a[l]]
  IN [l \in Lane |-> IF l % 5 = 0 THEN b[l]
        ELSE XOR(b[l], b[(l - (l % 5)) + ((l + 2) % 5)] \ b[(l - (l % 5)) + ((l + 1) % 5)])]

Chi(a) ==
  LET InRow(l, k) == a[(l - (l % 5)) + (((l % 5) + k) % 5)]
  IN [l \in Lane |-> XOR(a[l], InRow(l, 2) \ InRow(l, 1))]

Round ==
  /\ round < 24 /\ round' = round + 1
  /\ s' = [Chi(RhoPi(Theta(s))) EXCEPT ![0] = XOR(@, keccakf_rndc[round + 1])]

Next == Begin \/ Round

Spec == Init /\ [][Next]_vars

-----------------------------------------------------------------------------
(* FIPS 202, section 3.2: the step mappings on the bits A[x, y, z].        *)

Cube == Column \X Column \X (0 .. 63)
BitsOf(a) == {p \in Cube : p[3] \in a[p[1] + 5 * p[2]]}
Odd(S) == Cardinality(S) % 2 = 1

FipsTheta(A) ==
  LET C == {p \in Column \X (0 .. 63) : Odd({y \in Column : <<p[1], y, p[2]>> \in A})}
      D(x, z) == (<<(x + 4) % 5, z>> \in C) # (<<(x + 1) % 5, (z + 63) % 64>> \in C)
  IN {p \in Cube : (p \in A) # D(p[1], p[3])}

\* The t-th column of the walk from (1, 0) by (x, y) -> (y, 2x + 3y) is shifted
\* by the t-th triangular number.
FipsRho(A) ==
  LET walk == FoldLeft(LAMBDA w, t : Append(w, <<w[t][2], (2 * w[t][1] + 3 * w[t][2]) % 5>>),
                       <<<<1, 0>>>>, [t \in 1 .. 23 |-> t])
      Offset(column) == MapThenSumSet(LAMBDA t : (t * (t + 1)) \div 2,
                                      {t \in 1 .. 24 : walk[t] = column})
  IN {<<p[1], p[2], (p[3] + Offset(<<p[1], p[2]>>)) % 64>> : p \in A}

FipsPi(A) == {p \in Cube : <<(p[1] + 3 * p[2]) % 5, p[1], p[3]>> \in A}

FipsChi(A) ==
  LET Beside(p, k) == <<(p[1] + k) % 5, p[2], p[3]>> \in A
  IN {p \in Cube : (p \in A) # (~Beside(p, 1) /\ Beside(p, 2))}

\* rc(t), the bit of the register with feedback x^8 + x^6 + x^5 + x^4 + 1 after t
\* steps: the register is the set of the places of its ones.
RegisterStep(R) == LET shifted == {i + 1 : i \in R}
                   IN (IF 8 \in shifted THEN XOR(shifted, {0, 4, 5, 6}) ELSE shifted) \ {8}
RoundConstant(n) ==
  {2 ^ j - 1 : j \in {j \in 0 .. 6 :
     0 \in FoldLeft(LAMBDA R, i : RegisterStep(R), {0}, [i \in 1 .. j + 7 * n |-> i])}}
FipsIota(A, n) == XOR(A, {<<0, 0, z>> : z \in RoundConstant(n)})

\* A round does what the standard says, to every bit: the rotations, the cycle
\* that the lanes move along, the rows that are read while they are written, and
\* the round constants, tables typed in by hand.
RoundIsFips ==
  [][round < 24 =>
       BitsOf(s') = FipsIota(FipsChi(FipsPi(FipsRho(FipsTheta(BitsOf(s))))), round)]_vars
=============================================================================
