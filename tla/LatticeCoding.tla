--------------------------- MODULE LatticeCoding ----------------------------
(***************************************************************************)
(* What the lattice schemes share: the number theoretic transforms and the *)
(* packing of coefficients into bytes; and ML-KEM below the interface that *)
(* Kem models: byte encoding, compression and rejection sampling, and the  *)
(* public-key encryption K-PKE.                                            *)
(***************************************************************************)
EXTENDS Integers, FiniteSets, Folds, Sequences, SequencesExt, Functions

-----------------------------------------------------------------------------
(****************************************************************************************)
(* The number-theoretic transforms modulo X^N + 1: the signed ones of ML-DSA (poly.c)   *)
(* and HAETAE (haetae_ntt.c), which split down to single coefficients and do not reduce *)
(* sums, and the canonical one of ML-KEM (NTT_.c), which stops at pairs.                *)
(****************************************************************************************)
CONSTANTS
  NttQ, LogN,        \* the prime and the degree 2^LogN
  Root,           \* kind "signed": a primitive root of unity of order 2N
  PairRoot,       \* kind "canonical": one of order N
  RadixBits,      \* the Montgomery radix is 2^RadixBits
  Inputs          \* polynomials multiplied, coefficients 0 .. Q - 1 or centred

NttN == 2^LogN
NttR == 2^RadixBits
NttPower(x, e) == LET p[k \in Nat] == IF k = 0 THEN 1 ELSE (p[k - 1] * x) % NttQ IN p[e]
ASSUME NttAssumption ==
  /\ NttPower(Root, NttN) = NttQ - 1 /\ NttPower(PairRoot, NttN \div 2) = NttQ - 1 /\ 2 * (LogN + 1) * (LogN + 1) * NttQ < NttR

VARIABLES kind, nttA, nttB, nttF, nttG, layer, nttPc
nttVars == <<kind, nttA, nttB, nttF, nttG, layer, nttPc>>

NttLayers == IF kind = "signed" THEN LogN ELSE LogN - 1
NttIndex == 0 .. NttN - 1
BitReversed(k, bits) ==
  LET r[n \in 0 .. bits] == IF n = 0 THEN 0 ELSE 2 * r[n - 1] + ((k \div 2^(n - 1)) % 2) IN r[bits]
NttCentred(x, m) == LET r == x % m IN IF 2 * r >= m THEN r - m ELSE r

QInv == CHOOSE x \in 1 .. NttR : (x * NttQ) % NttR = 1
Montgomery(x) == (x - NttCentred((x % NttR) * QInv, NttR) * NttQ) \div NttR
\* The table of each: in bit-reversed order and in Montgomery form, or in order and plain.
Zetas == [k \in NttIndex |-> IF kind = "signed" THEN NttCentred(NttPower(Root, BitReversed(k, LogN)) * NttR, NttQ) ELSE NttPower(PairRoot, k)]
Zeta(k) == IF kind = "signed" THEN Zetas[k] ELSE Zetas[BitReversed(k, LogN - 1)]
NttMul(x, z) == IF kind = "signed" THEN Montgomery(x * z) ELSE (x * z) % NttQ
Sum(x, y) == IF kind = "signed" THEN x + y ELSE (x + y) % NttQ

\* mld_ntt_layer: block by block, each with the next zeta.
Forward(r, l) ==
  LET len == NttN \div 2^l
      zeta(x) == Zeta(2^(l - 1) + (x \div (2 * len)))
  IN  [x \in NttIndex |-> IF x % (2 * len) < len THEN Sum(r[x], NttMul(r[x + len], zeta(x)))
                          ELSE Sum(r[x - len], -NttMul(r[x], zeta(x)))]
\* mld_invntt_layer: from the last zeta down, negated; NTT_inv turns the difference round instead.
Backward(r, l) ==
  LET len == NttN \div 2^l
      zeta(x) == Zeta((2^l - 1) - (x \div (2 * len)))
  IN  [x \in NttIndex |-> IF x % (2 * len) < len THEN Sum(r[x], r[x + len])
                          ELSE IF kind = "signed" THEN NttMul(r[x - len] - r[x], -zeta(x)) ELSE NttMul((r[x] - r[x - len]) % NttQ, zeta(x))]
\* mont^2 / N, or 2 / N
NttScale ==
  IF kind = "signed" THEN NttCentred((CHOOSE x \in 0 .. NttQ - 1 : (x * NttN) % NttQ = 1) * ((NttR * NttR) % NttQ), NttQ)
  ELSE CHOOSE x \in 0 .. NttQ - 1 : (x * (NttN \div 2)) % NttQ = 1

\* Pointwise, or pair by pair modulo X^2 - zeta^(2 brv(i) + 1) (mlkem_multiply_basic).
NttPointwise(r, s) ==
  IF kind = "signed" THEN [x \in NttIndex |-> Montgomery(r[x] * s[x])]
  ELSE [x \in NttIndex |->
         LET i == 2 * (x \div 2)
             z == Zetas[2 * BitReversed(x \div 2, LogN - 1) + 1]
         IN  IF x % 2 = 0 THEN (r[i] * s[i] + ((r[i + 1] * s[i + 1]) % NttQ) * z) % NttQ
             ELSE (r[i] * s[i + 1] + r[i + 1] * s[i]) % NttQ]

NttInit ==
  /\ kind \in {"signed", "canonical"} /\ nttA \in Inputs /\ nttB \in Inputs
  /\ nttF = (IF kind = "signed" THEN nttA ELSE [x \in NttIndex |-> nttA[x] % NttQ])
  /\ nttG = (IF kind = "signed" THEN nttB ELSE [x \in NttIndex |-> nttB[x] % NttQ])
  /\ layer = 1 /\ nttPc = "forward"
ForwardLayer ==
  /\ nttPc = "forward" /\ nttF' = Forward(nttF, layer) /\ nttG' = Forward(nttG, layer)
  /\ layer' = layer + 1 /\ nttPc' = (IF layer = NttLayers THEN "multiply" ELSE nttPc)
  /\ UNCHANGED <<kind, nttA, nttB>>
NttMultiply ==
  /\ nttPc = "multiply" /\ nttF' = NttPointwise(nttF, nttG) /\ layer' = NttLayers /\ nttPc' = "backward"
  /\ UNCHANGED <<kind, nttA, nttB, nttG>>
BackwardLayer ==
  /\ nttPc = "backward" /\ nttF' = Backward(nttF, layer)
  /\ layer' = layer - 1 /\ nttPc' = (IF layer = 1 THEN "scale" ELSE nttPc)
  /\ UNCHANGED <<kind, nttA, nttB, nttG>>
ScaleAll ==
  /\ nttPc = "scale" /\ nttF' = [x \in NttIndex |-> NttMul(nttF[x], NttScale)] /\ nttPc' = "done"
  /\ UNCHANGED <<kind, nttA, nttB, nttG, layer>>
NttFinished == nttPc = "done" /\ UNCHANGED nttVars
NttNext == ForwardLayer \/ NttMultiply \/ BackwardLayer \/ ScaleAll \/ NttFinished
NttSpec == NttInit /\ [][NttNext]_nttVars

(* ------------------------------- properties ----------------------------- *)
Schoolbook ==
  [x \in NttIndex |->
    MapThenFoldSet(+, 0, LAMBDA i : IF i <= x THEN nttA[i] * nttB[x - i] ELSE -(nttA[i] * nttB[(NttN + x) - i]), LAMBDA S : CHOOSE i \in S : TRUE, NttIndex)]

(* Forwards, pointwise and backwards is the product modulo X^N + 1: the order of the zetas in *)
(* both directions, the sign, the pairs, and the factor that the Montgomery products cost.    *)
ProductIsRight == nttPc = "done" => \A x \in NttIndex : (nttF[x] - Schoolbook[x]) % NttQ = 0

(* Sums are not reduced, so coefficients grow by Q a layer forwards and double backwards, and *)
(* not beyond: every product stays where the reduction is exact and small, to the last layer. *)
CoefficientsBounded ==
  IF kind = "canonical" THEN \A x \in NttIndex : nttF[x] \in 0 .. NttQ - 1 /\ nttG[x] \in 0 .. NttQ - 1
  ELSE LET bound == CASE nttPc = "forward" -> layer * NttQ [] nttPc = "multiply" -> (LogN + 1) * NttQ
                      [] nttPc = "backward" -> (NttN \div 2^layer) * NttQ [] nttPc = "scale" -> NttN * NttQ [] nttPc = "done" -> NttQ
       IN  \A x \in NttIndex : -bound < nttF[x] /\ nttF[x] < bound /\ (nttPc \in {"forward", "multiply"} => -bound < nttG[x] /\ nttG[x] < bound)


-----------------------------------------------------------------------------
(*************************************************************************************)
(* How ML-DSA and HAETAE pack coefficients into bytes and read them back (poly.c,    *)
(* poly_kl.c, haetae_poly.c): one table per function, which says which bits of which *)
(* coefficient go where in which byte of a group, and the reverse.                   *)
(*************************************************************************************)
CONSTANTS
  Layouts,        \* names of the layouts tried
  Groups,         \* groups of coefficients of a polynomial: N / 8, N / 4 or N / 2
  Foreign         \* values of one byte of a polynomial that was not packed here
ASSUME LayoutsAssumption == Groups \in Nat \ {0} /\ Foreign \subseteq 0 .. 255

VARIABLES layout, coeffs, layoutBytes, read, layoutPc
layoutVars == <<layout, coeffs, layoutBytes, read, layoutPc>>

\* (x[of] >> low) << at, and of it as many bits as the mask keeps.
Part(of, low, at, bits) == [of |-> of, low |-> low, at |-> at, bits |-> bits]
Whole == 20
LayoutR(of, low) == Part(of, low, 0, Whole - low)
LayoutL(of, at)  == Part(of, 0, at, Whole)
BitsOf(x, p) == {p.at + k : k \in {k \in 0 .. p.bits - 1 : (x[p.of + 1] \div 2^(p.low + k)) % 2 = 1}}
\* Parts joined with | and cut to a width.
LayoutJoined(x, parts, width) ==
  LET set == UNION {BitsOf(x, parts[j]) : j \in DOMAIN parts}
  IN  FoldFunctionOnSet(+, 0, [k \in 0 .. width - 1 |-> 2^k], set \cap (0 .. width - 1))

T1 ==   \* mld_polyt1_pack and _unpack
  [width |-> 10,
   pack |-> <<<<LayoutR(0,0)>>, <<LayoutR(0,8), LayoutL(1,2)>>, <<LayoutR(1,6), LayoutL(2,4)>>, <<LayoutR(2,4), LayoutL(3,6)>>, <<LayoutR(3,2)>>>>,
   unpack |-> <<<<LayoutR(0,0), LayoutL(1,8)>>, <<LayoutR(1,2), LayoutL(2,6)>>, <<LayoutR(2,4), LayoutL(3,4)>>, <<LayoutR(3,6), LayoutL(4,2)>>>>]
T0Pack == <<<<LayoutR(0,0)>>, <<LayoutR(0,8), LayoutL(1,5)>>, <<LayoutR(1,3)>>, <<LayoutR(1,11), LayoutL(2,2)>>, <<LayoutR(2,6), LayoutL(3,7)>>, <<LayoutR(3,1)>>,
  <<LayoutR(3,9), LayoutL(4,4)>>, <<LayoutR(4,4)>>, <<LayoutR(4,12), LayoutL(5,1)>>, <<LayoutR(5,7), LayoutL(6,6)>>, <<LayoutR(6,2)>>, <<LayoutR(6,10), LayoutL(7,3)>>, <<LayoutR(7,5)>>>>
FaultyT0Unpack == <<<<LayoutR(0,0), LayoutL(1,8)>>, <<LayoutR(1,5), LayoutL(2,3), LayoutL(3,11)>>, <<LayoutR(3,2), LayoutL(4,6)>>, <<LayoutR(4,7), LayoutL(5,1), LayoutL(6,9)>>,
  <<LayoutR(6,4), LayoutL(7,4)>>, <<LayoutR(8,1), LayoutL(9,7)>>, <<LayoutR(9,6), LayoutL(10,2), LayoutL(11,10)>>, <<LayoutR(11,3), LayoutL(12,5)>>>>
T0Unpack == <<<<LayoutR(0,0), LayoutL(1,8)>>, <<LayoutR(1,5), LayoutL(2,3), LayoutL(3,11)>>, <<LayoutR(3,2), LayoutL(4,6)>>, <<LayoutR(4,7), LayoutL(5,1), LayoutL(6,9)>>,
  <<LayoutR(6,4), LayoutL(7,4), LayoutL(8,12)>>, <<LayoutR(8,1), LayoutL(9,7)>>, <<LayoutR(9,6), LayoutL(10,2), LayoutL(11,10)>>, <<LayoutR(11,3), LayoutL(12,5)>>>>
T0 == [width |-> 13, pack |-> T0Pack, unpack |-> T0Unpack]
Z18Pack == <<<<LayoutR(0,0)>>, <<LayoutR(0,8)>>, <<LayoutR(0,16), LayoutL(1,2)>>, <<LayoutR(1,6)>>, <<LayoutR(1,14), LayoutL(2,4)>>, <<LayoutR(2,4)>>, <<LayoutR(2,12), LayoutL(3,6)>>,
  <<LayoutR(3,2)>>, <<LayoutR(3,10)>>>>
Z18Unpack == <<<<LayoutR(0,0), LayoutL(1,8), LayoutL(2,16)>>, <<LayoutR(2,2), LayoutL(3,6), LayoutL(4,14)>>, <<LayoutR(4,4), LayoutL(5,4), LayoutL(6,12)>>, <<LayoutR(6,6), LayoutL(7,2), LayoutL(8,10)>>>>
Z20Pack == <<<<LayoutR(0,0)>>, <<LayoutR(0,8)>>, <<LayoutR(0,16), LayoutL(1,4)>>, <<LayoutR(1,4)>>, <<LayoutR(1,12)>>>>
Z20Unpack == <<<<LayoutR(0,0), LayoutL(1,8), LayoutL(2,16)>>, <<LayoutR(2,4), LayoutL(3,4), LayoutL(4,12)>>>>
ThreePack == <<<<LayoutR(0,0), LayoutL(1,3), LayoutL(2,6)>>, <<LayoutR(2,2), LayoutL(3,1), LayoutL(4,4), LayoutL(5,7)>>, <<LayoutR(5,1), LayoutL(6,2), LayoutL(7,5)>>>>
ThreeUnpack == <<<<LayoutR(0,0)>>, <<LayoutR(0,3)>>, <<LayoutR(0,6), LayoutL(1,2)>>, <<LayoutR(1,1)>>, <<LayoutR(1,4)>>, <<LayoutR(1,7), LayoutL(2,1)>>, <<LayoutR(2,2)>>, <<LayoutR(2,5)>>>>
NibblePack == <<<<LayoutR(0,0), LayoutL(1,4)>>>>
NibbleUnpack == <<<<LayoutR(0,0)>>, <<LayoutR(0,4)>>>>
W1of88 == <<<<LayoutR(0,0), LayoutL(1,6)>>, <<LayoutR(1,2), LayoutL(2,4)>>, <<LayoutR(2,4), LayoutL(3,2)>>>>
\* HAETAE masks each part by itself.
High9Pack == <<<<LayoutR(0,0)>>, <<Part(0,8,0,1), LayoutL(1,1)>>, <<Part(1,7,0,2), LayoutL(2,2)>>, <<Part(2,6,0,3), LayoutL(3,3)>>, <<Part(3,5,0,4), LayoutL(4,4)>>,
  <<Part(4,4,0,5), LayoutL(5,5)>>, <<Part(5,3,0,6), LayoutL(6,6)>>, <<Part(6,2,0,7), LayoutL(7,7)>>, <<LayoutR(7,1)>>>>
Q15Pack == <<<<LayoutR(0,0)>>, <<Part(0,8,0,7), Part(1,0,7,1)>>, <<LayoutR(1,1)>>, <<Part(1,9,0,6), Part(2,0,6,2)>>, <<LayoutR(2,2)>>,
  <<Part(2,10,0,5), Part(3,0,5,3)>>, <<LayoutR(3,3)>>, <<Part(3,11,0,4), Part(4,0,4,4)>>, <<LayoutR(4,4)>>, <<Part(4,12,0,3), Part(5,0,3,5)>>,
  <<LayoutR(5,5)>>, <<Part(5,13,0,2), Part(6,0,2,6)>>, <<LayoutR(6,6)>>, <<Part(6,14,0,1), Part(7,0,1,7)>>, <<LayoutR(7,7)>>>>
Q15Unpack == <<<<LayoutR(0,0), Part(1,0,8,7)>>, <<LayoutR(1,7), LayoutL(2,1), Part(3,0,9,6)>>, <<LayoutR(3,6), LayoutL(4,2), Part(5,0,10,5)>>,
  <<LayoutR(5,5), LayoutL(6,3), Part(7,0,11,4)>>, <<LayoutR(7,4), LayoutL(8,4), Part(9,0,12,3)>>, <<LayoutR(9,3), LayoutL(10,5), Part(11,0,13,2)>>,
  <<LayoutR(11,2), LayoutL(12,6), Part(13,0,14,1)>>, <<LayoutR(13,1), LayoutL(14,7)>>>>
Q16Pack == <<<<LayoutR(0,0)>>, <<LayoutR(0,8)>>>>
Q16Unpack == <<<<LayoutR(0,0), LayoutL(1,8)>>>>
TwoPack == <<<<LayoutR(0,0), LayoutL(1,2), LayoutL(2,4), LayoutL(3,6)>>>>
TwoUnpack == <<<<LayoutR(0,0)>>, <<LayoutR(0,2)>>, <<LayoutR(0,4)>>, <<LayoutR(0,6)>>>>
LsbPack == <<[i \in 1 .. 8 |-> Part(i - 1, 0, i - 1, 1)]>>
LayoutByte == <<<<LayoutR(0,0)>>>>

\* Each layout: its tables, what is subtracted from, and the largest code; <<>> where nothing reads it.
Row(width, pack, unpack, from, max) == [width |-> width, pack |-> pack, unpack |-> unpack, from |-> from, max |-> max]
Plain == -1
SignedByte == -2
Table ==
  [t1       |-> Row(10, T1.pack, T1.unpack, Plain, 1023),
   t0       |-> Row(13, T0.pack, T0.unpack, 4096, 8191),
   z_44     |-> Row(18, Z18Pack, Z18Unpack, 131072, 262143),
   z_65     |-> Row(20, Z20Pack, Z20Unpack, 524288, 1048575),
   eta_2    |-> Row(3, ThreePack, ThreeUnpack, 2, 4),
   eta_4    |-> Row(4, NibblePack, NibbleUnpack, 4, 8),
   w1_88    |-> Row(6, W1of88, <<>>, Plain, 43),
   w1_32    |-> Row(4, NibblePack, <<>>, Plain, 15),
   highbits |-> Row(9, High9Pack, <<>>, Plain, 503),
   lsb      |-> Row(1, LsbPack, <<>>, Plain, 1),
   q15      |-> Row(15, Q15Pack, Q15Unpack, Plain, 32256),
   q16      |-> Row(16, Q16Pack, Q16Unpack, Plain, 64512),
   eta_1    |-> Row(2, TwoPack, TwoUnpack, 1, 2),
   eta_21   |-> Row(3, ThreePack, ThreeUnpack, 2, 4),
   signed   |-> Row(8, LayoutByte, LayoutByte, SignedByte, 255)]

T == Table[layout]
PerGroup == IF T.unpack # <<>> THEN Len(T.unpack) ELSE (8 * Len(T.pack)) \div T.width
\* eta - x, gamma1 - x, or the cast to a byte; and back.
Code(x) == IF T.from = Plain THEN x ELSE IF T.from = SignedByte THEN x % 256 ELSE T.from - x
LayoutValue(c) == IF T.from = Plain THEN c ELSE IF T.from = SignedByte THEN c - (c \div 128) * 256 ELSE T.from - c

Largest == IF T.max < 2^T.width THEN T.max ELSE 2^T.width - 1
\* Among others that are all zeros or all ones, a code of one bit that is not.
Codes(base) ==
  {0, Largest} \cup {c \in {IF base = 0 THEN 2^k ELSE base - 2^k : k \in 0 .. T.width - 1} : c \in 0 .. Largest}
\* What a coefficient can be: a signed byte lies around zero.
Coefficient(c) == IF T.from = SignedByte THEN c - 128 ELSE LayoutValue(c)
LayoutInit ==
  /\ layout \in Layouts /\ read = <<>>
  /\ \/ /\ layoutPc = "pack" /\ layoutBytes = <<>>
        /\ \E base \in {0, Largest}, i \in 1 .. PerGroup : \E c \in Codes(base) :
             coeffs = [j \in 1 .. Groups * PerGroup |-> Coefficient(IF j = i THEN c ELSE base)]
     \/ /\ layoutPc = "read" /\ coeffs = <<>> /\ T.unpack # <<>>
        /\ \E base \in {0, 255}, b \in Foreign, i \in 1 .. Len(T.pack) :
             layoutBytes = [j \in 1 .. Groups * Len(T.pack) |-> IF j = i THEN b ELSE base]

\* One round of the loop of a packer and of a reader.
PackGroup ==
  /\ layoutPc = "pack" /\ Len(layoutBytes) < Groups * Len(T.pack)
  /\ LET g == Len(layoutBytes) \div Len(T.pack)
         t == [j \in 1 .. PerGroup |-> Code(coeffs[g * PerGroup + j])]
     IN  layoutBytes' = layoutBytes \o [b \in 1 .. Len(T.pack) |-> LayoutJoined(t, T.pack[b], 8)]
  /\ UNCHANGED <<layout, coeffs, read, layoutPc>>
LayoutPacked ==
  /\ layoutPc = "pack" /\ Len(layoutBytes) = Groups * Len(T.pack) /\ T.unpack # <<>> /\ layoutPc' = "read"
  /\ UNCHANGED <<layout, coeffs, layoutBytes, read>>
UnpackGroup ==
  /\ layoutPc = "read" /\ Len(read) < Groups * PerGroup
  /\ LET g == Len(read) \div PerGroup
         a == SubSeq(layoutBytes, g * Len(T.pack) + 1, (g + 1) * Len(T.pack))
     IN  read' = read \o [j \in 1 .. PerGroup |-> LayoutValue(LayoutJoined(a, T.unpack[j], T.width))]
  /\ UNCHANGED <<layout, coeffs, layoutBytes, layoutPc>>
LayoutFinished ==
  /\ IF layoutPc = "pack" THEN T.unpack = <<>> /\ Len(layoutBytes) = Groups * Len(T.pack) ELSE Len(read) = Groups * PerGroup
  /\ UNCHANGED layoutVars
LayoutNext == PackGroup \/ LayoutPacked \/ UnpackGroup \/ LayoutFinished
LayoutSpec == LayoutInit /\ [][LayoutNext]_layoutVars

(* ------------------------------- properties ----------------------------- *)
(* The bytes are the coefficients' codes written one after another, lowest bit first, as *)
(* the standards say, whatever part of a byte a coefficient begins in and also where its *)
(* neighbours are all ones.                                                              *)
BytesAreTheBitString ==
  coeffs # <<>> =>
    \A b \in 0 .. Len(layoutBytes) - 1, k \in 0 .. 7 :
      LET n == 8 * b + k
      IN  (layoutBytes[b + 1] \div 2^k) % 2 = (Code(coeffs[(n \div T.width) + 1]) \div 2^(n % T.width)) % 2

(* What was packed is read, groups already read included.                                       *)
LayoutPackedIsRead == coeffs # <<>> => read = SubSeq(coeffs, 1, Len(read))

(* Bytes that were not packed here are read into coefficients that would be packed into the *)
(* same bytes: no bit of them is dropped, so a signature has one encoding of z.             *)
ReadIsFaithful ==
  coeffs = <<>> =>
    \A j \in 1 .. Len(read), k \in 0 .. T.width - 1 :
      LET n == T.width * (j - 1) + k
      IN  (Code(read[j]) \div 2^k) % 2 = (layoutBytes[(n \div 8) + 1] \div 2^(n % 8)) % 2

-----------------------------------------------------------------------------
(****************************************************************************************)
(* The byte encoding, the compression and the matrix sampler of ML-KEM (auxiliary.c).   *)
(* Bytes pass through a reservoir that holds the rest of one coefficient while the next *)
(* is added or taken, so each width meets every phase of a byte.                        *)
(****************************************************************************************)
CONSTANTS
  CodingN,              \* MLKEM_N: a multiple of 8
  CodingQ,              \* MLKEM_Q
  Widths,         \* widths tried of 1 .. 12
  CodingBlocks,         \* bound: blocks a sampler squeezes
  Triples,        \* candidate pairs of a block: its bytes by three
  CodingUnits           \* pairs of candidates tried
ASSUME CodingAssumption == CodingN \in Nat /\ CodingN % 8 = 0 /\ CodingN > 0 /\ Widths \subseteq 1 .. 12

VARIABLES
  codingOp, width,
  input,       \* coefficients or bytes
  codingPos,         \* of the coefficient in turn
  buffer, buffered,   \* bit_buffer and buffered_bits
  codingOutput
codingVars == <<codingOp, width, input, codingPos, buffer, buffered, codingOutput>>

Sparse(n, max, ones) == {[j \in 1 .. n |-> IF j = i THEN c ELSE b] : i \in 1 .. n, c \in ones, b \in {0, max}}
CodingInit ==
  /\ codingPos = 0 /\ buffer = 0 /\ buffered = 0 /\ codingOutput = <<>> /\ width \in Widths
  /\ \/ codingOp = "encode" /\ input \in Sparse(CodingN, 2^width - 1, {2^k : k \in 0 .. width - 1})
     \/ codingOp = "decode" /\ input \in Sparse((CodingN * width) \div 8, 255, {2^k : k \in 0 .. 7})
     \/ codingOp = "compress" /\ \E x \in 0 .. CodingQ - 1 : input = <<x>>
     \/ codingOp = "sample" /\ width = 12 /\ input = <<>>

Waiting(n) == n \div 8
\* One coefficient into the reservoir, and all whole bytes out of it.
ByteEncode ==
  /\ codingOp = "encode" /\ codingPos < CodingN /\ codingPos' = codingPos + 1
  /\ LET b == buffer + (input[codingPos + 1] % 2^width) * 2^buffered
         n == buffered + width
     IN  /\ codingOutput' = codingOutput \o [k \in 1 .. Waiting(n) |-> (b \div 2^(8 * (k - 1))) % 256]
         /\ buffer' = b \div 2^(8 * Waiting(n)) /\ buffered' = n - 8 * Waiting(n)
  /\ UNCHANGED <<codingOp, width, input>>

\* As many bytes in as the next coefficient needs; at width 12 it is reduced.
CodingModulus == IF width = 12 THEN CodingQ ELSE 2^width
Consumed == (codingPos * width + 7) \div 8
Needed == IF buffered >= width THEN 0 ELSE ((width - buffered) + 7) \div 8
Rest(b) == b \div 2^width
ByteDecode ==
  /\ codingOp = "decode" /\ codingPos < CodingN /\ codingPos' = codingPos + 1
  /\ LET new == [k \in 1 .. Needed |-> input[Consumed + k] * 2^(buffered + 8 * (k - 1))]
         b   == buffer + FoldFunction(+, 0, new)
     IN  /\ codingOutput' = Append(codingOutput, (b % 2^width) % CodingModulus)
         /\ buffer' = Rest(b) /\ buffered' = (buffered + 8 * Needed) - width
  /\ UNCHANGED <<codingOp, width, input>>

CodingComp(x) == ((2^width * x + (CodingQ \div 2)) \div CodingQ) % 2^width
CodingDecomp(y) == (CodingQ * y + 2^(width - 1)) \div 2^width
Compress ==
  /\ codingOp = "compress" /\ codingOutput = <<>>
  /\ codingOutput' = <<CodingComp(input[1]), CodingDecomp(CodingComp(input[1]))>>
  /\ UNCHANGED <<codingOp, width, input, codingPos, buffer, buffered>>

\* A block of candidate pairs; the loop stops within a pair.
CodingTaken(kept, pair) ==
  LET good == SelectSeq(pair, LAMBDA t : t < CodingQ)
      room == CodingN - Len(kept)
  IN  kept \o SubSeq(good, 1, IF Len(good) < room THEN Len(good) ELSE room)
SampleNTT ==
  /\ codingOp = "sample" /\ Len(codingOutput) < CodingN /\ codingPos < CodingBlocks /\ codingPos' = codingPos + 1
  /\ \E block \in [1 .. Triples -> CodingUnits] :
       input' = input \o block /\ codingOutput' = FoldLeft(CodingTaken, codingOutput, block)
  /\ UNCHANGED <<codingOp, width, buffer, buffered>>

CodingFinished ==
  /\ CASE codingOp \in {"encode", "decode"} -> codingPos = CodingN
       [] codingOp = "compress" -> codingOutput # <<>>
       [] codingOp = "sample" -> Len(codingOutput) = CodingN \/ codingPos = CodingBlocks
  /\ UNCHANGED codingVars
CodingNext == ByteEncode \/ ByteDecode \/ Compress \/ SampleNTT \/ CodingFinished
CodingSpec == CodingInit /\ [][CodingNext]_codingVars

(* ------------------------------- properties ----------------------------- *)
BitOf(xs, w, n) == (xs[(n \div w) + 1] \div 2^(n % w)) % 2

(* Bytes written and the reservoir together are the coefficients so far, bit by bit, and *)
(* less than a byte waits; so the last coefficient leaves nothing behind.                *)
EncodingKeepsBits ==
  codingOp = "encode" =>
    /\ buffered = (codingPos * width) % 8 /\ Len(codingOutput) = (codingPos * width) \div 8 /\ buffer < 2^buffered
    /\ \A n \in 0 .. 8 * Len(codingOutput) - 1 : BitOf(codingOutput, 8, n) = BitOf(input, width, n)
    /\ \A n \in 0 .. buffered - 1 : (buffer \div 2^n) % 2 = BitOf(input, width, 8 * Len(codingOutput) + n)

(* Each coefficient read is its own width of bits, reduced only at width twelve, whatever the *)
(* phase; the bytes taken are those it needs and no byte behind the last.                     *)
DecodingKeepsBits ==
  codingOp = "decode" =>
    /\ Consumed <= Len(input) /\ buffered = 8 * Consumed - codingPos * width
    /\ \A j \in 1 .. Len(codingOutput) :
         codingOutput[j] = FoldFunction(+, 0, [k \in 0 .. width - 1 |-> BitOf(input, 8, (j - 1) * width + k) * 2^k]) % CodingModulus

(* Compression loses at most half a step of its width, at the wrap around the modulus too, and    *)
(* what was decompressed compresses to itself: a re-encryption meets the ciphertext it came from. *)
CompressionIsClose ==
  codingOp = "compress" /\ codingOutput # <<>> =>
    LET away == (codingOutput[2] - input[1]) % CodingQ
        step == ((CodingQ + 2^width)) \div 2^(width + 1)
    IN  /\ (IF 2 * away > CodingQ THEN CodingQ - away ELSE away) <= step
        /\ (2^width < CodingQ => CodingComp(codingOutput[2] % CodingQ) = codingOutput[1])

(* The matrix entry is the first N acceptable candidates in order, none skipped where blocks meet *)
(* and none beyond N, although the loop looks at two candidates at a time.                        *)
SampleIsPrefix ==
  codingOp = "sample" =>
    LET good == SelectSeq(FoldLeft(LAMBDA all, u : all \o u, <<>>, input), LAMBDA t : t < CodingQ)
    IN  codingOutput = SubSeq(good, 1, IF Len(good) < CodingN THEN Len(good) ELSE CodingN)


-----------------------------------------------------------------------------
(******************************************************************************************)
(* The public-key encryption inside ML-KEM (K-PKE.c) with polynomials of one coefficient: *)
(* what is drawn with which nonce, which index of the matrix meets which vector, what is  *)
(* rounded away, and the workspaces and seeds that every exit has to clear.               *)
(******************************************************************************************)
CONSTANTS
  PkeK, PkeQ, Du, Dv,   \* k, MLKEM_Q, d_u and d_v
  Noise,          \* values of a noise coefficient that are tried
  Matrices        \* answers of the XOF: for the bytes behind rho, a matrix entry

VARIABLES
  xof, pkeMessage,
  call,     \* "keygen", "encrypt", "decrypt" and "" between calls
  stage,    \* where in the call
  pkeNonce, pkeDrawn,   \* the next nonce, and those drawn with in this call
  work,     \* the workspace: matrix, secret, error, scalar; <<>> when none is held
  rho,      \* the copy of rho on the stack
  pkePk, pkeSk, pkeCt, plain, pkeResult
pkeVars == <<xof, pkeMessage, call, stage, pkeNonce, pkeDrawn, work, rho, pkePk, pkeSk,
             pkeCt, plain, pkeResult>>

Vector == 1 .. PkeK
Dot(u, v) == FoldFunction(+, 0, [i \in Vector |-> u[i] * v[i]]) % PkeQ
PkeFresh == [matrix |-> <<>>, secret |-> <<>>, error |-> <<>>, scalar |-> <<>>]
None == 0

\* SamplePolyCBD of what PRF answers for a nonce.
PkeCentred == {(n + PkeQ) % PkeQ : n \in Noise}

\* Comp, ByteEncode, ByteDecode and Decomp of one coefficient.
PkeComp(x, d) == ((2^d * x + (PkeQ \div 2)) \div PkeQ) % 2^d
PkeDecomp(y, d) == (PkeQ * y + 2^(d - 1)) \div 2^d

PkeInit ==
  /\ xof \in Matrices /\ pkeMessage \in {0, 1}
  /\ call = "" /\ stage = "keygen" /\ pkeNonce = 0 /\ pkeDrawn = <<>> /\ work = <<>> /\ rho = None
  /\ pkePk = <<>> /\ pkeSk = <<>> /\ pkeCt = <<>> /\ plain = <<>> /\ pkeResult = "none"

\* calloc, or no memory and nothing done.
PkeBegin(c) ==
  /\ call = "" /\ stage = c
  /\ \/ /\ call' = c /\ work' = PkeFresh /\ pkeNonce' = 0 /\ pkeDrawn' = <<>> /\ UNCHANGED <<stage, pkeResult>>
     \/ pkeResult' = "allocation" /\ stage' = "over" /\ UNCHANGED <<call, work, pkeNonce,
                                                                    pkeDrawn>>
  /\ UNCHANGED <<xof, pkeMessage, rho, pkePk, pkeSk, pkeCt, plain>>

Wiped == <<>>
Leave(to, r) == call' = "" /\ stage' = to /\ work' = Wiped /\ rho' = None /\ pkeResult' = r

\* Entry i, j is sampled from rho, j, i: in both calls, so that encryption holds the same matrix.
PkeEntry(i, j) == xof[<<j - 1, i - 1>>]
PkeExpand ==
  /\ call \in {"keygen", "encrypt"} /\ work.matrix = <<>>
  /\ rho' = 1
  /\ work' = [work EXCEPT !.matrix = [i \in Vector |-> [j \in Vector |-> PkeEntry(i, j)]]]
  /\ UNCHANGED <<xof, pkeMessage, call, stage, pkeNonce, pkeDrawn, pkePk, pkeSk, pkeCt,
                 plain, pkeResult>>

\* The nonce runs on from one vector to the next; the last one is not counted on.
After == pkeNonce + 1
Sample(field, size) ==
  /\ Len(work[field]) < size
  /\ \E x \in PkeCentred : work' = [work EXCEPT ![field] = Append(@, x)]
  /\ pkeDrawn' = Append(pkeDrawn, pkeNonce) /\ pkeNonce' = After
  /\ UNCHANGED <<xof, pkeMessage, call, stage, rho, pkePk, pkeSk, pkeCt, plain, pkeResult>>
SampleSecret == call \in {"keygen", "encrypt"} /\ work.matrix # <<>> /\ Sample("secret", PkeK)
SampleError  == call \in {"keygen", "encrypt"} /\ Len(work.secret) = PkeK /\ Sample("error", PkeK)
SampleScalar == call = "encrypt" /\ Len(work.error) = PkeK /\ Sample("scalar", 1)

\* t = A s + e
PkeKeyGen ==
  /\ call = "keygen" /\ Len(work.error) = PkeK
  /\ pkePk' = [i \in Vector |-> (work.error[i] + Dot(work.matrix[i], work.secret)) % PkeQ]
  /\ pkeSk' = work.secret
  /\ Leave("encrypt", "success")
  /\ UNCHANGED <<xof, pkeMessage, pkeNonce, pkeDrawn, pkeCt, plain>>
\* u = A^T y + e1 and v = t y + e2 + m
Encrypt ==
  /\ call = "encrypt" /\ Len(work.scalar) = 1
  /\ LET column(i) == [j \in Vector |-> work.matrix[j][i]]
         v == (Dot(pkePk, work.secret) + work.scalar[1] + PkeDecomp(pkeMessage, 1)) % PkeQ
     IN  pkeCt' = [u |-> [i \in Vector |-> PkeComp((Dot(column(i), work.secret) + work.error[i]) % PkeQ, Du)], v |-> PkeComp(v, Dv)]
  /\ Leave("decrypt", "success")
  /\ UNCHANGED <<xof, pkeMessage, pkeNonce, pkeDrawn, pkePk, pkeSk, plain>>
Decrypt ==
  /\ call = "decrypt"
  /\ LET u == [i \in Vector |-> PkeDecomp(pkeCt.u[i], Du) % PkeQ]
     IN  plain' = <<PkeComp(((PkeDecomp(pkeCt.v, Dv) - Dot(pkeSk, u)) + PkeQ) % PkeQ, 1)>>
  /\ Leave("over", "success")
  /\ UNCHANGED <<xof, pkeMessage, pkeNonce, pkeDrawn, pkePk, pkeSk, pkeCt>>
\* A sampler or the hash behind it fails: goto cleanup, with nothing written yet.
Fail ==
  /\ call \in {"keygen", "encrypt"} /\ ~(Len(work.error) = PkeK /\ (call = "keygen" \/ Len(work.scalar) = 1))
  /\ Leave("over", "internal")
  /\ UNCHANGED <<xof, pkeMessage, pkeNonce, pkeDrawn, pkePk, pkeSk, pkeCt, plain>>

PkeFinished == stage = "over" /\ UNCHANGED pkeVars
PkeNext ==
  \/ \E c \in {"keygen", "encrypt", "decrypt"} : PkeBegin(c)
  \/ PkeExpand \/ SampleSecret \/ SampleError \/ SampleScalar
  \/ PkeKeyGen \/ Encrypt \/ Decrypt \/ Fail \/ PkeFinished
PkeSpec == PkeInit /\ [][PkeNext]_pkeVars

(* ------------------------------- properties ----------------------------- *)
(* What was encrypted is decrypted, for every matrix, key and noise tried: both sides take the *)
(* matrix the same way round, and noise and rounding together stay below a quarter of Q.       *)
DecryptionRecovers == plain # <<>> => plain = <<pkeMessage>>

(* No noise of a call is drawn with a nonce that another one was drawn with: the error of a key *)
(* is not its secret again.                                                                     *)
NoncesDiffer == IsInjective(pkeDrawn)

(* Between calls, whichever way the last one ended, no workspace and no copy of rho is left; and a *)
(* call that failed has written nothing.                                                           *)
NothingIsLeft ==
  /\ call = "" => work = <<>> /\ rho = None
  /\ pkeResult \in {"internal", "allocation"} => plain = <<>> /\ (pkePk = <<>>) = (pkeSk = <<>>)

=============================================================================
