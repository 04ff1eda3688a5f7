------------------------------- MODULE Haetae -------------------------------
(***************************************************************************)
(* HAETAE: the modular reductions and the hint decomposition, the range    *)
(* coder with which hints and high bits are packed, the hyperball sampler, *)
(* and key generation, signing and verification.                           *)
(***************************************************************************)
EXTENDS Integers, Sequences, FiniteSets

-----------------------------------------------------------------------------
(********************************************************************************)
(* The arithmetic of HAETAE on one coefficient (haetae_reduce.c,                *)
(* haetae_decompose.c and the masks of haetae_polyvec.c), with the modulus, the *)
(* width of a word and the two roundings as constants.                          *)
(********************************************************************************)
CONSTANTS
  HaetaeQ,              \* CRYPTO_HAETAE_Q: odd
  HaetaeWordBits,       \* 32
  HaetaeAlpha,          \* alpha_hint: divides 2Q - 2
  ZAlpha          \* 256, for the high bits of z1

ASSUME ArithAssumption ==
  /\ HaetaeQ \in Nat /\ HaetaeQ % 2 = 1 /\ HaetaeWordBits \in Nat \ {0} /\ 2^(HaetaeWordBits - 2) > HaetaeQ
  /\ HaetaeAlpha \in Nat \ {0} /\ (2 * HaetaeQ - 2) % HaetaeAlpha = 0 /\ ZAlpha \in Nat \ {0}

HaetaeR == 2^HaetaeWordBits
DoubleQ == 2 * HaetaeQ
QInverse == CHOOSE v \in 0 .. HaetaeR - 1 : (v * HaetaeQ) % HaetaeR = 1
QReciprocal == HaetaeR \div HaetaeQ
DoubleQReciprocal == HaetaeR \div DoubleQ
HaetaeLevels == (DoubleQ - 2) \div HaetaeAlpha

Signed(x) == LET u == x % HaetaeR IN IF u < HaetaeR \div 2 THEN u ELSE u - HaetaeR

\* crypto_haetae_montgomery_reduce
MontgomeryReduce(a) == (a - Signed(a * QInverse) * HaetaeQ) \div HaetaeR

\* crypto_haetae_caddq, _freeze, _freeze2q and _reduce32_2q
Caddq(a) == IF a < 0 THEN a + HaetaeQ ELSE a
Freeze(a) ==
  LET t == a - ((a * QReciprocal) \div HaetaeR) * HaetaeQ
      u == IF t < 0 THEN t + DoubleQ ELSE t
  IN  IF u >= HaetaeQ THEN u - HaetaeQ ELSE u
Freeze2q(a) ==
  LET t == a - ((a * DoubleQReciprocal) \div HaetaeR) * DoubleQ
      u == IF t < 0 THEN t + 2 * DoubleQ ELSE t
  IN  IF u >= DoubleQ THEN u - DoubleQ ELSE u
Reduce2q(a) == LET u == Freeze2q(a) IN IF u >= HaetaeQ THEN u - DoubleQ ELSE u

\* crypto_haetae_decompose_z1, _hint and _vk
LowZ(r) == LET l == r % ZAlpha IN IF l >= ZAlpha \div 2 THEN l - ZAlpha ELSE l
HighZ(r) == (r + (ZAlpha \div 2)) \div ZAlpha
HighBits(r) ==
  LET hb == (r + (HaetaeAlpha \div 2)) \div HaetaeAlpha
  IN  IF hb >= HaetaeLevels THEN hb - HaetaeLevels ELSE hb
LowVk(a) == IF a % 2 = 1 /\ (a \div 2) % 2 = 1 THEN -1 ELSE a % 2
HighVk(a) == (a - LowVk(a)) \div 2

\* crypto_haetae_poly_fromcrt: the value modulo 2Q of this residue and this parity.
FromCrt(u, v) == IF (u - v) % 2 = 1 THEN u + HaetaeQ ELSE u

\* The hint of the signer, and how the verifier applies it.
FaultyHint(w, v) == HighBits(w) - HighBits(v)
HaetaeHint(w, v) == LET d == HighBits(w) - HighBits(v) IN IF d < 0 THEN d + HaetaeLevels ELSE d
HaetaeUseHint(h, v) == LET s == HighBits(v) + h IN IF s >= HaetaeLevels THEN s - HaetaeLevels ELSE s


-----------------------------------------------------------------------------
(********************************************************************************)
(* Every word through the reductions of HAETAE, and every pair of values modulo *)
(* 2Q through the hint.                                                         *)
(********************************************************************************)
VARIABLES reduceOp, reduceA, reduceV, reduceOut
reduceVars == <<reduceOp, reduceA, reduceV, reduceOut>>

ReduceWords == -(HaetaeR \div 2) .. (HaetaeR \div 2) - 1
ReduceInit ==
  /\ \/ reduceOp = "word" /\ reduceA \in ReduceWords /\ reduceV = 0
     \/ reduceOp = "product" /\ reduceA \in -(HaetaeQ * (HaetaeR \div 2)) .. (HaetaeQ * (HaetaeR \div 2)) /\ reduceV = 0
     \/ reduceOp = "hint" /\ reduceA \in 0 .. DoubleQ - 1 /\ reduceV \in 0 .. DoubleQ - 1
  /\ reduceOut = <<>>
Compute ==
  /\ reduceOut = <<>>
  /\ reduceOut' = (CASE reduceOp = "word"    -> <<Freeze(reduceA), Freeze2q(reduceA), Reduce2q(reduceA), HighZ(reduceA), LowZ(reduceA)>>
                     [] reduceOp = "product" -> <<MontgomeryReduce(reduceA), Caddq(MontgomeryReduce(reduceA))>>
                     [] OTHER          -> <<HaetaeHint(reduceA, reduceV), HaetaeUseHint(HaetaeHint(reduceA, reduceV), reduceV)>>)
  /\ UNCHANGED <<reduceOp, reduceA, reduceV>>
ReduceFinished == reduceOut # <<>> /\ UNCHANGED reduceVars
ReduceNext == Compute \/ ReduceFinished
ReduceSpec == ReduceInit /\ [][ReduceNext]_reduceVars

(* ------------------------------- properties ----------------------------- *)
(* Every word, whatever an addition left in it, is reduced by the one corrected         *)
(* quotient; and the high and low bits of a word compose to it with a centred low part. *)
ReductionsAreExact ==
  reduceOut # <<>> /\ reduceOp = "word" =>
    /\ reduceOut[1] = reduceA % HaetaeQ /\ reduceOut[2] = reduceA % DoubleQ
    /\ (reduceOut[3] - reduceA) % DoubleQ = 0 /\ reduceOut[3] >= -HaetaeQ /\ reduceOut[3] < HaetaeQ
    /\ reduceOut[4] * ZAlpha + reduceOut[5] = reduceA /\ reduceOut[5] >= -(ZAlpha \div 2) /\ reduceOut[5] < ZAlpha \div 2
    /\ reduceA >= 0 => LowVk(reduceA) \in {-1, 0, 1} /\ HighVk(reduceA) * 2 + LowVk(reduceA) = reduceA

(* A product of the range the reduction is for is divided by R and stays below Q in size: *)
(* every one but the greatest, which gives Q.                                             *)
MontgomeryIsExact ==
  reduceOut # <<>> /\ reduceOp = "product" =>
    /\ (reduceOut[1] * HaetaeR - reduceA) % HaetaeQ = 0
    /\ reduceA < HaetaeQ * (HaetaeR \div 2) => -HaetaeQ < reduceOut[1] /\ reduceOut[1] < HaetaeQ /\ reduceOut[2] \in 0 .. HaetaeQ - 1

(* The verifier finds the signer's high bits from a value and the hint, even where the *)
(* high bits wrap around at the last level; and the hint is one of the values coded.   *)
HintRecovers ==
  reduceOut # <<>> /\ reduceOp = "hint" => reduceOut[1] \in 0 .. HaetaeLevels - 1 /\ reduceOut[2] = HighBits(reduceA)


-----------------------------------------------------------------------------
(********************************************************************************)
(* The entropy coder of HAETAE signatures (haetae_rans_byte.h), with the widths *)
(* of its state as constants: a state x in [Lower, Lower * Digit), symbols with *)
(* frequencies that sum to Scale, and digits that the encoder writes backwards. *)
(********************************************************************************)
CONSTANTS
  DigitBits,      \* 8: bytes
  LowerBits,      \* 23: RANS_BYTE_L
  ScaleBits,      \* 10: SCALE_BITS
  FlushDigits     \* 4

ASSUME RansAssumption ==
  /\ DigitBits \in Nat \ {0} /\ ScaleBits \in Nat \ {0} /\ LowerBits \in Nat
  /\ ScaleBits <= LowerBits /\ LowerBits + DigitBits < FlushDigits * DigitBits

Digit == 2^DigitBits
RansLower == 2^LowerBits
RansScale == 2^ScaleBits
Width == FlushDigits * DigitBits   \* of the state's type: one bit is never used

\* freq: a sequence; symbol s, counted from 0, starts where those before it end.
StartOf(freq, s) ==
  LET sum[k \in 0 .. s] == IF k = 0 THEN 0 ELSE sum[k - 1] + freq[k]
  IN  sum[s]
SymbolAt(freq, slot) ==
  CHOOSE s \in 0 .. Len(freq) - 1 : StartOf(freq, s) <= slot /\ slot < StartOf(freq, s) + freq[s + 1]

\* RansEncSymbolInit: what the encoder's tables hold for one symbol.
ShiftFor(f) == CHOOSE k \in 0 .. ScaleBits : 2^k >= f /\ (k = 0 \/ 2^(k - 1) < f)
EncSymbol(freq, s) ==
  LET f == freq[s + 1]
      k == ShiftFor(f)
  IN  [xMax  |-> (2^(LowerBits - ScaleBits) * Digit) * f,
       rcp   |-> IF f < 2 THEN 2^Width - 1 ELSE (2^(k + Width - 1) + f - 1) \div f,
       shift |-> IF f < 2 THEN 0 ELSE k - 1,
       bias  |-> StartOf(freq, s) + (IF f < 2 THEN RansScale - 1 ELSE 0),
       cmpl  |-> RansScale - f]

\* RansEncPutSymbol: [x, out], out growing at its front.
RECURSIVE Renormed(_, _, _)
Renormed(x, out, bound) ==
  IF x < bound THEN [x |-> x, out |-> out]
  ELSE Renormed(x \div Digit, <<x % Digit>> \o out, bound)
EncPut(st, freq, s) ==
  LET e == EncSymbol(freq, s)
      r == Renormed(st.x, st.out, e.xMax)
      q == ((r.x * e.rcp) \div 2^Width) \div 2^e.shift
  IN  [x |-> (r.x + e.bias + (q * e.cmpl)) % 2^Width, out |-> r.out]
\* RansEncPut: the same with a division.
DividingPut(st, freq, s) ==
  LET f == freq[s + 1]
      r == Renormed(st.x, st.out, EncSymbol(freq, s).xMax)
  IN  [x |-> (((r.x \div f) * RansScale) + (r.x % f)) + StartOf(freq, s), out |-> r.out]

\* RansEncFlush: the state, little end first, in front of the digits.
Flushed(st) == [d \in 1 .. FlushDigits |-> (st.x \div Digit^(d - 1)) % Digit] \o st.out

\* RansDecInit: [ok, x, pos], pos digits consumed.
Loaded(in, d) == IF d = 0 THEN 0 ELSE in[d] * Digit^(d - 1)
DecInit(in) ==
  LET x[d \in 0 .. FlushDigits] == IF d = 0 THEN 0 ELSE x[d - 1] + Loaded(in, d)
  IN  IF Len(in) < FlushDigits THEN [ok |-> FALSE, x |-> 0, pos |-> 0]
      ELSE [ok |-> RansLower <= x[FlushDigits] /\ x[FlushDigits] < RansLower * Digit,
            x  |-> x[FlushDigits], pos |-> FlushDigits]

\* RansDecAdvance: at the end of its input it just goes on below Lower.
RECURSIVE Refilled(_, _, _)
Refilled(in, x, pos) ==
  IF x >= RansLower \/ pos = Len(in) THEN [ok |-> TRUE, x |-> x, pos |-> pos]
  ELSE Refilled(in, (x * Digit) + in[pos + 1], pos + 1)
DecGet(st) == st.x % RansScale
DecAdvance(st, in, freq, s) ==
  Refilled(in, ((freq[s + 1] * (st.x \div RansScale)) + DecGet(st)) - StartOf(freq, s), st.pos)

\* RansDecVerify and the comparison of the sizes.
DecVerify(st, in) == st.x = RansLower /\ st.pos = Len(in)


-----------------------------------------------------------------------------
(*********************************************************************************)
(* The variable part of a HAETAE signature (haetae_encoding.c, pack_sig and      *)
(* unpack_sig of haetae_packing.c): the high bits of z1 and the hint, each coded *)
(* with rANS, behind two length digits and before a padding of zeros. The fixed  *)
(* part in front, challenge and low bits, only takes its place.                  *)
(*********************************************************************************)
CONSTANTS
  FreqZ, OffsetZ,   \* dsyms_hb_z1, offset_hb_z1
  FreqH, OffsetH,   \* dsyms_h, offset_h: values in the middle that are not coded
  SizeZ, SizeH,     \* coefficients of either vector
  Room,             \* digits of an encoder's buffer
  BaseZ, BaseH,     \* base_encoding_high_bits_z1, base_encoding_hint
  BodyDigits,       \* signature_bytes less the fixed part and the two lengths
  RangeZ, RangeH,   \* values the signer's vectors are given
  ReadDigits        \* arbitrary digits at the start of the bodies read; the last is 0 or 1

VARIABLES packingOp, packingZ, packingH, packingSig, enc, zCode, hCode, dec, packingOut, packingPc
packingVars == <<packingOp, packingZ, packingH, packingSig, enc, zCode, hCode, dec,
                 packingOut, packingPc>>

Digits == 0 .. Digit - 1
Cut == (Len(FreqH) - 1) \div 2

\* Each value with the symbol that stands for it; one with none makes signing try again.
SymbolH(v) == IF v > Cut + OffsetH THEN v - OffsetH ELSE v
CodedH(v) == ~(Cut < v /\ v <= Cut + OffsetH)
ValueH(s) == IF Cut < s THEN s + OffsetH ELSE s
SymbolZ(v) == v + OffsetZ
CodedZ(v) == 0 <= SymbolZ(v) /\ SymbolZ(v) < Len(FreqZ)
ValueZ(s) == s - OffsetZ

NoCode == [x |-> RansLower, out |-> <<>>]
PackingInit ==
  /\ \/ /\ packingOp = "pack" /\ packingSig = [lenZ |-> 0, lenH |-> 0, body |-> <<>>]
        /\ packingZ \in [1 .. SizeZ -> RangeZ] /\ packingH \in [1 .. SizeH -> RangeH]
     \/ /\ packingOp = "read" /\ packingZ = <<>> /\ packingH = <<>>
        /\ \E lz \in 0 .. 1, lh \in 0 .. 1, end \in 0 .. 1 : \E start \in [1 .. ReadDigits -> Digits] :
             packingSig = [lenZ |-> lz, lenH |-> lh,
                           body |-> [d \in 1 .. BodyDigits |->
                                       IF d <= ReadDigits THEN start[d]
                                       ELSE IF d = BodyDigits THEN end ELSE 0]]
  /\ enc = NoCode /\ zCode = <<>> /\ hCode = <<>> /\ dec = [ok |-> TRUE, x |-> 0, pos |-> 0]
  /\ packingOut = [z |-> <<>>, h |-> <<>>]
  /\ packingPc = [at |-> IF packingOp = "pack" THEN "encodeZ" ELSE "lengths",
                  i |-> IF packingOp = "pack" THEN SizeZ ELSE 0]

At(name, i) == packingPc' = [at |-> name, i |-> i]
PackingVectors == <<packingOp, packingZ, packingH>>
Reader == <<dec, packingOut>>

\* crypto_haetae_encode_hb_z1 and _encode_h, from the last coefficient to the first.
PutOrFail(coded, freq, s, where, otherwise) ==
  IF ~coded THEN At("retry", 0) /\ UNCHANGED enc
  ELSE /\ enc' = EncPut(enc, freq, s)
       /\ IF Room - Len(enc'.out) < FlushDigits THEN At("retry", 0) ELSE At(where, packingPc.i - 1)
EncodeZ ==
  /\ packingPc.at = "encodeZ" /\ packingPc.i > 0
  /\ PutOrFail(CodedZ(packingZ[packingPc.i]), FreqZ, SymbolZ(packingZ[packingPc.i]), "encodeZ", "retry")
  /\ UNCHANGED <<PackingVectors, Reader, packingSig, zCode, hCode>>
FlushZ ==
  /\ packingPc.at = "encodeZ" /\ packingPc.i = 0
  /\ zCode' = Flushed(enc) /\ enc' = NoCode /\ At("encodeH", SizeH)
  /\ UNCHANGED <<PackingVectors, Reader, packingSig, hCode>>
EncodeH ==
  /\ packingPc.at = "encodeH" /\ packingPc.i > 0
  /\ PutOrFail(CodedH(packingH[packingPc.i]), FreqH, SymbolH(packingH[packingPc.i]), "encodeH", "retry")
  /\ UNCHANGED <<PackingVectors, Reader, packingSig, zCode, hCode>>
FlushH ==
  /\ packingPc.at = "encodeH" /\ packingPc.i = 0
  /\ hCode' = Flushed(enc) /\ enc' = NoCode /\ At("layout", 0)
  /\ UNCHANGED <<PackingVectors, Reader, packingSig, zCode>>

SizesFit ==
  /\ BaseZ <= Len(zCode) /\ Len(zCode) < BaseZ + Digit
  /\ BaseH <= Len(hCode) /\ Len(hCode) < BaseH + Digit
  /\ Len(zCode) + Len(hCode) <= BodyDigits
\* The lengths are written as digits, the rest of the body stays zero.
Layout ==
  /\ packingPc.at = "layout"
  /\ IF SizesFit
     THEN /\ packingSig' = [lenZ |-> (Len(zCode) - BaseZ) % Digit, lenH |-> (Len(hCode) - BaseH) % Digit,
                            body |-> zCode \o hCode
                                     \o [d \in 1 .. BodyDigits - (Len(zCode) + Len(hCode)) |-> 0]]
          /\ At("lengths", 0)
     ELSE At("retry", 0) /\ UNCHANGED packingSig
  /\ UNCHANGED <<PackingVectors, Reader, enc, zCode, hCode>>

\* crypto_haetae_unpack_sig
InZ == SubSeq(packingSig.body, 1, BaseZ + packingSig.lenZ)
InH == SubSeq(packingSig.body, BaseZ + packingSig.lenZ + 1, BaseZ + packingSig.lenZ + BaseH + packingSig.lenH)
Starts(in, where) == /\ dec' = DecInit(in)
                     /\ IF dec'.ok THEN At(where, 0) ELSE At("refused", 0)
Lengths ==
  /\ packingPc.at = "lengths"
  /\ IF (BaseZ + packingSig.lenZ) + (BaseH + packingSig.lenH) > BodyDigits
     THEN At("refused", 0) /\ UNCHANGED dec
     ELSE Starts(InZ, "decodeZ")
  /\ UNCHANGED <<PackingVectors, packingSig, enc, zCode, hCode, packingOut>>
DecodeZ ==
  /\ packingPc.at = "decodeZ" /\ packingPc.i < SizeZ
  /\ LET s == SymbolAt(FreqZ, DecGet(dec))
     IN  /\ packingOut' = [packingOut EXCEPT !.z = Append(@, ValueZ(s))]
         /\ dec' = DecAdvance(dec, InZ, FreqZ, s)
  /\ At("decodeZ", packingPc.i + 1)
  /\ UNCHANGED <<PackingVectors, packingSig, enc, zCode, hCode>>
EndZ ==
  /\ packingPc.at = "decodeZ" /\ packingPc.i = SizeZ
  /\ IF DecVerify(dec, InZ) THEN Starts(InH, "decodeH") ELSE At("refused", 0) /\ UNCHANGED dec
  /\ UNCHANGED <<PackingVectors, packingSig, enc, zCode, hCode, packingOut>>
DecodeH ==
  /\ packingPc.at = "decodeH" /\ packingPc.i < SizeH
  /\ LET s == SymbolAt(FreqH, DecGet(dec))
     IN  /\ packingOut' = [packingOut EXCEPT !.h = Append(@, ValueH(s))]
         /\ dec' = DecAdvance(dec, InH, FreqH, s)
  /\ At("decodeH", packingPc.i + 1)
  /\ UNCHANGED <<PackingVectors, packingSig, enc, zCode, hCode>>
PaddingIsZero == \A d \in BaseZ + packingSig.lenZ + BaseH + packingSig.lenH + 1 .. BodyDigits : packingSig.body[d] = 0
EndH ==
  /\ packingPc.at = "decodeH" /\ packingPc.i = SizeH
  /\ IF DecVerify(dec, InH) /\ PaddingIsZero THEN At("accepted", 0) ELSE At("refused", 0)
  /\ UNCHANGED <<PackingVectors, packingSig, enc, zCode, hCode, dec, packingOut>>

PackingFinished == packingPc.at \in {"accepted", "refused", "retry"} /\ UNCHANGED packingVars
PackingNext ==
  \/ EncodeZ \/ FlushZ \/ EncodeH \/ FlushH \/ Layout
  \/ Lengths \/ DecodeZ \/ EndZ \/ DecodeH \/ EndH \/ PackingFinished
PackingSpec == PackingInit /\ [][PackingNext]_packingVars

(* ------------------------------- properties ----------------------------- *)
(* What was packed is unpacked: a signature the signer hands out never fails to be *)
(* read, whatever digits the two coders wrote and however long they are.           *)
PackingPackedIsRead ==
  packingOp = "pack" =>
    /\ packingPc.at # "refused"
    /\ packingPc.at = "accepted" => packingOut = [z |-> packingZ, h |-> packingH]

(* The encoder divides by multiplying with a reciprocal; its step is the division's *)
(* in every state it reaches, and it never writes before its buffer.                *)
ReciprocalDivides ==
  /\ Len(enc.out) <= Room
  /\ \A s \in 0 .. Len(FreqZ) - 1 : EncPut(enc, FreqZ, s) = DividingPut(enc, FreqZ, s)
  /\ \A s \in 0 .. Len(FreqH) - 1 : EncPut(enc, FreqH, s) = DividingPut(enc, FreqH, s)

\* Packing as one function, of vectors all of whose values are coded.
Coded(freq, symbols) ==
  LET n == Len(symbols)
      st[i \in 0 .. n] == IF i = 0 THEN NoCode ELSE LET p == st[i - 1] IN EncPut(p, freq, symbols[n - i + 1])
  IN  Flushed(st[n])

(* A string that is read is the one packing its content gives: two different        *)
(* signatures never say the same, neither by their lengths, nor by another state of *)
(* the coder, nor behind the content.                                               *)
PackingReadingIsUnique ==
  packingPc.at = "accepted" =>
           LET zs == Coded(FreqZ, [i \in 1 .. SizeZ |-> SymbolZ(packingOut.z[i])])
               hs == Coded(FreqH, [i \in 1 .. SizeH |-> SymbolH(packingOut.h[i])])
           IN  /\ packingSig.lenZ = Len(zs) - BaseZ /\ packingSig.lenH = Len(hs) - BaseH
               /\ packingSig.body = zs \o hs \o [d \in 1 .. BodyDigits - (Len(zs) + Len(hs)) |-> 0]


-----------------------------------------------------------------------------
(***********************************************************************************)
(* How HAETAE signing draws y (crypto_haetae_sample_gauss_N, _sample_gauss and     *)
(* _polyfixveclk_sample_hyperball) inside the signing loop: a stream per           *)
(* polynomial, read in records that a block boundary may cut, until enough of them *)
(* are accepted. A byte of a stream is its position, so what is read shows where   *)
(* it was; which records, hyperballs and signatures are accepted is left open.     *)
(***********************************************************************************)
CONSTANTS
  SamplerN,              \* coefficients of a polynomial
  Polys,          \* l + k
  Record,         \* bytes of one sample: CRYPTO_HAETAE_GAUSS_RANDOM_BYTES
  SamplerRate,           \* bytes of one block of the stream
  SignsPerByte,   \* 8
  MaxRefused,     \* bound: refused records of one stream
  MaxStreams      \* bound: streams of one signature

ASSUME SamplerAssumption ==
  /\ SamplerN \in Nat \ {0} /\ Polys \in Nat /\ Polys >= 2 /\ SamplerRate >= Record
  /\ Record \in Nat \ {0} /\ SignsPerByte \in Nat \ {0} /\ SamplerN % SignsPerByte = 0

VARIABLES
  counter,   \* the signing loop's counter
  samplerNonce,     \* ni
  poly,      \* the polynomial drawn
  used,      \* nonces of the streams opened so far, in order
  squeezed,  \* bytes taken from the open stream
  samplerBuf,       \* buf, by positions
  samplerBytes,     \* bytecnt of crypto_haetae_sample_gauss_N
  next,      \* first byte of buf not yet looked at
  got,       \* accepted records of the open stream
  records,   \* the records read from the open stream
  samples,   \* slot -> <<nonce, first position>>, or <<>>
  samplerSum,       \* squares added to sqsum
  bit,       \* the nonce that gives b, or <<>>
  refused, samplerPc
samplerVars == <<counter, samplerNonce, poly, used, squeezed, samplerBuf, samplerBytes, next, got,
                 records, samples, samplerSum, bit, refused, samplerPc>>

Length(p) == IF p < 2 THEN SamplerN + 1 ELSE SamplerN
Signs(p) == Length(p) \div SignsPerByte
SamplerBlocks == (Record * SamplerN + SamplerRate - 1) \div SamplerRate
Positions(from, n) == [i \in 1 .. n |-> from + i - 1]
Slots == 0 .. SamplerN * Polys - 1

SamplerInit ==
  /\ counter = 0 /\ samplerNonce = 0 /\ poly = 0 /\ used = <<>> /\ squeezed = 0 /\ samplerBuf = <<>>
  /\ samplerBytes = 0 /\ next = 1 /\ got = 0 /\ records = <<>>
  /\ samples = [s \in Slots |-> <<>>] /\ samplerSum = 0 /\ bit = <<>> /\ refused = 0 /\ samplerPc = "sign"

\* crypto_haetae_sign_core: one round of the loop begins where the last one stopped.
RoundStart == samplerNonce' = counter
SignRound ==
  /\ samplerPc = "sign" /\ RoundStart
  /\ poly' = 0 /\ samplerSum' = 0 /\ bit' = <<>> /\ samplerPc' = "open"
  /\ UNCHANGED <<counter, used, squeezed, samplerBuf, samplerBytes, next, got, records,
                 samples, refused>>

\* crypto_haetae_sample_gauss_N: the first blocks, the signs, and what is left of them.
OpenStream ==
  /\ samplerPc = "open" /\ Len(used) < MaxStreams
  /\ used' = Append(used, samplerNonce) /\ samplerNonce' = samplerNonce + 1
  /\ squeezed' = SamplerBlocks * SamplerRate /\ samplerBuf' = Positions(0, SamplerBlocks * SamplerRate)
  /\ samplerBytes' = SamplerBlocks * SamplerRate - Signs(poly) /\ next' = Signs(poly) + 1
  /\ got' = 0 /\ records' = <<>> /\ refused' = 0
  /\ samplerPc' = "sample"
  /\ UNCHANGED <<counter, poly, samples, samplerSum, bit>>

\* One turn of crypto_haetae_sample_gauss: the record is written before it is accepted,
\* and the last of N + 1 goes nowhere.
Unread == samplerBytes - (next - 1 - (IF squeezed = SamplerBlocks * SamplerRate THEN Signs(poly) ELSE 0))
SkipsWrite == Length(poly) % SamplerN # 0 /\ got = Length(poly) - 1
SampleOne ==
  /\ samplerPc = "sample" /\ got < Length(poly) /\ Unread >= Record
  /\ records' = Append(records, SubSeq(samplerBuf, next, next + Record - 1))
  /\ samples' = IF SkipsWrite THEN samples
                ELSE [s \in Slots |-> IF s = SamplerN * poly + got THEN <<used[Len(used)], samplerBuf[next]>> ELSE samples[s]]
  /\ next' = next + Record
  /\ \/ got' = got + 1 /\ samplerSum' = samplerSum + 1 /\ UNCHANGED refused
     \/ refused < MaxRefused /\ refused' = refused + 1 /\ UNCHANGED <<got, samplerSum>>
  /\ UNCHANGED <<counter, samplerNonce, poly, used, squeezed, samplerBuf, samplerBytes, bit,
                 samplerPc>>

\* The rest of the buffer moves to its front, one more block comes behind it.
Carried(off) ==
  LET skipped == IF squeezed = SamplerBlocks * SamplerRate THEN Signs(poly) ELSE 0
  IN  SubSeq(samplerBuf, samplerBytes + skipped - off + 1, samplerBytes + skipped)
SamplerRefill ==
  /\ samplerPc = "sample" /\ got < Length(poly) /\ Unread < Record
  /\ LET off == samplerBytes % Record
     IN  /\ samplerBuf' = Carried(off) \o Positions(squeezed, SamplerRate)
         /\ samplerBytes' = SamplerRate + off
  /\ squeezed' = squeezed + SamplerRate /\ next' = 1
  /\ UNCHANGED <<counter, samplerNonce, poly, used, got, records, samples, samplerSum, bit,
                 refused, samplerPc>>
CloseStream ==
  /\ samplerPc = "sample" /\ got = Length(poly)
  /\ poly' = poly + 1 /\ samplerPc' = IF poly + 1 < Polys THEN "open" ELSE "scale"
  /\ UNCHANGED <<counter, samplerNonce, used, squeezed, samplerBuf, samplerBytes, next, got,
                 records, samples, samplerSum, bit, refused>>

\* The vector is scaled to the sphere; outside the ball everything is drawn again, and
\* inside it the two bits of b come from the next stream.
SquaresBefore == 0
OutsideBall ==
  /\ samplerPc = "scale" /\ poly' = 0 /\ samplerSum' = SquaresBefore /\ samplerPc' = "open"
  /\ UNCHANGED <<counter, samplerNonce, used, squeezed, samplerBuf, samplerBytes, next, got,
                 records, samples, bit, refused>>
InsideBall ==
  /\ samplerPc = "scale" /\ bit' = <<samplerNonce>> /\ counter' = samplerNonce /\ samplerPc' = "judge"
  /\ UNCHANGED <<samplerNonce, poly, used, squeezed, samplerBuf, samplerBytes, next, got,
                 records, samples, samplerSum, refused>>
\* The norms, the coin or the size of the signature may ask for another round.
Judge ==
  /\ samplerPc = "judge" /\ samplerPc' \in {"sign", "signed"}
  /\ UNCHANGED <<counter, samplerNonce, poly, used, squeezed, samplerBuf, samplerBytes, next, got,
                 records, samples, samplerSum, bit, refused>>

Stopped == /\ samplerPc = "signed" \/ (samplerPc = "open" /\ Len(used) = MaxStreams)
           /\ UNCHANGED samplerVars
SamplerNext == \/ SignRound \/ OpenStream \/ SampleOne \/ SamplerRefill \/ CloseStream
               \/ OutsideBall \/ InsideBall \/ Judge \/ Stopped
SamplerSpec == SamplerInit /\ [][SamplerNext]_samplerVars

(* ------------------------------- properties ----------------------------- *)
(* The records of a stream are its bytes behind the signs, each byte read once and in *)
(* order: none is lost or read twice where a block ended inside a record.             *)
RecordsAreTheStream ==
  samplerPc = "sample" => \A r \in 1 .. Len(records) :
                            records[r] = Positions(Signs(poly) + (r - 1) * Record, Record)

(* No two streams of a signature have the same nonce, through every repetition of the   *)
(* hyperball and of the signing loop; the coin is fresh with respect to its own vector. *)
(* Nothing is said of the vector after it: the coin of a rejected round is drawn under  *)
(* the nonce that opens the next round's first stream.                                  *)
StreamsAreFresh ==
  /\ \A i, j \in 1 .. Len(used) : i # j => used[i] # used[j]
  /\ bit # <<>> => \A i \in 1 .. Len(used) : used[i] # bit[1]

(* A full vector: each slot from the stream of its own polynomial, no slot from a record *)
(* another one also has, and the norm made of two squares more than there are slots.     *)
VectorIsWhole ==
  samplerPc \in {"scale", "judge", "signed"} =>
    /\ samplerSum = SamplerN * Polys + 2
    /\ \A s \in Slots : samples[s] # <<>> /\ samples[s][1] = used[Len(used) - Polys + (s \div SamplerN) + 1]
    /\ \A s, t \in Slots : s # t => samples[s] # samples[t]

(* What the buffer holds never passes its end, and a call writes only its own slots.      *)
InsideBuffers ==
  /\ Len(samplerBuf) <= SamplerBlocks * SamplerRate
  /\ \A s \in Slots : samplerPc = "sample" /\ samples[s] # <<>> /\ samples[s][1] = used[Len(used)] => s \div SamplerN = poly


-----------------------------------------------------------------------------
(************************************************************************************)
(* Keys, signatures and verification of HAETAE (haetae.c) with one matrix row,      *)
(* two columns and polynomials of one coefficient: the ring is the integers         *)
(* modulo Q, so transforms disappear and everything else stays: both ways of        *)
(* making keys, fixed-point vectors, rounding, the rejections and the hint. The     *)
(* challenge is an oracle's answer; how y is drawn and how a signature is coded are *)
(* the machines above.                                                              *)
(************************************************************************************)
CONSTANTS
  LargeN,         \* CRYPTO_HAETAE_LARGE_N: units of a fixed-point coefficient
  B0Square, B1Square, B2Square,
  GammaSquare,    \* of the keys: gamma^2 * N
  HaetaeMatrix,         \* values tried for the public coefficients
  HaetaeYRange,         \* fixed-point coefficients tried
  MaxRounds       \* bound: rounds of the key generation's and the signing loop

HaetaeEta == {-1, 0, 1}

VARIABLES
  haetaeD,         \* the rounding of the public key: 1, or 0 for HAETAE-260
  haetaeMatrix, shift,   \* A' and a: from rho'
  haetaeS, haetaePk,     \* <<s1, s2>> and b
  haetaeY, coin,   \* <<y0, y1, y2>> and the two bits of b
  haetaeW, haetaeC, haetaeSig, \* high bits and parity sent to the oracle, its answer, <<z0, z1, hint>>
  haetaeHeard,     \* what verification asks the oracle
  rounds, haetaePc
haetaeVars == <<haetaeD, haetaeMatrix, shift, haetaeS, haetaePk, haetaeY, coin, haetaeW,
                haetaeC, haetaeSig, haetaeHeard, rounds, haetaePc>>

HaetaeRound(x) == (x + (LargeN \div 2)) \div LargeN
\* A product in the transform's domain, back to the ordinary one: in (-Q, Q).
Tomont == LET f == (HaetaeR * HaetaeR) % HaetaeQ IN IF f > HaetaeQ \div 2 THEN f - HaetaeQ ELSE f
HaetaeProduct(a, b) == MontgomeryReduce(Tomont * MontgomeryReduce(a * b))
HaetaeSquare(v) == v[1] * v[1] + v[2] * v[2] + v[3] * v[3]

HaetaeInit ==
  /\ haetaeD \in {0, 1} /\ haetaeMatrix \in HaetaeMatrix /\ shift \in (IF haetaeD = 1 THEN HaetaeMatrix ELSE {0})
  /\ haetaeS = <<>> /\ haetaePk = 0 /\ haetaeY = <<>> /\ coin = <<>> /\ haetaeW = <<>> /\ haetaeC = 0 /\ haetaeSig = <<>>
  /\ haetaeHeard = <<>> /\ rounds = 0 /\ haetaePc = "keygen"

HaetaeScheme == <<haetaeD, haetaeMatrix, shift>>
Key == <<haetaeS, haetaePk>>

\* crypto_haetae_keygen_core: with rounding, its error moves into s2, which is judged after.
HaetaeKeyOf(t) ==
  IF haetaeD = 1
  THEN LET b == Freeze(HaetaeProduct(haetaeMatrix, t[1]) + t[2] + shift)
       IN  [s |-> <<t[1], t[2] - LowVk(b)>>, pk |-> HighVk(b)]
  ELSE [s |-> t, pk |-> Caddq(MontgomeryReduce((-(2 * (HaetaeR % HaetaeQ))) * Freeze(HaetaeProduct(haetaeMatrix, t[1]) + t[2])))]
Acceptable(t) == t[1] * t[1] + t[2] * t[2] <= GammaSquare
HaetaeKeyGen ==
  /\ haetaePc = "keygen" /\ rounds < MaxRounds
  /\ \E t \in HaetaeEta \X HaetaeEta :
       LET k == HaetaeKeyOf(t)
       IN  IF Acceptable(k.s) THEN haetaeS' = k.s /\ haetaePk' = k.pk /\ rounds' = 0 /\ haetaePc' = "sign"
           ELSE rounds' = rounds + 1 /\ UNCHANGED <<Key, haetaePc>>
  /\ UNCHANGED <<HaetaeScheme, haetaeY, coin, haetaeW, haetaeC, haetaeSig, haetaeHeard>>

\* The columns as unpack_sk and verify_core make them from the public key.
HaetaeFirst == IF haetaeD = 1 THEN 2 * (shift - 2 * haetaePk) ELSE haetaePk
Image(z0, z1) == HaetaeProduct(HaetaeFirst, z0) + HaetaeProduct(2 * haetaeMatrix, z1)

\* crypto_haetae_sign_core, up to the question to the oracle.
Commitment(v) == Freeze2q(FromCrt(Image(HaetaeRound(v[1]), HaetaeRound(v[2])) + 2 * HaetaeRound(v[3]), HaetaeRound(v[1])))
SampleY ==
  /\ haetaePc = "sign" /\ rounds < MaxRounds
  /\ haetaeY' \in HaetaeYRange \X HaetaeYRange \X HaetaeYRange /\ HaetaeSquare(haetaeY') <= B0Square * LargeN * LargeN
  /\ coin' \in {0, 1} \X {0, 1}
  /\ haetaeW' = <<HighBits(Commitment(haetaeY')), HaetaeRound(haetaeY'[1]) % 2>>
  /\ haetaePc' = "answer"
  /\ UNCHANGED <<HaetaeScheme, Key, haetaeC, haetaeSig, haetaeHeard, rounds>>
HaetaeAnswer ==
  /\ haetaePc = "answer" /\ haetaeC' \in {0, 1} /\ haetaePc' = "respond"
  /\ UNCHANGED <<HaetaeScheme, Key, haetaeY, coin, haetaeW, haetaeSig, haetaeHeard, rounds>>

\* z = y + (-1)^b c s, in fixed point, and the two rejections.
SignOf(b) == 1 - 2 * b
FixedAdd(x, n) == x + LargeN * n
HaetaeZ == LET move(v, n) == FixedAdd(v, SignOf(coin[1]) * HaetaeProduct(haetaeC, n))
           IN  <<FixedAdd(haetaeY[1], SignOf(coin[1]) * haetaeC), move(haetaeY[2], haetaeS[1]), move(haetaeY[3], haetaeS[2])>>
Reject1 == HaetaeSquare(HaetaeZ) > B1Square * LargeN * LargeN
Reject2 ==
  /\ coin[2] = 1
  /\ HaetaeSquare([i \in 1 .. 3 |-> 2 * HaetaeZ[i] - haetaeY[i]]) < B0Square * LargeN * LargeN
HintFor(z) == LET v == Commitment(haetaeY) IN HaetaeHint(v, Freeze2q(v - 2 * HaetaeRound(z[3])))
\* The signature is handed out, or its coding is too long.
HaetaeRespond ==
  /\ haetaePc = "respond"
  /\ \/ /\ ~Reject1 /\ ~Reject2
        /\ haetaeSig' = [low  |-> <<LowZ(HaetaeRound(HaetaeZ[1])), LowZ(HaetaeRound(HaetaeZ[2]))>>,
                         high |-> <<HighZ(HaetaeRound(HaetaeZ[1])), HighZ(HaetaeRound(HaetaeZ[2]))>>, hint |-> HintFor(HaetaeZ)]
        /\ haetaePc' = "signed" /\ UNCHANGED <<haetaeY, coin, haetaeW, haetaeC, rounds>>
     \/ /\ rounds' = rounds + 1 /\ haetaePc' = "sign" /\ haetaeY' = <<>> /\ coin' = <<>> /\ haetaeW' = <<>> /\ haetaeC' = 0
        /\ UNCHANGED haetaeSig
  /\ UNCHANGED <<HaetaeScheme, Key, haetaeHeard>>

\* crypto_haetae_verify_core
Z1 == [i \in 1 .. 2 |-> haetaeSig.high[i] * ZAlpha + haetaeSig.low[i]]
HaetaeVerify ==
  /\ haetaePc = "signed"
  /\ LET parity == (Z1[1] - haetaeC) % 2
         v      == Freeze2q(FromCrt(Image(Z1[1], Z1[2]), parity))
         high   == HaetaeUseHint(haetaeSig.hint, v)
         z2     == Reduce2q((high * HaetaeAlpha - v) + parity) \div 2
     IN  /\ haetaeHeard' = <<high, parity>>
         /\ haetaePc' = IF HaetaeSquare(<<Z1[1], Z1[2], z2>>) > B2Square THEN "invalid"
                        ELSE IF haetaeHeard' = haetaeW THEN "valid" ELSE "asked"
  /\ UNCHANGED <<HaetaeScheme, Key, haetaeY, coin, haetaeW, haetaeC, haetaeSig, rounds>>

HaetaeFinished == /\ haetaePc \in {"valid", "invalid", "asked"} \/ (haetaePc \in {"keygen", "sign"} /\ rounds = MaxRounds)
                  /\ UNCHANGED haetaeVars
HaetaeNext == HaetaeKeyGen \/ SampleY \/ HaetaeAnswer \/ HaetaeRespond \/ HaetaeVerify \/ HaetaeFinished
HaetaeSpec == HaetaeInit /\ [][HaetaeNext]_haetaeVars

(* ------------------------------- properties ----------------------------- *)
(* Both kinds of key: the columns times the secret vanish modulo Q, whatever was *)
(* rounded away. Signing counts on it when it moves c s out of the commitment.   *)
KeysVanish ==
  haetaePc \notin {"keygen"} => (Image(1, haetaeS[1]) + 2 * haetaeS[2]) % HaetaeQ = 0

(* What is handed out verifies: the verifier finds the high bits and the parity the    *)
(* signer asked the oracle with, through rounding, sign, hint and the wrap at the last *)
(* level, and the norm it computes is within the larger bound.                         *)
HaetaeSignaturesVerify == haetaePc \notin {"invalid", "asked"}

(* What the signature says is the rounded y moved by the whole numbers c s: rounding *)
(* commutes with adding them in fixed point, and high and low bits compose again.    *)
RoundedIsWhole ==
  haetaePc = "signed" =>
    Z1 = [i \in 1 .. 2 |-> HaetaeRound(haetaeY[i]) + SignOf(coin[1]) * haetaeC * (IF i = 1 THEN 1 ELSE haetaeS[1])]

=============================================================================
