---------------------------- MODULE KeyedHashing ----------------------------
(***************************************************************************)
(* Message authentication and key derivation: Poly1305 with its updates,   *)
(* the one-shot calls of HMAC and CMAC, and the loops of HKDF and PBKDF2.  *)
(***************************************************************************)
EXTENDS Integers, Sequences
LOCAL INSTANCE SequencesExt

-----------------------------------------------------------------------------
(****************************************************************************)
(* The Poly1305 authenticator (poly1305.c) at reduced width: an accumulator *)
(* of Limbs limbs of LimbBits bits (5 of 26 in the code) modulo 2^130 - 5,  *)
(* here 2^(Limbs LimbBits) - 5, fed in blocks of BlockBytes bytes (16) by   *)
(* updates of any length, and finished with a reduction, a conversion of    *)
(* limbs into words and the addition of the pad.                            *)
(****************************************************************************)
CONSTANTS
  Limbs, LimbBits, PolyBlockBytes, PolyByteBits, WordBits,
  Multipliers, Pads,     \* keys tried: values of r and of s
  PolyBytes, PolyMaxMessage      \* message bytes and the longest message

Radix == 2^LimbBits
P == 2^(Limbs * LimbBits) - 5
BlockBits == PolyBlockBytes * PolyByteBits

VARIABLES
  polyKey,        \* the key: r and pad as numbers
  R, H,       \* limbs, least significant first
  buffer, leftover,
  polyMessage,    \* everything passed to update so far
  polyTag         \* the finished tag, as words; empty before
polyVars == <<polyKey, R, H, buffer, leftover, polyMessage, polyTag>>

LimbsOf(v) == [i \in 1 .. Limbs |-> (v \div Radix^(i - 1)) % Radix]
PolyValueOf(limbs) == FoldRight(LAMBDA x, acc : acc * Radix + x, limbs, 0)
PolyNumber(bytes) == FoldRight(LAMBDA x, acc : acc * 2^PolyByteBits + x, bytes, 0)

\* crypto_poly1305_init_internal; the key's clamped bits are those never tried.
PolyInit ==
  /\ polyKey \in [r : Multipliers, pad : Pads]
  /\ R = LimbsOf(polyKey.r) /\ H = LimbsOf(0)
  /\ buffer = <<>> /\ leftover = 0 /\ polyMessage = <<>> /\ polyTag = <<>>

\* A carry through the limbs from the first; the last one comes back times 5.
Ripple(d) ==
  LET carried[i \in 0 .. Limbs] ==
        IF i = 0 THEN <<>>
        ELSE Append(carried[i - 1],
                    d[i] + (IF i = 1 THEN 0 ELSE carried[i - 1][i - 1] \div Radix))
  IN  carried[Limbs]
Fold(c) == 5 * c
Carried(d) ==
  LET t  == Ripple(d)
      h1 == (t[1] % Radix) + Fold(t[Limbs] \div Radix)
  IN  [i \in 1 .. Limbs |-> IF i = 1 THEN h1 % Radix
                            ELSE IF i = 2 THEN (t[2] % Radix) + (h1 \div Radix)
                            ELSE t[i] % Radix]

\* The product's row i: limbs that pass the top come back times 5.
SumTo(f, n) == LET s[i \in 0 .. n] == IF i = 0 THEN 0 ELSE s[i - 1] + f[i] IN s[n]
PolyRow(h, i) ==
  SumTo([j \in 1 .. Limbs |->
           IF j <= i THEN h[j] * R[i - j + 1] ELSE h[j] * (5 * R[Limbs + i - j + 1])], Limbs)

\* poly1305_blocks on one block, with or without the bit above it.
PolyBlock(h, bytes, highBit) ==
  LET c == LimbsOf(PolyNumber(bytes) + highBit)
      s == [i \in 1 .. Limbs |-> h[i] + c[i]]
  IN  Carried([i \in 1 .. Limbs |-> PolyRow(s, i)])
FullBit == 2^BlockBits
PolyBlocks(h, bytes) ==
  LET n == Len(bytes) \div PolyBlockBytes
      after[k \in 0 .. n] ==
        IF k = 0 THEN h
        ELSE PolyBlock(after[k - 1],
                       SubSeq(bytes, (k - 1) * PolyBlockBytes + 1, k * PolyBlockBytes), FullBit)
  IN  after[n]

\* crypto_poly1305_update_internal: fill the buffer, take whole blocks, keep
\* the rest.
PolyLesser(a, b) == IF a < b THEN a ELSE b
Wanted(n) == PolyLesser(PolyBlockBytes - leftover, n)
Update ==
  /\ polyTag = <<>>
  /\ \E n \in 0 .. PolyMaxMessage - Len(polyMessage) : \E m \in [1 .. n -> PolyBytes] :
       LET w      == IF leftover = 0 THEN 0 ELSE Wanted(n)
           filled == SubSeq(buffer, 1, leftover) \o SubSeq(m, 1, w)
           still  == leftover # 0 /\ leftover + w < PolyBlockBytes
           h      == IF leftover = 0 THEN H ELSE PolyBlocks(H, filled)
           rest   == SubSeq(m, w + 1, n)
           whole  == Len(rest) - (Len(rest) % PolyBlockBytes)
           tail   == SubSeq(rest, whole + 1, Len(rest))
       IN  /\ polyMessage' = polyMessage \o m
           /\ IF still
              THEN buffer' = filled /\ leftover' = leftover + w /\ H' = H
              ELSE /\ H' = PolyBlocks(h, SubSeq(rest, 1, whole))
                   /\ buffer' = (IF tail = <<>> THEN buffer ELSE tail)
                   /\ leftover' = Len(tail)
  /\ UNCHANGED <<polyKey, R, polyTag>>

\* The last reductions: full carries, then h - p if that is not negative.
Reduced(h) ==
  LET t  == Ripple([h EXCEPT ![1] = 0])
      h1 == h[1] + Fold(t[Limbs] \div Radix)
  IN  [i \in 1 .. Limbs |-> IF i = 1 THEN h1 % Radix
                            ELSE IF i = 2 THEN (t[2] % Radix) + (h1 \div Radix)
                            ELSE t[i] % Radix]
Selected(h) ==
  LET g == Ripple([h EXCEPT ![1] = h[1] + 5])
      top == g[Limbs] - Radix
  IN  IF top < 0 THEN h
      ELSE [i \in 1 .. Limbs |-> IF i = Limbs THEN top ELSE g[i] % Radix]

\* Words put together from shifted limbs by "or"; a bit set in two limbs counts
\* once, and what is beyond the word is cut off.
Words == BlockBits \div WordBits
BitSet(v, b) == b >= 0 /\ (v \div 2^b) % 2 = 1
PolyWord(h, k) ==
  SumTo([b \in 1 .. WordBits |->
           IF \E i \in 1 .. Limbs : BitSet(h[i], k * WordBits + b - 1 - (i - 1) * LimbBits)
           THEN 2^(b - 1) ELSE 0], WordBits)
WithPad(words, pad) ==
  LET sum[k \in 0 .. Words] ==
        IF k = 0 THEN 0 ELSE words[k] + pad[k] + (sum[k - 1] \div 2^WordBits)
  IN  [k \in 1 .. Words |-> sum[k] % 2^WordBits]
WordsOf(v) == [k \in 1 .. Words |-> (v \div 2^((k - 1) * WordBits)) % 2^WordBits]

Padded == SubSeq(buffer, 1, leftover) \o <<1>> \o [i \in 1 .. PolyBlockBytes - leftover - 1 |-> 0]
Final ==
  /\ polyTag = <<>>
  /\ LET h == IF leftover = 0 THEN H ELSE PolyBlock(H, Padded, 0)
         f == Selected(Reduced(h))
     IN  polyTag' = WithPad([k \in 1 .. Words |-> PolyWord(f, k - 1)], WordsOf(polyKey.pad))
  /\ H' = LimbsOf(0) /\ R' = LimbsOf(0) /\ buffer' = <<>> /\ leftover' = 0
  /\ UNCHANGED <<polyKey, polyMessage>>

PolyFinished == polyTag # <<>> /\ UNCHANGED polyVars
PolyNext == Update \/ Final \/ PolyFinished
PolySpec == PolyInit /\ [][PolyNext]_polyVars

(* ------------------------------- properties ----------------------------- *)
\* The polynomial of the message: every block, with a one above its last byte.
Cut(m, k) == SubSeq(m, (k - 1) * PolyBlockBytes + 1, PolyLesser(k * PolyBlockBytes, Len(m)))
Polynomial(m) ==
  LET n == (Len(m) + PolyBlockBytes - 1) \div PolyBlockBytes
      acc[k \in 0 .. n] ==
        IF k = 0 THEN 0
        ELSE ((acc[k - 1] + PolyNumber(Append(Cut(m, k), 1))) * polyKey.r) % P
  IN  acc[n]
Absorbed == SubSeq(polyMessage, 1, Len(polyMessage) - (Len(polyMessage) % PolyBlockBytes))

(* However a message is cut into updates, the accumulator is congruent to the *)
(* polynomial of its whole blocks, its limbs stay within a bit of their width *)
(* (so that the next products fit), and the rest waits in the buffer.         *)
AccumulatorIsPolynomial ==
  polyTag = <<>> =>
    /\ PolyValueOf(H) % P = Polynomial(Absorbed)
    /\ \A i \in 1 .. Limbs : H[i] < 2 * Radix /\ (i # 2 => H[i] < Radix)
    /\ SubSeq(buffer, 1, leftover) = SubSeq(polyMessage, Len(Absorbed) + 1, Len(polyMessage))

(* The tag is the fully reduced polynomial plus the pad, whatever the cuts and *)
(* whichever side of the modulus the accumulator is on.                        *)
TagIsExact ==
  polyTag # <<>> =>
    polyTag = WordsOf((Polynomial(polyMessage) + polyKey.pad) % 2^BlockBits)


-----------------------------------------------------------------------------
(****************************************************************************)
(* HMAC over an incremental hash context (MessageAuthentication.c): the key *)
(* is hashed when it is longer than a block, two pads are made of it, and   *)
(* ten calls on one context follow, each of which may fail.  Digests are    *)
(* terms: two are equal only if the same bytes were hashed.                 *)
(****************************************************************************)
CONSTANTS
  HmacBytes,                    \* key and message bytes
  HmacBlockLength, HmacDigestLength,
  MaxKey, HmacMaxMessage

VARIABLES
  hmacKey, hmacMessage, hmacTagLength,
  keyBlock,          \* the normalised key
  context,           \* what the hash context has absorbed, or Cleared
  innerDigest, fullTag,
  hmacTag,               \* the caller's buffer
  hmacStep, hmacStatus
hmacVars == <<hmacKey, hmacMessage, hmacTagLength, keyBlock, context, innerDigest, fullTag,
              hmacTag, hmacStep, hmacStatus>>

HmacCleared == <<>>
\* A byte: one of the caller's, or a place of a digest.
Literal(b) == [of |-> HmacCleared, at |-> b]
HmacZero == Literal(0)
Strings(n) == UNION {[1 .. k -> {Literal(b) : b \in HmacBytes}] : k \in 0 .. n}
\* The digest of s: as many places of it as a digest has bytes.
Digest(s) == [i \in 1 .. HmacDigestLength |-> [of |-> s, at |-> i]]

HmacInit ==
  /\ hmacKey \in Strings(MaxKey) /\ hmacMessage \in Strings(HmacMaxMessage)
  /\ hmacTagLength \in 0 .. HmacDigestLength + 1
  /\ keyBlock = HmacCleared /\ context = HmacCleared
  /\ innerDigest = HmacCleared /\ fullTag = HmacCleared /\ hmacTag = HmacCleared
  /\ hmacStep = "start" /\ hmacStatus = "none"
HmacInputs == <<hmacKey, hmacMessage, hmacTagLength>>

TooLong(k) == Len(k) > HmacBlockLength
NormalizedKey(k) == IF TooLong(k) THEN Digest(k) ELSE k
KeyBlock(k) ==
  [i \in 1 .. HmacBlockLength |-> IF i <= Len(NormalizedKey(k)) THEN NormalizedKey(k)[i] ELSE HmacZero]
Pad(block, constant) == [i \in DOMAIN block |-> [byte |-> block[i], xor |-> constant]]
InnerPad == Pad(keyBlock, "36")
OuterPad == Pad(keyBlock, "5c")

HmacRefuse ==
  /\ hmacStep = "start" /\ hmacTagLength \notin 1 .. HmacDigestLength
  /\ hmacStep' = "done" /\ hmacStatus' = "invalid_argument"
  /\ UNCHANGED <<HmacInputs, keyBlock, context, innerDigest, fullTag, hmacTag>>

Normalize ==
  /\ hmacStep = "start" /\ hmacTagLength \in 1 .. HmacDigestLength
  /\ keyBlock' = KeyBlock(hmacKey)
  /\ hmacStep' = "inner_init"
  /\ UNCHANGED <<HmacInputs, context, innerDigest, fullTag, hmacTag, hmacStatus>>

\* The calls on the context in their order: what each does to it.
HmacCall(from, to, newContext) ==
  /\ hmacStep = from /\ hmacStep' = to /\ context' = newContext
  /\ UNCHANGED <<HmacInputs, keyBlock, hmacTag, hmacStatus>>
Fresh == HmacCleared
InnerInit   == HmacCall("inner_init", "inner_pad", HmacCleared) /\ UNCHANGED <<innerDigest, fullTag>>
InnerKey    == HmacCall("inner_pad", "inner_message", context \o InnerPad) /\ UNCHANGED <<innerDigest, fullTag>>
InnerText   == HmacCall("inner_message", "inner_squeeze", context \o hmacMessage) /\ UNCHANGED <<innerDigest, fullTag>>
\* finalize, squeeze, clear
InnerSqueeze ==
  /\ innerDigest' = Digest(context) /\ fullTag' = fullTag
  /\ HmacCall("inner_squeeze", "outer_init", Fresh)
OuterInit   == HmacCall("outer_init", "outer_pad", context) /\ UNCHANGED <<innerDigest, fullTag>>
OuterKey    == HmacCall("outer_pad", "outer_digest", context \o OuterPad) /\ UNCHANGED <<innerDigest, fullTag>>
OuterText   == HmacCall("outer_digest", "outer_squeeze", context \o innerDigest) /\ UNCHANGED <<innerDigest, fullTag>>
OuterSqueeze ==
  /\ fullTag' = Digest(context) /\ innerDigest' = innerDigest
  /\ HmacCall("outer_squeeze", "copy", context)

\* Cleanup clears the context and every intermediate array on the way out.
HmacCleanup == keyBlock' = HmacCleared /\ innerDigest' = HmacCleared /\ fullTag' = HmacCleared /\ context' = HmacCleared
Copy ==
  /\ hmacStep = "copy"
  /\ hmacTag' = SubSeq(fullTag, 1, hmacTagLength)
  /\ hmacStep' = "done" /\ hmacStatus' = "ok" /\ HmacCleanup
  /\ UNCHANGED HmacInputs
CallFails ==
  /\ hmacStep \notin {"start", "copy", "done"}
  /\ hmacStep' = "done" /\ hmacStatus' = "error" /\ HmacCleanup
  /\ UNCHANGED <<HmacInputs, hmacTag>>

HmacFinished == hmacStep = "done" /\ UNCHANGED hmacVars
HmacNext == \/ HmacRefuse \/ Normalize \/ InnerInit \/ InnerKey \/ InnerText \/ InnerSqueeze
            \/ OuterInit \/ OuterKey \/ OuterText \/ OuterSqueeze \/ Copy \/ CallFails \/ HmacFinished
HmacSpec == HmacInit /\ [][HmacNext]_hmacVars

\* LIBERAC_HMAC_VERIFY recomputes the tag at the length of the one received.
Verifies(received, expected) == received = expected

(* ------------------------------- properties ----------------------------- *)

(* A tag is the digest of the outer pad and the inner digest, with no byte of *)
(* the inner hash left in the context that computes the outer one, truncated  *)
(* from the left.                                                             *)
TagIsHmac ==
  hmacStatus = "ok" =>
    LET block == KeyBlock(hmacKey)
    IN  hmacTag = SubSeq(Digest(Pad(block, "5c") \o Digest(Pad(block, "36") \o hmacMessage)), 1, hmacTagLength)

(* Tags of two keys coincide only when the keys are the same up to zero bytes at *)
(* the end of a key that fits a block: a key of exactly one block is used as it  *)
(* is, and a longer one loses none of its bytes.                                 *)
At(k, i) == IF i <= Len(k) THEN k[i] ELSE HmacZero
KeysStayApart ==
  hmacStatus = "ok" =>
    \A other \in Strings(MaxKey) :
      LET block == KeyBlock(other)
      IN  hmacTag[1].of = Pad(block, "5c") \o Digest(Pad(block, "36") \o hmacMessage) =>
            \/ hmacKey = other
            \/ /\ Len(hmacKey) <= HmacBlockLength /\ Len(other) <= HmacBlockLength
               /\ \A i \in 1 .. HmacBlockLength : At(hmacKey, i) = At(other, i)

(* However the computation ends, nothing derived from the key is left behind, and *)
(* without success no tag is.                                                     *)
HmacNothingLeft ==
  hmacStep = "done" =>
    /\ keyBlock = HmacCleared /\ context = HmacCleared /\ innerDigest = HmacCleared /\ fullTag = HmacCleared
    /\ hmacStatus # "ok" => hmacTag = HmacCleared


-----------------------------------------------------------------------------
(****************************************************************************)
(* CMAC (MessageAuthentication.c) over a small block cipher: two subkeys by *)
(* doubling in a binary field, a chain over all blocks but the last, and a  *)
(* last block that is masked with the first subkey when it is whole and     *)
(* padded and masked with the second when it is not.  GMAC is the           *)
(* authenticated encryption of nothing, which module Aead is about.         *)
(****************************************************************************)
CONSTANTS
  CmacByteBits, CmacBlockLength,   \* 8 and 16, or 8 for Triple DES
  Reduction,               \* 0x87, or 0x1b
  CmacKeys, CmacMaxMessage

CmacByte == 0 .. 2^CmacByteBits - 1
BlockSize == 2^(CmacByteBits * CmacBlockLength)

VARIABLES
  cmacKey, cmacMessage, cmacTagLength,
  cmacState, remaining, subkey1, subkey2,
  cmacTag, cmacStep, cmacStatus
cmacVars == <<cmacKey, cmacMessage, cmacTagLength, cmacState, remaining, subkey1, subkey2,
              cmacTag, cmacStep, cmacStatus>>

Zeros(n) == [i \in 1 .. n |-> 0]
CmacNumber(b) == FoldLeft(LAMBDA acc, x : acc * 2^CmacByteBits + x, 0, b)
CmacBlock(v) == [i \in 1 .. CmacBlockLength |-> (v \div 2^(CmacByteBits * (CmacBlockLength - i))) % 2^CmacByteBits]

\* The cipher: some permutation of the blocks for every key.
CmacEncrypt(k, b) == CmacBlock((CmacNumber(b) * (2 * k + 3) + 5 * k + 1) % BlockSize)

CmacXorByte(a, b) == CHOOSE x \in CmacByte :
  \A i \in 0 .. CmacByteBits - 1 : (x \div 2^i) % 2 = ((a \div 2^i) + (b \div 2^i)) % 2
\* cmac_xor_block
CmacXorBlock(s, t) == [i \in 1 .. CmacBlockLength |-> CmacXorByte(s[i], t[i])]

\* cmac_double: a shift through the bytes from the last, reduced by the bit
\* that leaves the first.
TopBit(b) == b \div 2^(CmacByteBits - 1)
Double(b) ==
  LET shifted(i) == ((2 * b[i]) % 2^CmacByteBits) + (IF i < CmacBlockLength THEN TopBit(b[i + 1]) ELSE 0)
  IN  [i \in 1 .. CmacBlockLength |->
         IF i = CmacBlockLength /\ TopBit(b[1]) = 1 THEN CmacXorByte(shifted(i), Reduction) ELSE shifted(i)]

CmacCleared == <<>>
CmacInit ==
  /\ cmacKey \in CmacKeys /\ cmacMessage \in UNION {[1 .. n -> CmacByte] : n \in 0 .. CmacMaxMessage}
  /\ cmacTagLength \in 0 .. CmacBlockLength + 1
  /\ cmacState = CmacCleared /\ remaining = Len(cmacMessage)
  /\ subkey1 = CmacCleared /\ subkey2 = CmacCleared /\ cmacTag = CmacCleared
  /\ cmacStep = "start" /\ cmacStatus = "none"
CmacInputs == <<cmacKey, cmacMessage, cmacTagLength>>

CmacRefuse ==
  /\ cmacStep = "start" /\ cmacTagLength \notin 1 .. CmacBlockLength
  /\ cmacStep' = "done" /\ cmacStatus' = "invalid_argument"
  /\ UNCHANGED <<CmacInputs, cmacState, remaining, subkey1, subkey2, cmacTag>>

CmacStart ==
  /\ cmacStep = "start" /\ cmacTagLength \in 1 .. CmacBlockLength
  /\ LET l == CmacEncrypt(cmacKey, Zeros(CmacBlockLength))
     IN  subkey1' = Double(l) /\ subkey2' = Double(Double(l))
  /\ cmacState' = Zeros(CmacBlockLength)
  /\ cmacStep' = "chain"
  /\ UNCHANGED <<CmacInputs, remaining, cmacTag, cmacStatus>>

\* A whole block at the end is left for the last step.
More == remaining > CmacBlockLength
Cursor == Len(cmacMessage) - remaining
Chain ==
  /\ cmacStep = "chain" /\ More
  /\ cmacState' = CmacEncrypt(cmacKey, CmacXorBlock(cmacState, SubSeq(cmacMessage, Cursor + 1, Cursor + CmacBlockLength)))
  /\ remaining' = remaining - CmacBlockLength
  /\ UNCHANGED <<CmacInputs, subkey1, subkey2, cmacTag, cmacStep, cmacStatus>>

LastBlock ==
  LET rest == SubSeq(cmacMessage, Cursor + 1, Len(cmacMessage))
  IN  IF remaining = CmacBlockLength
      THEN CmacXorBlock(rest, subkey1)
      ELSE CmacXorBlock(rest \o <<2^(CmacByteBits - 1)>> \o Zeros(CmacBlockLength - remaining - 1), subkey2)

CmacCleanup == cmacState' = CmacCleared /\ subkey1' = CmacCleared /\ subkey2' = CmacCleared
FinalBlock ==
  /\ cmacStep = "chain" /\ ~More
  /\ cmacTag' = SubSeq(CmacEncrypt(cmacKey, CmacXorBlock(cmacState, LastBlock)), 1, cmacTagLength)
  /\ cmacStep' = "done" /\ cmacStatus' = "ok" /\ CmacCleanup
  /\ UNCHANGED <<CmacInputs, remaining>>

\* The key schedule or a block fails.
CipherFails ==
  /\ cmacStep # "done" /\ cmacTagLength \in 1 .. CmacBlockLength
  /\ cmacStep' = "done" /\ cmacStatus' = "error" /\ CmacCleanup
  /\ UNCHANGED <<CmacInputs, remaining, cmacTag>>

CmacFinished == cmacStep = "done" /\ UNCHANGED cmacVars
CmacNext == CmacRefuse \/ CmacStart \/ Chain \/ FinalBlock \/ CipherFails \/ CmacFinished
CmacSpec == CmacInit /\ [][CmacNext]_cmacVars

(* ------------------------------- properties ----------------------------- *)
\* The standard: the subkeys are L x and L x^2 modulo the field polynomial.
TimesX(v) == IF 2 * v < BlockSize THEN 2 * v
             ELSE CmacNumber(CmacXorBlock(CmacBlock(2 * v - BlockSize), CmacBlock(Reduction)))
Sub(m, i) == SubSeq(m, (i - 1) * CmacBlockLength + 1, i * CmacBlockLength)
Standard(m) ==
  LET n == IF m = <<>> THEN 1 ELSE (Len(m) + CmacBlockLength - 1) \div CmacBlockLength
      l == CmacNumber(CmacEncrypt(cmacKey, Zeros(CmacBlockLength)))
      whole == m # <<>> /\ Len(m) % CmacBlockLength = 0
      padded == IF whole THEN m
                ELSE m \o <<2^(CmacByteBits - 1)>> \o Zeros(n * CmacBlockLength - Len(m) - 1)
      mask == CmacBlock(IF whole THEN TimesX(l) ELSE TimesX(TimesX(l)))
      chain[i \in 0 .. n] ==
        IF i = 0 THEN Zeros(CmacBlockLength)
        ELSE CmacEncrypt(cmacKey, CmacXorBlock(chain[i - 1],
               IF i = n THEN CmacXorBlock(Sub(padded, i), mask) ELSE Sub(padded, i)))
  IN  chain[n]

(* The tag is the CMAC of the message: an empty message and a whole last block *)
(* are told apart, and both doublings are in the field.                        *)
TagIsCmac == cmacStatus = "ok" => cmacTag = SubSeq(Standard(cmacMessage), 1, cmacTagLength)

(* The last block is still there when the chain ends, unless there was none: it *)
(* is never absorbed without its subkey.                                        *)
LastBlockIsKept ==
  cmacStep = "chain" => remaining \in 0 .. Len(cmacMessage) /\ (cmacMessage # <<>> => remaining > 0)

(* No subkey and no chaining value is left behind, and only success gives a tag.  *)
CmacNothingLeft ==
  cmacStep = "done" =>
    /\ cmacState = CmacCleared /\ subkey1 = CmacCleared /\ subkey2 = CmacCleared
    /\ cmacStatus # "ok" => cmacTag = CmacCleared


-----------------------------------------------------------------------------
(******************************************************************************)
(* HKDF-Expand and PBKDF2 (KeyDerivation.c).  The pseudorandom function is    *)
(* HMAC, the machine above: here its output is a term that names its          *)
(* message, and a byte of key material is a set of such terms, the            *)
(* ones exclusive-ored into it, with its place in the block.  Extraction is   *)
(* one call of HMAC.                                                          *)
(******************************************************************************)
CONSTANTS
  KdfDigestLength,
  MaxBlocks,        \* 255, what the one-byte counter of HKDF can number
  MaxBlockNumber,   \* UINT32_MAX, what the four bytes of PBKDF2 can number
  MaxLength,        \* the longest output asked for
  Iterations        \* iteration counts asked for

VARIABLES
  kind,             \* "hkdf" or "pbkdf2"
  kdfLength, kdfCapacity, \* asked for, and the room there is
  info,             \* HKDF's info; PBKDF2's salt
  iterations,
  kdfBlock, iteration, \* counters
  previous,         \* HKDF: T(n - 1)
  ua, ub, currentIsA, accumulator,   \* PBKDF2: two buffers that change roles
  produced, output,
  kdfStep, kdfStatus
kdfVars == <<kind, kdfLength, kdfCapacity, info, iterations, kdfBlock, iteration, previous,
             ua, ub, currentIsA, accumulator, produced, output, kdfStep, kdfStatus>>

Nothing == <<>>
\* The value of HMAC at what an earlier value, a text and a counter make: every
\* such value is another sequence.
Prf(earlier, text, n) == Append(earlier, <<text, n>>)

KdfInit ==
  /\ kind \in {"hkdf", "pbkdf2"}
  /\ kdfLength \in 0 .. MaxLength /\ kdfCapacity \in {0, kdfLength, MaxLength}
  /\ info \in {"", "info"} /\ iterations \in Iterations \cup {0}
  /\ kind = "hkdf" => iterations = 0
  /\ kdfBlock = 1 /\ iteration = 0 /\ previous = Nothing
  /\ ua = Nothing /\ ub = Nothing /\ currentIsA = TRUE /\ accumulator = {}
  /\ produced = 0 /\ output = Nothing
  /\ kdfStep = "start" /\ kdfStatus = "none"
KdfInputs == <<kind, kdfLength, kdfCapacity, info, iterations>>
Buffers == <<kdfBlock, iteration, previous, ua, ub, currentIsA, accumulator>>

\* ------------------------------- checks ----------------------------------
Limit == MaxBlocks * KdfDigestLength
KdfBlocks == (kdfLength - 1) \div KdfDigestLength + 1
\* overlaps: the output shares a byte with an input.
KdfVerdict(overlaps) ==
  IF kind = "hkdf"
  THEN IF kdfLength > Limit THEN "message_too_large"
       ELSE IF kdfCapacity < kdfLength THEN "buffer_too_small"
       ELSE IF overlaps THEN "invalid_argument"
       ELSE "ok"
  ELSE IF kdfLength = 0 \/ iterations = 0 THEN "invalid_argument"
       ELSE IF kdfCapacity < kdfLength THEN "buffer_too_small"
       ELSE IF KdfBlocks > MaxBlockNumber THEN "message_too_large"
       ELSE IF overlaps THEN "invalid_argument"
       ELSE "ok"
KdfStart ==
  /\ kdfStep = "start"
  /\ \E overlaps \in {FALSE, kdfLength > 0} :
       IF KdfVerdict(overlaps) # "ok" \/ kdfLength = 0
       THEN kdfStep' = "done" /\ kdfStatus' = KdfVerdict(overlaps)
       ELSE kdfStep' = (IF kind = "hkdf" THEN "expand" ELSE "first") /\ kdfStatus' = kdfStatus
  /\ UNCHANGED <<KdfInputs, Buffers, produced, output>>

KdfLesser(a, b) == IF a < b THEN a ELSE b
CopyLength == KdfLesser(kdfLength - produced, KdfDigestLength)
\* The first n bytes of a block of key material.
KdfBytes(terms, n) == [i \in 1 .. n |-> [xor |-> terms, at |-> i]]
Hand(terms) ==
  /\ output' = output \o KdfBytes(terms, CopyLength)
  /\ produced' = produced + CopyLength

\* -------------------------------- HKDF -----------------------------------
\* T(n) = PRF(T(n - 1) | info | n); the counter is one byte.
CounterByte(n) == n % (MaxBlocks + 1)
FaultyNextBlock == Prf(Nothing, info, CounterByte(kdfBlock))
NextBlock == Prf(previous, info, CounterByte(kdfBlock))
ExpandBlock ==
  /\ kdfStep = "expand" /\ kind = "hkdf" /\ produced < kdfLength
  /\ LET t == NextBlock
     IN  /\ previous' = t
         /\ Hand({t})
  /\ kdfBlock' = kdfBlock + 1
  /\ UNCHANGED <<KdfInputs, iteration, ua, ub, currentIsA, accumulator, kdfStep, kdfStatus>>

\* ------------------------------- PBKDF2 ----------------------------------
\* encoded_block_number: four bytes after the salt.
BlockNumber(n) == n % (MaxBlockNumber + 1)
FirstIteration ==
  /\ kdfStep = "first" /\ produced < kdfLength
  /\ LET u == Prf(Nothing, info, BlockNumber(kdfBlock))
     IN  ua' = u /\ accumulator' = {u}
  /\ currentIsA' = TRUE /\ iteration' = 1
  /\ kdfStep' = "iterate"
  /\ UNCHANGED <<KdfInputs, kdfBlock, previous, ub, produced, output, kdfStatus>>

\* The next value is computed from the current buffer into the other one, and
\* the two change roles.
Current == IF currentIsA THEN ua ELSE ub
Swapped == ~currentIsA
SymmetricDifference(s, t) == (s \ t) \cup (t \ s)
Iterate ==
  /\ kdfStep = "iterate" /\ iteration < iterations
  /\ LET u == Prf(Current, "", 0)
     IN  /\ IF currentIsA THEN ub' = u /\ ua' = ua ELSE ua' = u /\ ub' = ub
         /\ accumulator' = SymmetricDifference(accumulator, {u})
  /\ currentIsA' = Swapped
  /\ iteration' = iteration + 1
  /\ UNCHANGED <<KdfInputs, kdfBlock, previous, produced, output, kdfStep, kdfStatus>>

BlockDone ==
  /\ kdfStep = "iterate" /\ iteration = iterations
  /\ Hand(accumulator)
  /\ kdfBlock' = kdfBlock + 1 /\ kdfStep' = "first"
  /\ UNCHANGED <<KdfInputs, iteration, previous, ua, ub, currentIsA, accumulator, kdfStatus>>

\* ------------------------------- the end ---------------------------------
Wipe == previous' = Nothing /\ ua' = Nothing /\ ub' = Nothing /\ accumulator' = {}
KdfComplete ==
  /\ kdfStep \in {"expand", "first"} /\ produced = kdfLength
  /\ kdfStep' = "done" /\ kdfStatus' = "ok" /\ Wipe
  /\ UNCHANGED <<KdfInputs, kdfBlock, iteration, currentIsA, produced, output>>

\* HMAC fails: what was produced is cleared.
KdfZero(n) == [i \in 1 .. n |-> [xor |-> {}, at |-> 0]]
Erased == KdfZero(produced)
PrfFails ==
  /\ kdfStep \in {"expand", "first", "iterate"}
  /\ kdfStep' = "done" /\ kdfStatus' = "error" /\ Wipe
  /\ output' = Erased
  /\ UNCHANGED <<KdfInputs, kdfBlock, iteration, currentIsA, produced>>

KdfFinished == kdfStep = "done" /\ UNCHANGED kdfVars
KdfNext == \/ KdfStart \/ ExpandBlock \/ FirstIteration \/ Iterate \/ BlockDone
           \/ KdfComplete \/ PrfFails \/ KdfFinished
KdfSpec == KdfInit /\ [][KdfNext]_kdfVars

(* ------------------------------- properties ----------------------------- *)
\* The standards' blocks.
HkdfBlock(n) ==
  LET t[k \in 0 .. n] == IF k = 0 THEN Nothing ELSE Prf(t[k - 1], info, k)
  IN  {t[n]}
Pbkdf2Block(n) ==
  LET u[k \in 1 .. iterations] == IF k = 1 THEN Prf(Nothing, info, n) ELSE Prf(u[k - 1], "", 0)
  IN  {u[k] : k \in 1 .. iterations}
StandardByte(i) ==
  LET n == ((i - 1) \div KdfDigestLength) + 1
  IN  [xor |-> IF kind = "hkdf" THEN HkdfBlock(n) ELSE Pbkdf2Block(n),
       at |-> ((i - 1) % KdfDigestLength) + 1]

(* At every moment what was produced is the beginning of the standard's output,  *)
(* and never more than was asked for; at the end it is all of it, its last block *)
(* in part, and no number of a block has come round; a refused call has nothing. *)
OutputIsStandard ==
  kdfStatus # "error" =>
    /\ Len(output) = produced /\ produced <= kdfLength
    /\ \A i \in 1 .. produced : output[i] = StandardByte(i)
    /\ kdfStatus = "ok" => produced = kdfLength
    /\ kdfStatus \notin {"none", "ok"} => produced = 0

(* When the pseudorandom function fails on a later block, the blocks already *)
(* handed out are taken back, and nothing is left in the working buffers.    *)
FailureClears ==
  kdfStep = "done" =>
    /\ previous = Nothing /\ ua = Nothing /\ ub = Nothing /\ accumulator = {}
    /\ kdfStatus = "error" => output = KdfZero(Len(output))

=============================================================================
