------------------------------ MODULE Ed25519 -------------------------------
(****************************************************************************)
(* Ed25519: the twisted Edwards curve, its point and scalar arithmetic, and *)
(* the signature calls.                                                     *)
(****************************************************************************)
EXTENDS Integers, Sequences, SequencesExt, FiniteSetsExt
LOCAL INSTANCE Modular

-----------------------------------------------------------------------------
(*****************************************************************************)
(* Points of -x^2 + y^2 = 1 + D x^2 y^2 as ed25519.c computes with them: the *)
(* extended coordinates, one complete addition, the doubling, and the strict *)
(* encoding of a point as y with the parity of x.                            *)
(*****************************************************************************)
CONSTANTS
  EdP, D,              \* P = 5 modulo 8, D no square
  Root,              \* a square root of -1
  BaseX, BaseY, L,         \* the base point and its order
  EdFieldBits          \* 255

ASSUME EdAssumption ==
  /\ EdP % 8 = 5 /\ (Root * Root + 1) % EdP = 0 /\ EdP < 2^EdFieldBits
  /\ \A x \in 0 .. EdP - 1 : (x * x) % EdP # D

EdFe == 0 .. EdP - 1
Extended(x, y, z, t) == [x |-> x % EdP, y |-> y % EdP, z |-> z % EdP, t |-> t % EdP]
Identity == Extended(0, 1, 1, 0)
EdBasePoint == Extended(BaseX, BaseY, 1, BaseX * BaseY)

EdAddPoints(l, r) ==
  LET a == ((l.y - l.x) * (r.y - r.x)) % EdP
      b == ((l.y + l.x) * (r.y + r.x)) % EdP
      c == (((l.t * r.t) % EdP) * 2 * D) % EdP
      d == (2 * l.z * r.z) % EdP
      e == b - a  f == d - c  g == d + c  h == b + a
  IN  Extended(e * f, g * h, f * g, e * h)
DoublePoint(p) ==
  LET a == (p.x * p.x) % EdP   b == (p.y * p.y) % EdP
      e == (p.x + p.y) * (p.x + p.y) - a - b
      g == b - a
      f == (g - 2 * p.z * p.z) % EdP
      h == -a - b
  IN  Extended(e * f, g * h, f * g, e * h)

IsIdentity(p) == p.x = 0 /\ p.y = p.z
SamePoint(l, r) ==
  /\ (l.x * r.z) % EdP = (r.x * l.z) % EdP
  /\ (l.y * r.z) % EdP = (r.y * l.z) % EdP

\* Encodings are numbers of EdFieldBits + 1 bits.
EdAffine(p) == LET i == PowMod(p.z, EdP - 2, EdP) IN <<(p.x * i) % EdP, (p.y * i) % EdP>>
EncodePoint(p) == LET a == EdAffine(p) IN a[2] + 2^EdFieldBits * (a[1] % 2)
\* A root of x2 by the exponent (P + 3) / 8, or that times the root of -1.
RootOf(x2) ==
  LET x == PowMod(x2, (EdP + 3) \div 8, EdP)
      w == (x * Root) % EdP
  IN  IF (x * x) % EdP = x2 THEN <<x>> ELSE IF (w * w) % EdP = x2 THEN <<w>> ELSE <<>>
\* A sequence of one point, or none.
EdDecodePoint(code) ==
  LET y == code % 2^EdFieldBits
      sign == code \div 2^EdFieldBits
      v == PowMod((D * ((y * y) % EdP) + 1) % EdP, EdP - 2, EdP)
      roots == RootOf(((y * y - 1) * v) % EdP)
      x == IF roots[1] % 2 = sign THEN roots[1] ELSE (EdP - roots[1]) % EdP
  IN  IF y >= EdP \/ roots = <<>> THEN <<>>
      ELSE IF roots[1] = 0 /\ sign = 1 THEN <<>>
      ELSE <<Extended(x, y, 1, x * y)>>

(* ------------------------------ the reference ---------------------------- *)
AffineSum(p, q) ==
  LET s == (D * ((p[1] * q[1] * p[2]) % EdP) * q[2]) % EdP
  IN  <<((p[1] * q[2] + p[2] * q[1]) * PowMod((1 + s) % EdP, EdP - 2, EdP)) % EdP,
        ((p[2] * q[2] + p[1] * q[1]) * PowMod((1 - s) % EdP, EdP - 2, EdP)) % EdP>>
EdTimesPoint(n, p) ==
  LET times[i \in 0 .. n] == IF i = 0 THEN <<0, 1>> ELSE AffineSum(times[i - 1], p) IN times[n]
OnCurve(p) == (p[2] * p[2] - p[1] * p[1] - 1 - D * ((p[1] * p[1] * p[2]) % EdP) * p[2]) % EdP = 0
EdCurvePoints == {p \in EdFe \X EdFe : OnCurve(p)}
Base2 == <<BaseX, BaseY>>
Code(p) == p[2] + 2^EdFieldBits * (p[1] % 2)


-----------------------------------------------------------------------------
(**********************************************************************************)
(* The steps below Ed25519 signatures: addition, multiplication of a point by     *)
(* windows of a scalar, decoding, and the scalars modulo L, reduced bit by bit in *)
(* limbs.                                                                         *)
(**********************************************************************************)
CONSTANTS EdArithLimbBits, EdArithBytesPerLimb   \* of its limbs
LOCAL INSTANCE Limbs WITH LimbBits <- EdArithLimbBits, BytesPerLimb <- EdArithBytesPerLimb

CONSTANTS
  ScalarLimbs, EdArithWindowBits,   \* 8 and 4 in the code
  Scales,                    \* values of z tried
  Wide,                      \* digests reduced
  Stride,                    \* of the scalars tried in multiplications
  Factors                    \* scalars tried in mul_add

VARIABLES
  edArithOp, edArithPoint, other, edArithScalar,   \* the inputs
  wide,                       \* the array being reduced or filled
  acc, rest,                  \* accumulator (a point, or remainder limbs) and steps left
  edArithOut, edArithPc
edArithVars == <<edArithOp, edArithPoint, other, edArithScalar, wide, acc, rest, edArithOut,
                 edArithPc>>

EdArithScalarBits == EdArithLimbBits * ScalarLimbs
OrderLimbs == WordsOf(L, ScalarLimbs)
Projective(p, z) == Extended(p[1] * z, p[2] * z, z, ((p[1] * p[2]) % EdP) * z)

EdArithInit ==
  /\ edArithOp \in {"add", "window", "decode", "reduce", "muladd"}
  /\ edArithPoint \in IF edArithOp \in {"add", "window"} THEN {Projective(p, z) : p \in EdCurvePoints, z \in Scales}
                      ELSE {Identity}
  /\ other \in IF edArithOp = "add" THEN {Projective(p, 2) : p \in EdCurvePoints} ELSE {Identity}
  /\ edArithScalar \in CASE edArithOp = "window" -> {s \in 0 .. 2^EdArithScalarBits - 1 : s % Stride = 0}
                         [] edArithOp = "decode" -> 0 .. 2^(EdFieldBits + 1) - 1
                         [] edArithOp = "reduce" -> Wide
                         [] edArithOp = "muladd" -> Factors \X Factors \X Factors
                         [] OTHER -> {0}
  /\ edArithOp = "window" => edArithPoint.z = 1
  /\ wide = (IF edArithOp = "reduce" THEN WordsOf(edArithScalar, 2 * ScalarLimbs) ELSE Zeros(2 * ScalarLimbs))
  /\ acc = <<>> /\ rest = 0 /\ edArithOut = <<>> /\ edArithPc = "start"
EdArithInputs == <<edArithOp, edArithPoint, other, edArithScalar>>

EdArithAdd ==
  /\ edArithPc = "start" /\ edArithOp = "add"
  /\ edArithOut' = <<EdAddPoints(edArithPoint, other), DoublePoint(edArithPoint)>>
  /\ edArithPc' = "done" /\ UNCHANGED <<EdArithInputs, wide, acc, rest>>
EdArithDecode ==
  /\ edArithPc = "start" /\ edArithOp = "decode"
  /\ edArithOut' = EdDecodePoint(edArithScalar)
  /\ edArithPc' = "done" /\ UNCHANGED <<EdArithInputs, wide, acc, rest>>

\* ed25519_point_scalar_multiply: all windows, the top one first.
EdArithTable(i) ==
  LET entry[k \in 0 .. 2^EdArithWindowBits - 1] ==
        IF k = 0 THEN Identity ELSE IF k = 1 THEN edArithPoint ELSE EdAddPoints(entry[k - 1], edArithPoint)
  IN  entry[i]
EdArithStartWindows ==
  /\ edArithPc = "start" /\ edArithOp = "window"
  /\ acc' = <<Identity>> /\ rest' = EdArithScalarBits \div EdArithWindowBits /\ edArithPc' = "window"
  /\ UNCHANGED <<EdArithInputs, wide, edArithOut>>
Doublings == EdArithWindowBits
ProcessWindow ==
  /\ edArithPc = "window" /\ rest > 0
  /\ LET doubled[i \in 0 .. Doublings] == IF i = 0 THEN acc[1] ELSE DoublePoint(doubled[i - 1])
         index == (edArithScalar \div 2^(EdArithWindowBits * (rest - 1))) % 2^EdArithWindowBits
     IN  acc' = <<EdAddPoints(doubled[Doublings], EdArithTable(index))>>
  /\ rest' = rest - 1 /\ UNCHANGED <<EdArithInputs, wide, edArithOut, edArithPc>>
WindowsDone ==
  /\ edArithPc = "window" /\ rest = 0
  /\ edArithOut' = acc /\ edArithPc' = "done" /\ UNCHANGED <<EdArithInputs, wide, acc, rest>>

\* ed25519_scalar_mul_add: rows, then the addend, then the reduction of the bytes.
StartMulAdd ==
  /\ edArithPc = "start" /\ edArithOp = "muladd"
  /\ rest' = ScalarLimbs /\ edArithPc' = "rows" /\ UNCHANGED <<EdArithInputs, wide, acc,
                                                               edArithOut>>
MulAddRow ==
  /\ edArithPc = "rows" /\ rest > 0
  /\ LET i == ScalarLimbs - rest
     IN  wide' = ProductRow(wide, WordsOf(edArithScalar[2], ScalarLimbs), At(WordsOf(edArithScalar[1], ScalarLimbs), i), i)
  /\ rest' = rest - 1 /\ UNCHANGED <<EdArithInputs, acc, edArithOut, edArithPc>>
Summed == AddWords(wide, WordsOf(edArithScalar[3], ScalarLimbs), 2 * ScalarLimbs).w
AddAddend ==
  /\ edArithPc = "rows" /\ rest = 0
  /\ wide' = Summed /\ edArithPc' = "start reduction"
  /\ UNCHANGED <<EdArithInputs, acc, rest, edArithOut>>

\* ed25519_scalar_reduce
StartReduction ==
  /\ edArithPc = "start reduction" \/ (edArithPc = "start" /\ edArithOp = "reduce")
  /\ acc' = Zeros(ScalarLimbs) /\ rest' = 2 * EdArithScalarBits /\ edArithPc' = "reduce"
  /\ UNCHANGED <<EdArithInputs, wide, edArithOut>>
BitAt(w, b) == (w[(b \div EdArithLimbBits) + 1] \div 2^(b % EdArithLimbBits)) % 2
Shifted(w, carry) ==
  LET step(s, i) == [w |-> Append(s.w, Low((2 * w[i + 1]) + s.carry)), carry |-> w[i + 1] \div 2^(EdArithLimbBits - 1)]
  IN  Loop(step, [w |-> <<>>, carry |-> carry], 0, ScalarLimbs - 1).w
Less(w) == LET d == SubWords(w, OrderLimbs, ScalarLimbs) IN IF d.borrow = 0 THEN d.w ELSE w
ReduceBit ==
  /\ edArithPc = "reduce" /\ rest > 0
  /\ acc' = Less(Shifted(acc, BitAt(wide, rest - 1)))
  /\ rest' = rest - 1 /\ UNCHANGED <<EdArithInputs, wide, edArithOut, edArithPc>>
ReductionDone ==
  /\ edArithPc = "reduce" /\ rest = 0
  /\ edArithOut' = acc /\ edArithPc' = "done" /\ UNCHANGED <<EdArithInputs, wide, acc, rest>>

EdArithFinished == edArithPc = "done" /\ UNCHANGED edArithVars
EdArithNext == \/ EdArithAdd \/ EdArithDecode \/ EdArithStartWindows \/ ProcessWindow \/ WindowsDone \/ StartMulAdd \/ MulAddRow
               \/ AddAddend \/ StartReduction \/ ReduceBit \/ ReductionDone \/ EdArithFinished
EdArithSpec == EdArithInit /\ [][EdArithNext]_edArithVars

(* ------------------------------- properties ----------------------------- *)
WellFormed(p) == p.z # 0 /\ (p.t * p.z) % EdP = (p.x * p.y) % EdP

(* One formula adds any two points, equal, opposite or neutral, and the fourth      *)
(* coordinate stays the product of the affine ones: the next addition relies on it. *)
AdditionIsLaw ==
  edArithOp = "add" /\ edArithPc = "done" =>
    /\ WellFormed(edArithOut[1]) /\ EdAffine(edArithOut[1]) = AffineSum(EdAffine(edArithPoint), EdAffine(other))
    /\ WellFormed(edArithOut[2]) /\ EdAffine(edArithOut[2]) = AffineSum(EdAffine(edArithPoint), EdAffine(edArithPoint))

(* The accumulator is the multiple by the windows behind it, for points of any order.    *)
WindowsKeepMultiple ==
  edArithPc = "window" =>
    /\ WellFormed(acc[1])
    /\ EdAffine(acc[1]) = EdTimesPoint(edArithScalar \div 2^(EdArithWindowBits * rest), EdAffine(edArithPoint))

(* A string is accepted exactly when it is the encoding of a point: no second string *)
(* for a y above the modulus, none for a negative zero.                              *)
DecodingIsStrict ==
  edArithOp = "decode" /\ edArithPc = "done" =>
    IF \E p \in EdCurvePoints : Code(p) = edArithScalar
    THEN edArithOut # <<>> /\ EncodePoint(edArithOut[1]) = edArithScalar /\ OnCurve(EdAffine(edArithOut[1]))
    ELSE edArithOut = <<>>

(* The remainder is that of the bits behind, and doubling it never leaves the limbs; *)
(* the product with its addend fits into the array it is reduced from.               *)
ReductionKeepsResidue ==
  edArithPc = "reduce" =>
    /\ WordsValue(acc) = (WordsValue(wide) \div 2^rest) % L
    /\ edArithOp = "muladd" => WordsValue(wide) = edArithScalar[1] * edArithScalar[2] + edArithScalar[3]


-----------------------------------------------------------------------------
(***********************************************************************************)
(* Ed25519 keys, signatures and verification (ed25519.c).  SHA-512 is ideal: the   *)
(* digests of the seed, of the prefix with the message and of R, A and the message *)
(* are any numbers; multiplication and reduction are those of EdArithmetic.        *)
(***********************************************************************************)
CONSTANTS
  EdSignScalarBits,                   \* 256: bits of an encoded scalar
  EdSignDigests,                      \* values a reduced digest is taken from, unreduced
  EdSignSs                            \* second halves tried as a signature

VARIABLES
  edSignOp, edSignRequest,
  expanded,                     \* the first half of the seed's digest, before clamping
  nonceDigest, challengeDigest,
  publicKey,                    \* "verify": the bytes given; else what was computed
  edSignPublic, edSignPrivate,              \* outputs of key generation
  edSignSignature, localR,
  edSignError, edSignPc
edSignVars == <<edSignOp, edSignRequest, expanded, nonceDigest, challengeDigest, publicKey, edSignPublic, edSignPrivate,
                edSignSignature, localR, edSignError, edSignPc>>

EdSignOld == -1
OldSignature == <<EdSignOld, EdSignOld>>
EdSignCleared == <<0, 0>>
Codes == 0 .. 2^(EdFieldBits + 1) - 1
\* Public keys tried: those of the prime order and every fifth string.
Keys == {c \in Codes : c % 5 = 0} \cup {Code(EdTimesPoint(d, Base2)) : d \in 1 .. L - 1}
\* Multiples, already reduced by the order of the whole group.
EdSignMultiply(n, p) == EdTimesPoint(n % (8 * L), p)

EdSignRequests == [known : BOOLEAN, present : BOOLEAN, keyLength : BOOLEAN, length : BOOLEAN, apart : BOOLEAN]
EdSignVerdict ==
  IF ~edSignRequest.known THEN "ALG_ID" ELSE IF ~edSignRequest.present THEN "ARGUMENT"
  ELSE IF ~edSignRequest.keyLength /\ edSignOp # "keygen" THEN "KEY"
  ELSE IF ~edSignRequest.length THEN (IF edSignOp = "verify" THEN "SIGNATURE" ELSE "SMALL")
  ELSE IF ~edSignRequest.apart /\ edSignOp # "verify" THEN "ARGUMENT"
  ELSE "OK"

\* expanded[0] &= 248; expanded[31] &= 63; expanded[31] |= 64.
EdSignClamped(h) == LET low == h % 2^(EdSignScalarBits - 2) IN (low - (low % 8)) + 2^(EdSignScalarBits - 2)
Secret == EdSignClamped(expanded)
Nonce == nonceDigest % L
Challenge == challengeDigest % L

EdSignInit ==
  /\ edSignOp \in {"keygen", "public", "sign", "verify"}
  /\ edSignRequest \in EdSignRequests
  /\ LET full == \A f \in DOMAIN edSignRequest : edSignRequest[f]
     IN  /\ expanded \in IF edSignOp = "verify" \/ ~full THEN {0} ELSE 0 .. 2^EdSignScalarBits - 1
         /\ nonceDigest \in IF edSignOp = "sign" /\ full THEN EdSignDigests ELSE {0}
         /\ challengeDigest \in IF edSignOp \in {"sign", "verify"} /\ full THEN EdSignDigests ELSE {0}
         /\ publicKey \in IF edSignOp = "verify" /\ full THEN Keys ELSE {EdSignOld}
         /\ edSignSignature \in IF edSignOp = "verify" /\ full THEN Codes \X EdSignSs ELSE {OldSignature}
  /\ edSignPublic = EdSignOld /\ edSignPrivate = EdSignOld /\ localR = EdSignOld
  /\ edSignError = "OK" /\ edSignPc = "check"
EdSignCall == <<edSignOp, edSignRequest, expanded, nonceDigest, challengeDigest>>

EdSignCheck ==
  /\ edSignPc = "check"
  /\ edSignError' = EdSignVerdict
  /\ edSignPc' = IF edSignError' = "OK" THEN edSignOp ELSE "done"
  /\ UNCHANGED <<EdSignCall, publicKey, edSignPublic, edSignPrivate, edSignSignature, localR>>

\* ed25519_public_from_seed in key generation and derivation.
MakeKeys ==
  /\ edSignPc \in {"keygen", "public"}
  /\ edSignPublic' = Code(EdSignMultiply(Secret, Base2))
  /\ edSignPrivate' = (IF edSignOp = "keygen" THEN expanded ELSE edSignPrivate)
  /\ edSignPc' = "done"
  /\ UNCHANGED <<EdSignCall, publicKey, edSignSignature, localR, edSignError>>
KeysFail ==
  /\ edSignPc \in {"keygen", "public"}
  /\ edSignError' = "FAILED" /\ edSignPc' = "done"
  /\ edSignPublic' = 0 /\ edSignPrivate' = (IF edSignOp = "keygen" THEN 0 ELSE edSignPrivate)
  /\ UNCHANGED <<EdSignCall, publicKey, edSignSignature, localR>>

\* Signing computes the public key anew, then R, then S; the output last.
SignKey ==
  /\ edSignPc = "sign"
  /\ publicKey' = Code(EdSignMultiply(Secret, Base2)) /\ edSignPc' = "nonce"
  /\ UNCHANGED <<EdSignCall, edSignPublic, edSignPrivate, edSignSignature, localR, edSignError>>
SignNonce ==
  /\ edSignPc = "nonce"
  /\ localR' = Code(EdSignMultiply(Nonce, Base2)) /\ edSignPc' = "challenge"
  /\ UNCHANGED <<EdSignCall, publicKey, edSignPublic, edSignPrivate, edSignSignature,
                 edSignError>>
Solved == (Challenge * Secret + Nonce) % L
SignResponse ==
  /\ edSignPc = "challenge"
  /\ edSignSignature' = <<localR, Solved>> /\ edSignPc' = "done"
  /\ UNCHANGED <<EdSignCall, publicKey, edSignPublic, edSignPrivate, localR, edSignError>>
EdSignHashFails ==
  /\ edSignPc \in {"sign", "nonce", "challenge"}
  /\ edSignSignature' = EdSignCleared /\ edSignError' = "FAILED" /\ edSignPc' = "done"
  /\ UNCHANGED <<EdSignCall, publicKey, edSignPublic, edSignPrivate, localR>>

\* crypto_ed25519_verify_internal
IsPrimeOrder(p) == ~IsIdentity(p) /\ EdSignMultiply(L, EdAffine(p)) = <<0, 1>>
EdSignIsCanonical(s) == s < L
AcceptsKey(a) == LET p == EdDecodePoint(a) IN p # <<>> /\ IsPrimeOrder(p[1])
Matches(a, r, s, k) ==
  EdSignMultiply(s, Base2) = AffineSum(EdAffine(EdDecodePoint(r)[1]), EdSignMultiply(k, EdAffine(EdDecodePoint(a)[1])))
Outcome(a, r, s, k) ==
  IF ~AcceptsKey(a) THEN "KEY"
  ELSE IF ~EdSignIsCanonical(s) \/ EdDecodePoint(r) = <<>> THEN "SIGNATURE"
  ELSE IF Matches(a, r, s, k) THEN "OK" ELSE "SIGNATURE"
EdSignVerify ==
  /\ edSignPc = "verify"
  /\ edSignError' = Outcome(publicKey, edSignSignature[1], edSignSignature[2], Challenge)
  /\ edSignPc' = "done"
  /\ UNCHANGED <<EdSignCall, publicKey, edSignPublic, edSignPrivate, edSignSignature, localR>>
VerifyFails ==
  /\ edSignPc = "verify" /\ Outcome(publicKey, edSignSignature[1], edSignSignature[2], 0) # "KEY"
  /\ EdSignIsCanonical(edSignSignature[2]) /\ EdDecodePoint(edSignSignature[1]) # <<>>
  /\ edSignError' = "FAILED" /\ edSignPc' = "done"
  /\ UNCHANGED <<EdSignCall, publicKey, edSignPublic, edSignPrivate, edSignSignature, localR>>

EdSignFinished == edSignPc = "done" /\ UNCHANGED edSignVars
EdSignNext == \/ EdSignCheck \/ MakeKeys \/ KeysFail \/ SignKey \/ SignNonce \/ SignResponse \/ EdSignHashFails
              \/ EdSignVerify \/ VerifyFails \/ EdSignFinished
EdSignSpec == EdSignInit /\ [][EdSignNext]_edSignVars

(* ------------------------------- properties ----------------------------- *)

(* Whatever the digests are, what is signed is accepted under the derived key, which *)
(* is itself accepted.                                                               *)
EdSignSignaturesVerify ==
  edSignOp = "sign" /\ edSignPc = "done" /\ edSignError = "OK" =>
    Outcome(publicKey, edSignSignature[1], edSignSignature[2], Challenge) = "OK"

(* Nothing accepted can be changed into another accepted signature: both halves are *)
(* the only strings for their values, and R has no part of small order.             *)
AcceptedIsUnique ==
  edSignOp = "verify" /\ edSignPc = "done" /\ edSignError = "OK" =>
    /\ \A s \in 0 .. 2^EdSignScalarBits - 1 :
         s # edSignSignature[2] => Outcome(publicKey, edSignSignature[1], s, Challenge) # "OK"
    /\ \A r \in Codes : r # edSignSignature[1] => Outcome(publicKey, r, edSignSignature[2], Challenge) # "OK"
    /\ \E d \in 1 .. L - 1 : /\ publicKey = Code(EdTimesPoint(d, Base2))
                             /\ edSignSignature[1] = Code(EdTimesPoint((edSignSignature[2] - Challenge * d) % L, Base2))

(* A generation or a signature that fails half way leaves zeros in every output.        *)
EdSignFailureLeavesNothing ==
  edSignPc = "done" /\ edSignError # "OK" /\ edSignOp # "verify" =>
    IF edSignError # "FAILED" THEN edSignPublic = EdSignOld /\ edSignPrivate = EdSignOld /\ edSignSignature = OldSignature
    ELSE /\ edSignOp \in {"keygen", "public"} => edSignPublic = 0
         /\ edSignOp = "keygen" => edSignPrivate = 0
         /\ edSignOp = "sign" => edSignSignature = EdSignCleared

=============================================================================
