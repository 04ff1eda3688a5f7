------------------------------ MODULE EcCurve -------------------------------
(*****************************************************************************)
(* Arithmetic of the short Weierstrass curves (src/src/Util/EllipticCurve):  *)
(* the group of points in projective coordinates, the Montgomery field below *)
(* it and the scalar multiplication above it.                                *)
(*****************************************************************************)
EXTENDS Integers, Sequences, SequencesExt, FiniteSetsExt
LOCAL INSTANCE Modular
LOCAL INSTANCE FiniteSets

-----------------------------------------------------------------------------
(******************************************************************************)
(* Points of a curve y^2 = x^3 - 3x + B over a small prime field: the affine  *)
(* and Jacobian forms, the formulas of ecc_projective.c and the point         *)
(* encodings of ecc_encoding.c.  The field is that of the machine below, seen *)
(* as arithmetic modulo P.                                                    *)
(******************************************************************************)
CONSTANTS
  EcP, EcB,            \* the prime and the curve
  GX, GY,          \* the generator
  N,               \* its order
  FieldSize        \* encodings hold values below this power of two

ASSUME CurveAssumption ==
  /\ EcP % 4 = 3 /\ N % 2 = 1 /\ EcP <= FieldSize
  /\ (GY * GY) % EcP = (GX * GX * GX - 3 * GX + EcB) % EcP

EcFe == 0 .. EcP - 1
\* Affine points; y is meaningless at infinity.
Infinity == [x |-> 0, y |-> 0, infinity |-> TRUE]
EcAffine(x, y) == [x |-> x, y |-> y, infinity |-> FALSE]
Generator == EcAffine(GX, GY)
Rhs(x) == (x * x * x - 3 * x + EcB) % EcP
IsOnCurve(p) == p.infinity \/ (p.y * p.y) % EcP = Rhs(p.x)

\* ------------------------- Jacobian coordinates --------------------------
Jacobian(x, y, z) == [x |-> x % EcP, y |-> y % EcP, z |-> z % EcP]
JInfinity == Jacobian(0, 1, 0)
ToJacobian(p) == IF p.infinity THEN JInfinity ELSE Jacobian(p.x, p.y, 1)
ToAffine(j) ==
  IF j.z = 0 THEN Infinity
  ELSE LET i == PowMod(j.z, EcP - 2, EcP)
       IN  EcAffine((j.x * i * i) % EcP, (j.y * ((i * i * i) % EcP)) % EcP)

Double(j) ==
  LET delta == (j.z * j.z) % EcP
      gamma == (j.y * j.y) % EcP
      beta  == (j.x * gamma) % EcP
      alpha == (3 * (j.x - delta) * (j.x + delta)) % EcP
      x     == (alpha * alpha - 8 * beta) % EcP
  IN  IF j.z = 0 \/ j.y = 0 THEN JInfinity
      ELSE Jacobian(x, alpha * (4 * beta - x) - 8 * gamma * gamma,
                    (j.y + j.z) * (j.y + j.z) - gamma - delta)

\* jacobian_add_generic: the sum, and the differences of x and of y.
AddGeneric(a, b) ==
  LET zz1 == (a.z * a.z) % EcP   zz2 == (b.z * b.z) % EcP
      u1 == (a.x * zz2) % EcP    u2 == (b.x * zz1) % EcP
      s1 == (((a.y * zz2) % EcP) * b.z) % EcP
      s2 == (((b.y * zz1) % EcP) * a.z) % EcP
      h == (u2 - u1) % EcP
      i == (4 * h * h) % EcP
      j == (h * i) % EcP
      r == (2 * (s2 - s1)) % EcP
      v == (u1 * i) % EcP
      x == (r * r - j - 2 * v) % EcP
  IN  [sum |-> Jacobian(x, r * (v - x) - 2 * s1 * j,
                        (((a.z + b.z) * (a.z + b.z) - zz1 - zz2) % EcP) * h),
       h |-> h, r |-> r]
\* Selections by masks: a later one wins over an earlier one.
AddComplete(a, b) ==
  LET g == AddGeneric(a, b)
  IN  IF b.z = 0 THEN a
      ELSE IF a.z = 0 THEN b
      ELSE IF g.h = 0 /\ g.r # 0 THEN JInfinity
      ELSE IF g.h = 0 THEN Double(a)
      ELSE g.sum

\* ------------------------------ encodings --------------------------------
\* A byte string as its tag, its coordinates, and how many of those it has.
Encode(p, compressed) ==
  IF p.infinity THEN <<0>>
  ELSE IF compressed THEN <<2 + (p.y % 2), p.x>> ELSE <<4, p.x, p.y>>
FromField(v) == v < EcP
DecodedY(root, tag) == IF root % 2 = tag % 2 THEN root ELSE (EcP - root) % EcP
\* The point as a sequence of one, or none.
EcDecode(e, allowInfinity) ==
  LET y == IF Len(e) = 3 THEN e[3]
           ELSE DecodedY(PowMod(Rhs(e[2]), (EcP + 1) \div 4, EcP), e[1])
      wellFormed == /\ Len(e) = (CASE e[1] = 4 -> 3 [] e[1] \in {2, 3} -> 2 [] OTHER -> 0)
                    /\ \A i \in 2 .. Len(e) : FromField(e[i])
  IN  IF e = <<0>> THEN (IF allowInfinity THEN <<Infinity>> ELSE <<>>)
      ELSE IF wellFormed /\ IsOnCurve(EcAffine(e[2], y)) THEN <<EcAffine(e[2], y)>> ELSE <<>>

(* ------------------------------ the reference ---------------------------- *)
\* Addition by chords and tangents.
Negative(p) == IF p.infinity THEN p ELSE EcAffine(p.x, (EcP - p.y) % EcP)
Sum(p, q) ==
  IF p.infinity THEN q
  ELSE IF q.infinity THEN p
  ELSE IF q = Negative(p) THEN Infinity
  ELSE LET slope == IF p = q THEN ((3 * p.x * p.x - 3) * PowMod(2 * p.y, EcP - 2, EcP)) % EcP
                    ELSE ((q.y - p.y) * PowMod((q.x - p.x) % EcP, EcP - 2, EcP)) % EcP
           x == (slope * slope - p.x - q.x) % EcP
       IN  EcAffine(x, (slope * (p.x - x) - p.y) % EcP)
Multiple(n, p) ==
  LET times[i \in 0 .. n] == IF i = 0 THEN Infinity ELSE Sum(times[i - 1], p) IN times[n]
Points == {EcAffine(x, y) : x \in EcFe, y \in EcFe} \cup {Infinity}
EcCurvePoints == {p \in Points : IsOnCurve(p)}


-----------------------------------------------------------------------------
(******************************************************************************)
(* The fixed-size arithmetic under the NIST curves (ecc_field.c for the field *)
(* and, with the same structure, ecc_scalar_arith.c for the scalars): values  *)
(* in as many limbs as the modulus, in Montgomery form, a product formed      *)
(* completely and then reduced limb by limb, and one masked subtraction.      *)
(******************************************************************************)
CONSTANTS FieldLimbBits, FieldBytesPerLimb   \* of its limbs
LOCAL INSTANCE Limbs WITH LimbBits <- FieldLimbBits, BytesPerLimb <- FieldBytesPerLimb

CONSTANTS Moduli      \* field primes and group orders; 3 modulo 4 for roots

VARIABLES
  fieldM, fieldOp, fieldA, fieldB,        \* modulus, operation, operands (limbs)
  product, outer,     \* the double-length array and the row in it
  fieldOut, ok,
  fieldPc
fieldVars == <<fieldM, fieldOp, fieldA, fieldB, product, outer, fieldOut, ok, fieldPc>>

LimbCount(v) == CHOOSE fieldK \in 1 .. v : Base^fieldK > v /\ (fieldK = 1 \/ Base^(fieldK - 1) <= v)
fieldK == Len(fieldM)
M == WordsValue(fieldM)
R == Base^fieldK
\* The constants of a curve: R mod p, R^2 mod p, the negated inverse of the low
\* limb, and the two exponents.
One == WordsOf(R % M, fieldK)
R2 == WordsOf(((R % M) * (R % M)) % M, fieldK)
Factor == CHOOSE f \in Limb : Low(f * fieldM[1]) = Base - 1
InverseExponent == M - 2
RootExponent == (M + 1) \div 4
Bits == BitsOf(M)

\* A row: x * y added at place i, the carry rippling to the end of the array.
Row(w, x, y, i) ==
  LET step(s, j) == LET z == x * At(y, j) + s.w[i + j + 1] + s.carry
                    IN [w |-> [s.w EXCEPT ![i + j + 1] = Low(z)], carry |-> High(z)]
  IN  Loop(step, [w |-> w, carry |-> 0], 0, Len(w) - i - 1).w
ProductRowOf(w, x, y, i) == Row(w, x[i + 1], y, i)
ReductionRow(w, i) == Row(w, Low(w[i + 1] * Factor), fieldM, i)

\* The difference is kept unless it borrowed from a value without an extra limb.
FaultyConditional(value, extra) ==
  LET d == SubWords(value, fieldM, fieldK) IN IF d.borrow = 0 THEN d.w ELSE value
Conditional(value, extra) ==
  LET d == SubWords(value, fieldM, fieldK) IN IF extra # 0 \/ d.borrow = 0 THEN d.w ELSE value
FieldReduced(w) == Conditional(SubSeq(w, fieldK + 1, 2 * fieldK), w[2 * fieldK + 1])

FieldMultiply(x, y) ==
  LET full == Loop(LAMBDA w, i : ProductRowOf(w, x, y, i), Zeros(2 * fieldK + 2), 0, fieldK - 1)
  IN  FieldReduced(Loop(ReductionRow, full, 0, fieldK - 1))
FieldAdd(x, y) == LET s == AddWords(x, y, fieldK) IN Conditional(s.w, s.carry)
Subtract(x, y) ==
  LET d == SubWords(x, y, fieldK) IN IF d.borrow = 1 THEN AddWords(d.w, fieldM, fieldK).w ELSE d.w
\* from_bytes, from_bytes_reduced, to_bytes: bytes big-endian.
Bytes == fieldK * FieldBytesPerLimb
FromRaw(raw) == FieldMultiply(raw, R2)
Canonical(raw) == SubWords(raw, fieldM, fieldK).borrow = 1
FitsBits(raw) == WordsValue(raw) < 2^Bits
ToRaw(x) == FieldMultiply(x, WordsOf(1, fieldK))

Element(x) == WordsOf(x, fieldK)
FieldInit ==
  /\ \E v \in Moduli : fieldM = WordsOf(v, LimbCount(v))
  /\ fieldOp \in {"multiply", "add", "subtract", "invert", "root", "bytes"}
  /\ \E x \in 0 .. (IF fieldOp = "bytes" THEN R ELSE M) - 1 : fieldA = Element(x)
  /\ \E y \in 0 .. (IF fieldOp \in {"multiply", "add", "subtract"} THEN M - 1 ELSE 0) : fieldB = Element(y)
  /\ product = Zeros(2 * fieldK + 2) /\ outer = 0
  /\ fieldOut = <<>> /\ ok = TRUE /\ fieldPc = "product"
FieldCall == <<fieldM, fieldOp, fieldA, fieldB>>

MultiplyRow ==
  /\ fieldPc = "product" /\ fieldOp = "multiply"
  /\ product' = ProductRowOf(product, fieldA, fieldB, outer)
  /\ outer' = IF outer + 1 = fieldK THEN 0 ELSE outer + 1
  /\ fieldPc' = IF outer + 1 = fieldK THEN "reduce" ELSE fieldPc
  /\ UNCHANGED <<FieldCall, fieldOut, ok>>
ReduceRow ==
  /\ fieldPc = "reduce"
  /\ product' = ReductionRow(product, outer)
  /\ outer' = outer + 1
  /\ fieldPc' = IF outer' = fieldK THEN "select" ELSE fieldPc
  /\ UNCHANGED <<FieldCall, fieldOut, ok>>
Select ==
  /\ fieldPc = "select"
  /\ fieldOut' = FieldReduced(product) /\ fieldPc' = "done"
  /\ UNCHANGED <<FieldCall, product, outer, ok>>

\* The other operations: one step, or for powers one step for every bit of the
\* modulus's length, from the top.
AddOrSubtract ==
  /\ fieldPc = "product" /\ fieldOp \in {"add", "subtract"}
  /\ fieldOut' = IF fieldOp = "add" THEN FieldAdd(fieldA, fieldB) ELSE Subtract(fieldA, fieldB)
  /\ fieldPc' = "done"
  /\ UNCHANGED <<FieldCall, product, outer, ok>>
Exponent == IF fieldOp = "invert" THEN InverseExponent ELSE RootExponent
PowerBit ==
  /\ fieldPc = "product" /\ fieldOp \in {"invert", "root"} /\ outer < Bits
  /\ LET squared == IF outer = 0 THEN FieldMultiply(One, One) ELSE FieldMultiply(fieldOut, fieldOut)
     IN  fieldOut' = IF BitOf(Exponent, Bits - 1 - outer) = 1 THEN FieldMultiply(squared, fieldA) ELSE squared
  /\ outer' = outer + 1
  /\ UNCHANGED <<FieldCall, product, ok, fieldPc>>
PowerDone ==
  /\ fieldPc = "product" /\ fieldOp \in {"invert", "root"} /\ outer = Bits
  /\ ok' = (fieldOp = "root" => FieldMultiply(fieldOut, fieldOut) = fieldA)
  /\ fieldOut' = IF ok' THEN fieldOut ELSE Zeros(fieldK)
  /\ fieldPc' = "done"
  /\ UNCHANGED <<FieldCall, product, outer>>
\* The bytes are accepted as they are, or after one subtraction, or refused.
Parse ==
  /\ fieldPc = "product" /\ fieldOp = "bytes"
  /\ ok' = FitsBits(fieldA)
  /\ fieldOut' = IF Canonical(fieldA) THEN FromRaw(fieldA)
                 ELSE IF ok' THEN FromRaw(SubWords(fieldA, fieldM, fieldK).w) ELSE Zeros(fieldK)
  /\ fieldPc' = "done"
  /\ UNCHANGED <<FieldCall, product, outer>>

FieldFinished == fieldPc = "done" /\ UNCHANGED fieldVars
FieldNext == MultiplyRow \/ ReduceRow \/ Select \/ AddOrSubtract \/ PowerBit \/ PowerDone \/ Parse \/ FieldFinished
FieldSpec == FieldInit /\ [][FieldNext]_fieldVars

(* ------------------------------- properties ----------------------------- *)

(* No carry leaves the array: the rows add up to the product, and each reduction *)
(* row keeps it modulo the modulus and clears one more limb.                     *)
RowsAccumulate ==
  /\ fieldOp = "multiply" /\ fieldPc = "product" =>
       WordsValue(product) = WordsValue(SubSeq(fieldA, 1, outer)) * WordsValue(fieldB)
  /\ fieldPc = "reduce" =>
       /\ (WordsValue(product) - WordsValue(fieldA) * WordsValue(fieldB)) % M = 0
       /\ WordsValue(product) % Base^outer = 0
       /\ WordsValue(product) < 2 * M * R

(* Every operation gives the reduced value of the field, also for moduli that fill *)
(* their limbs, where a sum or a quotient needs one bit more.                      *)
ResultIsInField ==
  fieldPc = "done" /\ fieldOp # "bytes" =>
    LET x == WordsValue(fieldA)  y == WordsValue(fieldB)  z == WordsValue(fieldOut)
    IN  /\ z < M
        /\ fieldOp = "multiply" => (z * R - x * y) % M = 0
        /\ fieldOp = "add" => z = (x + y) % M
        /\ fieldOp = "subtract" => z = (x - y) % M
        /\ fieldOp = "invert" => (z * x) % M = (IF x = 0 THEN 0 ELSE (R * R) % M)
        /\ fieldOp = "root" /\ M % 4 = 3 =>
             /\ ok = (\E v \in 0 .. M - 1 : (v * v) % M = (x * R) % M)
             /\ ok => (z * z) % M = (x * R) % M

(* Bytes are taken exactly when they are below the modulus, reduced when they are *)
(* below the next power of two, and come back unchanged.                          *)
BytesComeBack ==
  fieldPc = "done" /\ fieldOp = "bytes" =>
    LET x == WordsValue(fieldA)
    IN  /\ Canonical(fieldA) = (x < M)
        /\ ok => WordsValue(ToRaw(fieldOut)) = (IF Canonical(fieldA) THEN x ELSE x - M)
        /\ ok => WordsValue(fieldOut) < M


-----------------------------------------------------------------------------
(*****************************************************************************)
(* What ecc_scalar_secret.c, ecc_scalar_vartime.c and ecc_encoding.c do on a *)
(* curve: one complete addition, a ladder with exchanges over all bits of a  *)
(* secret scalar, windows over the bits of a public one, and the decoding of *)
(* bytes.                                                                    *)
(*****************************************************************************)
CONSTANTS
  MultScalarBits, MultWindowBits,   \* bits of the order; 4 in the code
  Zs                        \* Jacobian scalings of the addends tried

VARIABLES
  multOp,                \* "add", "ladder", "window", "decode"
  multPoint, multScalar,     \* of a multiplication
  r0, r1,            \* Jacobian points; for "window" r0 is the result
  position,          \* bits or windows still to come
  encoding,
  multOut, multPc
multVars == <<multOp, multPoint, multScalar, r0, r1, position, encoding, multOut, multPc>>

Scaled(p, z) == IF p.infinity THEN JInfinity ELSE Jacobian(p.x * z * z, p.y * ((z * z * z) % EcP), z)
ScalarSpace == 0 .. 2^MultScalarBits - 1
MultValidScalar(s) == s # 0 /\ s < N
BitLen(s) == BitLength(s)
Windows(s) == (BitLen(s) + MultWindowBits - 1) \div MultWindowBits
MultEncodings ==
  {<<t>> : t \in 0 .. 5} \cup {<<t, x>> : t \in 0 .. 5, x \in 0 .. FieldSize - 1}
    \cup {<<t, x, y>> : t \in 0 .. 5, x \in 0 .. FieldSize - 1, y \in 0 .. FieldSize - 1}

MultInit ==
  /\ multOp \in {"add", "ladder", "window", "decode"}
  /\ multPoint \in IF multOp \in {"ladder", "window"} THEN EcCurvePoints ELSE {Infinity}
  /\ multScalar \in IF multOp \in {"ladder", "window"} THEN ScalarSpace ELSE {0}
  /\ encoding \in IF multOp = "decode" THEN MultEncodings ELSE {<<0>>}
  /\ \E p, q \in IF multOp = "add" THEN EcCurvePoints ELSE {Infinity} : \E z, w \in IF multOp = "add" THEN Zs ELSE {1} :
       r0 = Scaled(p, z) /\ r1 = Scaled(q, w)
  /\ position = 0 /\ multOut = <<>> /\ multPc = "start"
MultInputs == <<multOp, multPoint, multScalar, encoding>>

MultAddPoints ==
  /\ multPc = "start" /\ multOp = "add"
  /\ multOut' = <<ToAffine(AddComplete(r0, r1))>>
  /\ multPc' = "done"
  /\ UNCHANGED <<MultInputs, r0, r1, position>>

MultDecodePoint ==
  /\ multPc = "start" /\ multOp = "decode"
  /\ multOut' = EcDecode(encoding, FALSE)
  /\ multPc' = "done"
  /\ UNCHANGED <<MultInputs, r0, r1, position>>

\* crypto_ec_scalar_multiply_ct
RefuseScalar ==
  /\ multPc = "start" /\ multOp = "ladder" /\ ~MultValidScalar(multScalar)
  /\ multPc' = "done"
  /\ UNCHANGED <<MultInputs, r0, r1, position, multOut>>
StartLadder ==
  /\ multPc = "start" /\ multOp = "ladder" /\ MultValidScalar(multScalar)
  /\ r0' = JInfinity /\ r1' = ToJacobian(multPoint)
  /\ position' = MultScalarBits /\ multPc' = "loop"
  /\ UNCHANGED <<MultInputs, multOut>>
MultScalarBit == (multScalar \div 2^(position - 1)) % 2
Exchanged(p, bit) == IF bit = 1 THEN <<p[2], p[1]>> ELSE p
Restored(p, bit) == Exchanged(p, bit)
LadderBit ==
  /\ multPc = "loop" /\ multOp = "ladder" /\ position > 0
  /\ LET s == Exchanged(<<r0, r1>>, MultScalarBit)
         t == Restored(<<Double(s[1]), AddComplete(s[1], s[2])>>, MultScalarBit)
     IN  r0' = t[1] /\ r1' = t[2]
  /\ position' = position - 1
  /\ UNCHANGED <<MultInputs, multOut, multPc>>

\* crypto_ec_scalar_multiply_vartime
MultStartWindows ==
  /\ multPc = "start" /\ multOp = "window"
  /\ r0' = JInfinity /\ r1' = ToJacobian(multPoint)
  /\ position' = IF multPoint.infinity THEN 0 ELSE Windows(multScalar)
  /\ multPc' = "loop"
  /\ UNCHANGED <<MultInputs, multOut>>
\* table[value]: each entry is the one before plus the point.
MultTable(value) ==
  LET entry[i \in 0 .. 2^MultWindowBits - 1] ==
        IF i = 0 THEN JInfinity ELSE IF i = 1 THEN r1 ELSE AddComplete(entry[i - 1], r1)
  IN  entry[value]
WindowValue == (multScalar \div 2^(MultWindowBits * (position - 1))) % 2^MultWindowBits
Doubled(j) == LET d[i \in 0 .. MultWindowBits] == IF i = 0 THEN j ELSE Double(d[i - 1]) IN d[MultWindowBits]
WindowStep ==
  /\ multPc = "loop" /\ multOp = "window" /\ position > 0
  /\ r0' = IF WindowValue = 0 THEN Doubled(r0) ELSE AddComplete(Doubled(r0), MultTable(WindowValue))
  /\ position' = position - 1
  /\ UNCHANGED <<MultInputs, r1, multOut, multPc>>

LoopDone ==
  /\ multPc = "loop" /\ position = 0
  /\ multOut' = <<ToAffine(r0)>> /\ multPc' = "done"
  /\ UNCHANGED <<MultInputs, r0, r1, position>>

MultFinished == multPc = "done" /\ UNCHANGED multVars
MultNext == \/ MultAddPoints \/ MultDecodePoint \/ RefuseScalar \/ StartLadder \/ LadderBit
            \/ MultStartWindows \/ WindowStep \/ LoopDone \/ MultFinished
MultSpec == MultInit /\ [][MultNext]_multVars

(* ------------------------------- properties ----------------------------- *)

(* The addition is the group law for every pair of points in every scaling: equal *)
(* points, opposite points and infinity on either side included.                  *)
AdditionIsComplete ==
  multOp = "add" /\ multPc = "done" => multOut[1] = Sum(ToAffine(r0), ToAffine(r1))

(* The bits or windows behind are the multiple in the accumulator, and the ladder's *)
(* two points stay one point apart.                                                 *)
LoopKeepsMultiple ==
  multPc = "loop" =>
    LET w == IF multOp = "ladder" THEN 1 ELSE MultWindowBits
        behind == Multiple(multScalar \div 2^(w * position), multPoint)
    IN  /\ ToAffine(r0) = (IF multOp = "ladder" \/ ~multPoint.infinity THEN behind ELSE Infinity)
        /\ multOp = "ladder" => ToAffine(r1) = Sum(behind, multPoint)

(* Both multiplications agree with repeated addition; the secret one refuses just *)
(* zero and what is not below the order.                                          *)
MultipleIsExact ==
  multPc = "done" /\ multOp \in {"ladder", "window"} =>
    IF multOp = "ladder" /\ multScalar \notin 1 .. N - 1
    THEN multOut = <<>>
    ELSE multOut = <<Multiple(multScalar, multPoint)>>

(* A byte string is accepted exactly when it encodes a point, no two strings of a *)
(* kind give the same one, and the point encodes back to the string.              *)
DecodingIsCanonical ==
  multOp = "decode" /\ multPc = "done" =>
    /\ multOut # <<>> => IsOnCurve(multOut[1]) /\ Encode(multOut[1], encoding[1] # 4) = encoding
    /\ \A p \in EcCurvePoints \ {Infinity} :
         encoding \in {Encode(p, TRUE), Encode(p, FALSE)} => multOut = <<p>>

=============================================================================
