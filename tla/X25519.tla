------------------------------- MODULE X25519 -------------------------------
(**********************************************************************)
(* X25519: the field modulo 2^255 - 19 in limbs of 25.5 bits, and the *)
(* Montgomery ladder with the key agreement built on it.              *)
(**********************************************************************)
EXTENDS Integers, Sequences, SequencesExt, FiniteSetsExt
LOCAL INSTANCE Modular

-----------------------------------------------------------------------------
(*******************************************************************************)
(* The field under X25519 and Ed25519 (x25519_fe_..., ed25519_fe_...): numbers *)
(* modulo 2^n - Fold in limbs of which the top one is a bit shorter, products  *)
(* folded by 2^n = Fold, and four passes of carries before one subtraction.    *)
(*******************************************************************************)
CONSTANTS FoldLimbBits, FoldBytesPerLimb   \* of its limbs
LOCAL INSTANCE Limbs WITH LimbBits <- FoldLimbBits, BytesPerLimb <- FoldBytesPerLimb

CONSTANTS
  Count,          \* limbs: 16 in the code
  Fold,           \* 19
  Passes,         \* 4
  Rights          \* second operands tried

VARIABLES foldOp, foldA, foldB, foldValue, pass, foldOut, foldPc
foldVars == <<foldOp, foldA, foldB, foldValue, pass, foldOut, foldPc>>

TopBits == FoldLimbBits - 1
Prime == 2^(FoldLimbBits * Count - 1) - Fold
ModulusLimbs == WordsOf(Prime, Count)
Whole == 2^(FoldLimbBits * Count)

\* ..._conditional_subtract_p
Subtracted(w) == LET d == SubWords(w, ModulusLimbs, Count) IN IF d.borrow = 0 THEN d.w ELSE w

\* One pass: each limb hands its carry on, the top one folds it to the bottom.
Carried(w) ==
  LET step(s, i) == [s EXCEPT ![i + 1] = Low(@), ![i + 2] = @ + High(s[i + 1])]
  IN  Loop(step, w, 0, Count - 2)
OnePass(w) ==
  LET c == Carried(w)
  IN  [c EXCEPT ![Count] = @ % 2^TopBits, ![1] = @ + (c[Count] \div 2^TopBits) * Fold]

\* The columns of a product, and those above the top folded from above.
Columns(x, y) ==
  LET row(w, i) == LET column(v, j) == [v EXCEPT ![i + j + 1] = @ + At(x, i) * At(y, j)]
                   IN  Loop(column, w, 0, Count - 1)
  IN  Loop(row, Zeros(2 * Count - 1), 0, Count - 1)
Folded(w) ==
  LET step(v, n) == LET i == 2 * Count - 1 - n IN [v EXCEPT ![i - Count + 1] = @ + v[i + 1] * 2 * Fold]
  IN  SubSeq(Loop(step, w, 1, Count - 1), 1, Count)

\* a - b modulo Base^Count; the modulus is added when that borrowed.
Difference(x, y) ==
  LET d == SubWords(x, y, Count)
  IN  AddWords(d.w, IF d.borrow = 1 THEN ModulusLimbs ELSE Zeros(Count), Count).w

\* Bytes: the top bit is dropped; X25519 reduces, Ed25519 insists on the canonical ones.
FoldMasked(raw) == [raw EXCEPT ![Count] = @ % 2^TopBits]
FromBytes(raw) == Subtracted(FoldMasked(raw))
FoldIsCanonical(raw) == Subtracted(FromBytes(raw)) = FoldMasked(raw)

Ops == {"mul", "add", "sub", "small", "bytes"}
FoldInit ==
  /\ foldOp \in Ops
  /\ \E x \in 0 .. (IF foldOp = "bytes" THEN Whole ELSE Prime) - 1 : foldA = WordsOf(x, Count)
  /\ \E y \in IF foldOp = "bytes" THEN {0} ELSE Rights : foldB = WordsOf(y, Count)
  /\ foldValue = Zeros(Count) /\ pass = 0 /\ foldOut = <<>> /\ foldPc = "load"
FoldCall == <<foldOp, foldA, foldB>>

\* "small": a factor that fits into a limb or a little more.
Multiplier == foldB[1] + (Base * foldB[2])
Load ==
  /\ foldPc = "load" /\ foldOp \in {"mul", "add", "small"}
  /\ foldValue' = (CASE foldOp = "mul" -> Folded(Columns(foldA, foldB))
                     [] foldOp = "add" -> [i \in 1 .. Count |-> foldA[i] + foldB[i]]
                     [] OTHER      -> [i \in 1 .. Count |-> foldA[i] * Multiplier])
  /\ foldPc' = "carry" /\ UNCHANGED <<FoldCall, pass, foldOut>>
CarryPass ==
  /\ foldPc = "carry" /\ pass < Passes
  /\ foldValue' = OnePass(foldValue) /\ pass' = pass + 1
  /\ UNCHANGED <<FoldCall, foldOut, foldPc>>
SubtractModulus ==
  /\ foldPc = "carry" /\ pass = Passes
  /\ foldOut' = Subtracted(foldValue) /\ foldPc' = "done"
  /\ UNCHANGED <<FoldCall, foldValue, pass>>
SubtractElement ==
  /\ foldPc = "load" /\ foldOp = "sub"
  /\ foldOut' = Difference(foldA, foldB) /\ foldPc' = "done"
  /\ UNCHANGED <<FoldCall, foldValue, pass>>
ReadBytes ==
  /\ foldPc = "load" /\ foldOp = "bytes"
  /\ foldOut' = FromBytes(foldA) /\ foldPc' = "done"
  /\ UNCHANGED <<FoldCall, foldValue, pass>>

FoldFinished == foldPc = "done" /\ UNCHANGED foldVars
FoldNext == Load \/ CarryPass \/ SubtractModulus \/ SubtractElement \/ ReadBytes \/ FoldFinished
FoldSpec == FoldInit /\ [][FoldNext]_foldVars

(* ------------------------------- properties ----------------------------- *)
FoldA == WordsValue(foldA)
FoldB == WordsValue(foldB)
Exact == CASE foldOp = "mul" -> FoldA * FoldB [] foldOp = "add" -> FoldA + FoldB [] foldOp = "small" -> FoldA * Multiplier [] OTHER -> FoldA - FoldB

(* No pass changes the residue, and after the last one every limb is within its *)
(* width: four are enough for what the operations produce.                      *)
PassesSuffice ==
  foldPc = "carry" =>
    /\ (WordsValue(foldValue) - Exact) % Prime = 0
    /\ pass = Passes => /\ \A i \in 1 .. Count - 1 : foldValue[i] < Base
                        /\ foldValue[Count] < 2^TopBits

(* Every result is the least residue: the next operation relies on it.                *)
ResultIsReduced ==
  foldPc = "done" /\ foldOp # "bytes" => WordsValue(foldOut) = Exact % Prime

(* The two ways of reading bytes: every string is some residue, with the top bit     *)
(* without a meaning, and exactly one string without that bit is canonical for each. *)
BytesAreResidues ==
  foldPc = "done" /\ foldOp = "bytes" =>
    LET low == FoldA % (Whole \div 2)
    IN  WordsValue(foldOut) = low % Prime /\ FoldIsCanonical(foldA) = (low < Prime)


-----------------------------------------------------------------------------
(***************************************************************************)
(* X25519 key agreement (KeyAgreement/x25519.c) on a Montgomery curve      *)
(* v^2 = u^3 + A u^2 + u over a small field: scalars are clamped, u is any *)
(* string, and the ladder exchanges its points only when the bit changes.  *)
(***************************************************************************)
CONSTANTS
  XP, XA,              \* the field and the curve
  XBasePoint,         \* 9 in the code
  XFieldBits,         \* 255: u is read modulo 2^XFieldBits
  XScalarBits,        \* 255
  ScalarTries        \* private keys tried, as numbers of XScalarBits + 1 bits

VARIABLES
  xOp, xRequest,       \* which checks of the call pass
  xPrivate, xPeer,     \* the inputs
  x2, z2, x3, z3, swap, bit,
  xSecret, xPublic, private0,   \* the outputs; private0 that of "keygen"
  xError, xPc
xVars == <<xOp, xRequest, xPrivate, xPeer, x2, z2, x3, z3, swap, bit, xSecret, xPublic,
           private0, xError, xPc>>

XOld == -1
A24 == (XA - 2) \div 4
XRequests == [present : BOOLEAN, length : BOOLEAN, room : BOOLEAN, apart : BOOLEAN]
XVerdict(q) ==
  IF ~q.present \/ (xOp # "keygen" /\ ~q.length) THEN "ARGUMENT"
  ELSE IF ~q.room THEN "SMALL" ELSE IF ~q.apart THEN "ARGUMENT" ELSE "OK"

\* scalar[0] &= 248; scalar[31] &= 127; scalar[31] |= 64.
XClamped(s) == LET low == s % 2^(XScalarBits - 1) IN (low - (low % 8)) + 2^(XScalarBits - 1)
Decoded(u) == (u % 2^XFieldBits) % XP
U == Decoded(IF xOp = "shared" THEN xPeer ELSE XBasePoint)
XScalar == XClamped(xPrivate)

XInit ==
  /\ xOp \in {"keygen", "public", "shared"}
  /\ xRequest \in XRequests
  /\ xPrivate \in ScalarTries
  /\ xPeer \in IF xOp = "shared" THEN 0 .. 2^(XFieldBits + 1) - 1 ELSE {XBasePoint}
  /\ xOp = "shared" /\ xPeer >= 4 => \A f \in DOMAIN xRequest : xRequest[f]
  /\ x2 = 1 /\ z2 = 0 /\ x3 = 0 /\ z3 = 1 /\ swap = 0 /\ bit = XScalarBits
  /\ xSecret = XOld /\ xPublic = XOld /\ private0 = XOld /\ xError = "OK" /\ xPc = "check"
XCall == <<xOp, xRequest, xPrivate, xPeer>>
Registers == <<x2, z2, x3, z3, swap, bit>>
Outputs == <<xSecret, xPublic, private0>>

XCheck ==
  /\ xPc = "check"
  /\ xError' = XVerdict(xRequest)
  /\ x3' = U
  /\ xPc' = IF xError' # "OK" THEN "done" ELSE IF xOp = "keygen" THEN "draw" ELSE "ladder"
  /\ UNCHANGED <<XCall, x2, z2, z3, swap, bit, Outputs>>
\* The key is drawn (private holds it), or the random source fails and both outputs are zeroed.
Draw ==
  /\ xPc = "draw" /\ xPc' = "ladder"
  /\ UNCHANGED <<XCall, Registers, Outputs, xError>>
DrawFails ==
  /\ xPc = "draw"
  /\ xPublic' = 0 /\ private0' = 0 /\ xError' = "RANDOM" /\ xPc' = "done"
  /\ UNCHANGED <<XCall, Registers, xSecret>>

XScalarBit == (XScalar \div 2^(bit - 1)) % 2
FaultySwaps == XScalarBit
Swaps == (swap + XScalarBit) % 2
LadderStep ==
  /\ xPc = "ladder" /\ bit > 0
  /\ LET s == Swaps
         xa == IF s = 1 THEN x3 ELSE x2   za == IF s = 1 THEN z3 ELSE z2
         xb == IF s = 1 THEN x2 ELSE x3   zb == IF s = 1 THEN z2 ELSE z3
         a == (xa + za) % XP   aa == (a * a) % XP
         b == (xa - za) % XP   bb == (b * b) % XP
         e == (aa - bb) % XP
         da == ((xb - zb) * a) % XP
         cb == ((xb + zb) * b) % XP
     IN  /\ x3' = ((da + cb) * (da + cb)) % XP
         /\ z3' = (U * (((da - cb) * (da - cb)) % XP)) % XP
         /\ x2' = (aa * bb) % XP
         /\ z2' = (e * ((aa + A24 * e) % XP)) % XP
  /\ swap' = XScalarBit /\ bit' = bit - 1
  /\ UNCHANGED <<XCall, Outputs, xError, xPc>>
\* The pending exchange, the inverse (of zero: zero) and the bytes.
Result ==
  LET x == IF swap = 1 THEN x3 ELSE x2   z == IF swap = 1 THEN z3 ELSE z2
  IN  (x * PowMod(z, XP - 2, XP)) % XP
HandOut ==
  /\ xPc = "ladder" /\ bit = 0 /\ xOp # "shared"
  /\ xPublic' = Result
  /\ private0' = (IF xOp = "keygen" THEN xPrivate ELSE private0)
  /\ xPc' = "done" /\ UNCHANGED <<XCall, Registers, xSecret, xError>>
Refuses(r) == r = 0
ShareSecret ==
  /\ xPc = "ladder" /\ bit = 0 /\ xOp = "shared"
  /\ xSecret' = Result
  /\ xError' = IF Refuses(Result) THEN "KEY" ELSE "OK"
  /\ xPc' = "done" /\ UNCHANGED <<XCall, Registers, xPublic, private0>>

XFinished == xPc = "done" /\ UNCHANGED xVars
XNext == XCheck \/ Draw \/ DrawFails \/ LadderStep \/ HandOut \/ ShareSecret \/ XFinished
XSpec == XInit /\ [][XNext]_xVars

(* ------------------------------- the reference --------------------------- *)
\* Chords and tangents on the curve b v^2 = u^3 + A u^2 + u, where b = 1 or, for
\* a u on the twist, a nonresidue.  Infinity is <<>>.
NonResidue == CHOOSE b \in 2 .. XP - 1 : PowMod(b, (XP - 1) \div 2, XP) = XP - 1
Cubic(u) == (u * ((u * u + XA * u + 1) % XP)) % XP
Lift(u) == LET side == IF \E v \in 0 .. XP - 1 : (v * v) % XP = Cubic(u) THEN 1 ELSE NonResidue
           IN  [b |-> side, v |-> CHOOSE v \in 0 .. XP - 1 : (side * v * v) % XP = Cubic(u)]
Plus(p, q, b) ==
  IF p = <<>> THEN q
  ELSE IF q = <<>> THEN p
  ELSE IF p[1] = q[1] /\ (p[2] + q[2]) % XP = 0 THEN <<>>
  ELSE LET slope == IF p = q
                    THEN ((3 * p[1] * p[1] + 2 * XA * p[1] + 1) * PowMod(2 * b * p[2], XP - 2, XP)) % XP
                    ELSE ((q[2] - p[2]) * PowMod((q[1] - p[1]) % XP, XP - 2, XP)) % XP
           u == (b * ((slope * slope) % XP) - XA - p[1] - q[1]) % XP
       IN  <<u, (slope * (p[1] - u) - p[2]) % XP>>
XTimesPoint(n, u) ==
  LET l == Lift(u)
      times[i \in 0 .. n] == IF i = 0 THEN <<>> ELSE Plus(times[i - 1], <<u, l.v>>, l.b)
  IN  times[n]
UCoordinate(p) == IF p = <<>> THEN 0 ELSE p[1]

(* ------------------------------- properties ----------------------------- *)
Is(x, z, p) == IF p = <<>> THEN z = 0 /\ x # 0 ELSE z # 0 /\ x = (p[1] * z) % XP

(* Between two steps the registers hold, in the order the last bit left them, the *)
(* multiples by the bits read so far and by one more.                             *)
LadderKeepsMultiples ==
  xPc = "ladder" /\ U # 0 =>
    LET n == XScalar \div 2^bit
        low == XTimesPoint(n, U)  high == XTimesPoint(n + 1, U)
    IN  IF swap = 0 THEN Is(x2, z2, low) /\ Is(x3, z3, high)
        ELSE Is(x3, z3, low) /\ Is(x2, z2, high)

(* Any string is a point of the curve or of its twist, and what is handed out is the *)
(* clamped multiple of it, the same for both sides of the agreement.                 *)
SharedIsAgreed ==
  xPc = "done" /\ xOp = "shared" /\ xError = "OK" =>
    /\ xSecret = UCoordinate(XTimesPoint(XScalar, U))
    /\ \A other \in ScalarTries :
         U = UCoordinate(XTimesPoint(XClamped(other), XBasePoint)) =>
           xSecret = UCoordinate(XTimesPoint(XClamped(other), UCoordinate(XTimesPoint(XScalar, XBasePoint))))

(* A secret that a point of small order would force is never handed out: exactly the *)
(* points killed by the cofactor are refused.                                        *)
SmallOrderRefused ==
  xPc = "done" /\ xOp = "shared" /\ XVerdict(xRequest) = "OK" =>
    /\ (xError = "KEY") = (U = 0 \/ XTimesPoint(8, U) = <<>>)
    /\ xError = "KEY" => xSecret = 0

(* Failing generation leaves neither key, a refused peer no secret, and a call that is  *)
(* refused for its arguments touches nothing, the agreement's buffer included.          *)
XFailureLeavesNothing ==
  xPc = "done" /\ xError # "OK" =>
    Outputs = CASE xError = "RANDOM" -> <<XOld, 0, 0>>
                [] xError = "KEY" -> <<0, XOld, XOld>>
                [] xError \notin {"RANDOM", "KEY"} -> <<XOld, XOld, XOld>>

=============================================================================
