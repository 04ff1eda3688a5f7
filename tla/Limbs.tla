------------------------------- MODULE Limbs --------------------------------
(****************************************************************************)
(* Little-endian arrays of limbs, as src/src/Util/Bignum keeps them: word 0 *)
(* is the least significant and sits at position 1 of the sequence.  A limb *)
(* has LimbBits bits (32 in the code) and holds BytesPerLimb bytes (4).     *)
(* The arithmetic below is the code's, limb by limb with explicit carries;  *)
(* WordsValue is the integer an array stands for.                           *)
(****************************************************************************)
EXTENDS Integers, Sequences, FiniteSetsExt, SequencesExt

CONSTANTS LimbBits, BytesPerLimb

ASSUME LimbBitsAssumption ==
  /\ LimbBits \in Nat \ {0}
  /\ BytesPerLimb \in Nat \ {0}
  /\ LimbBits % BytesPerLimb = 0

PowerOf(radix, k) ==
  LET power[i \in Nat] == IF i = 0 THEN 1 ELSE radix * power[i - 1] IN power[k]

Base == PowerOf(2, LimbBits)
Limb == 0 .. Base - 1
ByteBits == LimbBits \div BytesPerLimb
ByteRadix == PowerOf(2, ByteBits)
Byte == 0 .. ByteRadix - 1

Low(x) == x % Base
High(x) == x \div Base

\* The limb at 0-based place i, zero from the end of the array on.
At(w, i) == IF i < Len(w) THEN w[i + 1] ELSE 0
Places(w) == [i \in Nat |-> At(w, i)]

\* What the first n places of p stand for.
PlacesValue(p, n, radix) ==
  LET sum[k \in Nat] == IF k = 0 THEN 0 ELSE sum[k - 1] + p[k - 1] * PowerOf(radix, k - 1)
  IN sum[n]
Positional(w, radix) == PlacesValue(Places(w), Len(w), radix)
WordsValue(w) == Positional(w, Base)

\* The n low limbs of an integer.
WordsOf(v, n) == [i \in 1 .. n |-> Low(v \div PowerOf(Base, i - 1))]

\* How many limbs are left without the zero limbs at the top.
Significant(w) == Max({0} \cup {i \in DOMAIN w : w[i] # 0})

\* How many bits the integer v has.
BitsOf(v) == CHOOSE k \in 0 .. v : PowerOf(2, k) > v /\ (k = 0 \/ PowerOf(2, k - 1) <= v)

\* Bit k of the integer v.
BitOf(v, k) == (v \div PowerOf(2, k)) % 2

\* f(s, i) applied for i = from, ..., to in this order.
Loop(f(_, _), s, from, to) ==
  FoldLeft(f, s, [k \in 1 .. Max({0, to - from + 1}) |-> from + k - 1])

\* (An explicit sequence: TLC's SubSeq loses updates of one given by a rule.)
Zeros(n) == <<>> \o [i \in 1 .. n |-> 0]

\* Place by place, the low limb of p stays and the rest is carried to the next
\* place: [w |-> n limbs, carry |-> the carry out of the top].
Ripple(p, n) ==
  LET carry[i \in Nat] == IF i = 0 THEN 0 ELSE High(p[i - 1] + carry[i - 1])
  IN [w |-> [i \in 1 .. n |-> Low(p[i - 1] + carry[i - 1])], carry |-> carry[n]]

\* a + b in n limbs.
AddWords(a, b, n) == Ripple([i \in Nat |-> At(a, i) + At(b, i)], n)

\* a - b in n limbs: [w |-> limbs, borrow |-> the borrow out of the top].
SubWords(a, b, n) ==
  LET s == Ripple([i \in Nat |-> At(a, i) - At(b, i)], n)
  IN [w |-> s.w, borrow |-> - s.carry]

\* s over the limbs of w from place i up, and c in the one above them.
Placed(w, i, s, c) ==
  [k \in DOMAIN w |-> CASE k <= i \/ k > i + Len(s) + 1 -> w[k]
                          [] k = i + Len(s) + 1 -> c
                          [] OTHER -> s[k - i]]

\* One row of a product: w + x * a at place i, the last carry stored above it.
ProductRow(w, a, x, i) ==
  LET row == Ripple([j \in Nat |-> At(a, j) * x + At(w, i + j)], Len(a))
  IN Placed(w, i, row.w, row.carry)

MulWords(a, b) ==
  LET rows[i \in Nat] == IF i = 0 THEN Zeros(Len(a) + Len(b))
                         ELSE ProductRow(rows[i - 1], b, At(a, i - 1), i - 1)
  IN rows[Len(a)]

\* value added to w from place offset up, the carry rippling to the top.
AddShifted(w, value, offset) == AddWords(w, Zeros(offset) \o value, Len(w)).w

\* One split of equally long arrays, the middle product from the half sums.
KaratsubaWords(a, b) ==
  LET n    == Len(a)
      low  == n \div 2
      high == n - low
      lo(x) == SubSeq(x, 1, low)
      hi(x) == SubSeq(x, low + 1, n)
      half(x) == LET s == AddWords(lo(x), hi(x), high) IN Append(s.w, s.carry)
      z0 == MulWords(lo(a), lo(b))
      z2 == MulWords(hi(a), hi(b))
      whole == MulWords(half(a), half(b))
      less0 == SubWords(whole, z0, Len(whole)).w
      z1 == SubWords(less0, z2, Len(whole)).w
      trimmed(x) == SubSeq(x, 1, Significant(x))
  IN AddShifted(AddShifted(AddShifted(Zeros(2 * n), trimmed(z0), 0),
                           trimmed(z1), low),
                trimmed(z2), 2 * low)

\* A square: each cross product once, doubled as a value of 2 LimbBits + 1 bits,
\* and every product's high part and carries rippling up.
SquareRow(w, a, i) ==
  LET put(v, j, product) == AddShifted(v, WordsOf(product, 3), i + j)
      x == At(a, i)
      crossed[k \in Nat] ==
        IF k = 0 THEN put(w, i, x * x)
        ELSE put(crossed[k - 1], i + k, 2 * x * At(a, i + k))
  IN crossed[Len(a) - 1 - i]

SquareWords(a) ==
  LET rows[i \in 0 .. Len(a)] ==
        IF i = 0 THEN Zeros(2 * Len(a)) ELSE SquareRow(rows[i - 1], a, i - 1)
  IN rows[Len(a)]

ByteAt(w, i) ==
  (At(w, i \div BytesPerLimb) \div PowerOf(ByteRadix, i % BytesPerLimb)) % ByteRadix

\* Limbs filled from bytes, the least significant byte first.
WordsOfBytes(bytes, n) ==
  [i \in 1 .. n |->
     PlacesValue([j \in Nat |-> At(bytes, (i - 1) * BytesPerLimb + j)], BytesPerLimb, ByteRadix)]

LimbsFor(bytes) == (bytes + BytesPerLimb - 1) \div BytesPerLimb

=============================================================================
