------------------------------- MODULE Bignum -------------------------------
(****************************************************************************)
(* Numbers of src/src/Util/Bignum as their callers use them, and two of its *)
(* algorithms step by step: the entry point that picks a product, and the   *)
(* long division of Knuth's algorithm D.                                    *)
(****************************************************************************)
EXTENDS Limbs

-----------------------------------------------------------------------------
(****************************************************************************)
(* The variable-length integers of src/src/Util/Bignum: registers with a    *)
(* heap array of limbs, a capacity and a length, and the calls that compute *)
(* on them in place.  Callers may name the same register for the result and *)
(* an operand, every growth of an array may fail, and a result may be       *)
(* shorter than what the array held before.                                 *)
(*                                                                          *)
(* The readers that work in a fixed number of limbs (export, fixed copy,    *)
(* fixed subtraction) read limbs above the length, so that every other call *)
(* has to leave zeros there.  Null pointers and lengths near SIZE_MAX are   *)
(* left out.  Reduction stands for what LongDivision shows of its digits.   *)
(****************************************************************************)
CONSTANTS
  Registers,
  BignumMaxLimbs,        \* bound: no array is grown beyond
  KaratsubaLimbs,  \* BIGNUM_KARATSUBA_THRESHOLD_LIMBS, 96 in the code
  Words32          \* the uint32_t and uint64_t operands that callers pass

ASSUME BignumAssumption ==
  /\ BignumMaxLimbs \in Nat /\ BignumMaxLimbs >= 2
  /\ Words32 \subseteq 0 .. Base * Base - 1

VARIABLES
  num,      \* for each register [limbs |-> its array, length |-> LENGTH]
  spoiled,  \* registers a failed bignum_add_u32 left half done: their owners
            \* free them and do nothing else with them
  call      \* the last call and its outcome

bignumVars == <<num, spoiled, call>>

Empty == [limbs |-> <<>>, length |-> 0]
Capacity(r) == Len(num[r].limbs)
LengthOf(r) == num[r].length
ValueOf(x) == WordsValue(SubSeq(x.limbs, 1, x.length))
value == [r \in Registers |-> ValueOf(num[r])]

BignumInit ==
  /\ num = [r \in Registers |-> Empty] /\ spoiled = {}
  /\ call = [made |-> [op |-> "none"], ok |-> FALSE]

(* ------------------------------- helpers -------------------------------- *)

\* bignum_reserve: more limbs, zero and behind those already there.
Reserved(x, n) == [x EXCEPT !.limbs = @ \o Zeros(n - Len(@))]

Normalized(x) == [x EXCEPT !.length = Significant(SubSeq(x.limbs, 1, @))]

\* bignum_clear_stale_tail: the limbs the old value had and the new one has not.
Cleared(x, oldLength) ==
  [x EXCEPT !.limbs = [i \in DOMAIN @ |->
     IF x.length < i /\ i <= oldLength THEN 0 ELSE @[i]]]

\* words written over the front of x's array, which becomes their number.
Stored(x, words) ==
  [limbs |-> words \o SubSeq(x.limbs, Len(words) + 1, Len(x.limbs)),
   length |-> Len(words)]

\* A number in an array of its own, as the calls with a temporary hand over.
Fresh(words) == Normalized([limbs |-> words, length |-> Len(words)])

Compare(x, y) ==
  IF x.length # y.length THEN x.length - y.length
  ELSE LET differ == {i \in 1 .. x.length : x.limbs[i] # y.limbs[i]}
       IN IF differ = {} THEN 0 ELSE x.limbs[Max(differ)] - y.limbs[Max(differ)]

(* A call that succeeds leaves x in its output register.  One that has to *)
(* allocate n limbs, or to grow its output to n limbs, may fail instead.  *)
Ends(c, x, ok, lost) ==
  /\ num' = [num EXCEPT ![c.out] = x]
  /\ spoiled' = (spoiled \ {c.out}) \cup lost
  /\ call' = [made |-> c, ok |-> ok]
Done(c, x) == Ends(c, x, TRUE, {})
Failed(c)  == Ends(c, num[c.out], FALSE, {})
AllocationFails(c, n) == n > 0 /\ Failed(c)
Grows(c, n) == n > Capacity(c.out) /\ Failed(c)
Operands(op, out, a, b, k) == [op |-> op, out |-> out, a |-> a, b |-> b, k |-> k]

(* ------------------------- addition, subtraction ------------------------ *)

\* Both loops overwrite limb i of the result's array after reading limb i of
\* the operands, either of which may be the result itself.  The carry of a
\* difference is the negative of its borrow.
Limbwise(out, array, a, b, n, sign) ==
  LET read(r, w, i) == IF i < LengthOf(r) THEN At(IF r = out THEN w ELSE num[r].limbs, i) ELSE 0
      pass[k \in Nat] ==
        IF k = 0 THEN [w |-> array, carry |-> 0]
        ELSE LET s == pass[k - 1]
                 t == read(a, s.w, k - 1) + sign * read(b, s.w, k - 1) + s.carry
             IN [w |-> [s.w EXCEPT ![k] = Low(t)], carry |-> High(t)]
  IN pass[n]

Add(out, a, b) ==
  LET c == Operands("add", out, a, b, 0)
      n == Max({LengthOf(a), LengthOf(b)})
      s == Limbwise(out, Reserved(num[out], n + 1).limbs, a, b, n, 1)
      sum == [limbs  |-> [s.w EXCEPT ![n + 1] = s.carry],
              length |-> IF s.carry = 0 THEN n ELSE n + 1]
  IN /\ n + 1 <= BignumMaxLimbs
     /\ \/ Done(c, Cleared(sum, LengthOf(out)))
        \/ Grows(c, n + 1)

Sub(out, a, b) ==
  LET c == Operands("sub", out, a, b, 0)
      n == LengthOf(a)
      s == Limbwise(out, Reserved(num[out], n).limbs, a, b, n, -1)
  IN IF Compare(num[a], num[b]) < 0 THEN Failed(c)
     ELSE \/ Done(c, Cleared(Normalized([limbs |-> s.w, length |-> n]), LengthOf(out)))
          \/ Grows(c, n)

(* --------------------------- multiplication ----------------------------- *)

Digits(r) == SubSeq(num[r].limbs, 1, LengthOf(r))

\* words, 0 for an operand without limbs, into a register that is no operand.
ProductInto(x, words) ==
  Cleared(Normalized(Stored(Reserved(x, Len(words)), words)), x.length)

\* In place when the output is no operand, else in a temporary that replaces it.
FaultyProduct(c, words) ==
  \/ Done(c, ProductInto(num[c.out], IF c.out \in {c.a, c.b} THEN Zeros(Len(words)) ELSE words))
  \/ Grows(c, Len(words))
Product(c, words) ==
  IF c.out \in {c.a, c.b}
  THEN Done(c, Fresh(words)) \/ AllocationFails(c, Len(words))
  ELSE Done(c, ProductInto(num[c.out], words)) \/ Grows(c, Len(words))

\* A half-sum Karatsuba product for long operands of equal length; when its
\* workspace cannot be allocated the schoolbook product takes over.
Mul(out, a, b) ==
  LET c == Operands("mul", out, a, b, 0)
  IN /\ LengthOf(a) + LengthOf(b) <= BignumMaxLimbs
     /\ IF LengthOf(a) = 0 \/ LengthOf(b) = 0 THEN Product(c, <<>>)
        ELSE \/ /\ LengthOf(a) = LengthOf(b) /\ LengthOf(a) >= KaratsubaLimbs
                /\ Product(c, KaratsubaWords(Digits(a), Digits(b)))
             \/ Product(c, MulWords(Digits(a), Digits(b)))

Square(out, a) ==
  /\ 2 * LengthOf(a) <= BignumMaxLimbs
  /\ Product(Operands("square", out, a, a, 0), SquareWords(Digits(a)))

(* ------------------------------- reduction ------------------------------ *)

\* crypto_bignum_mod on a number x: a smaller number is copied, one limb is
\* reduced limb by limb, and long division leaves its remainder in a new array.
BignumRemainder(x, m) ==
  LET rest == ValueOf(x) % ValueOf(m) IN
  Fresh(WordsOf(rest, m.length))

Reduce(c, x, m) ==
  \/ m.length = 0 /\ Failed(c)
  \/ /\ m.length > 0 /\ Compare(x, m) < 0
     /\ \/ Done(c, Cleared(Stored(Reserved(num[c.out], x.length),
                                  SubSeq(x.limbs, 1, x.length)), LengthOf(c.out)))
        \/ Grows(c, x.length)
  \/ /\ m.length = 1 /\ Compare(x, m) >= 0
     /\ LET rest == BignumRemainder(x, m) IN
        \/ Done(c, Cleared(Stored(Reserved(num[c.out], rest.length),
                                  SubSeq(rest.limbs, 1, rest.length)), LengthOf(c.out)))
        \/ Grows(c, rest.length)
  \/ /\ m.length > 1 /\ Compare(x, m) >= 0
     /\ Done(c, BignumRemainder(x, m)) \/ AllocationFails(c, m.length)

Mod(out, a, m) == Reduce(Operands("mod", out, a, m, 0), num[a], num[m])

\* crypto_bignum_mod_mul and, for a = b, crypto_bignum_mod_square.
ModMul(out, a, b, m) ==
  LET c == Operands("mulmod", out, a, m, b)
      product == Fresh(IF a = b THEN SquareWords(Digits(a)) ELSE MulWords(Digits(a), Digits(b)))
  IN /\ LengthOf(a) + LengthOf(b) <= BignumMaxLimbs
     /\ \/ Reduce(c, product, num[m])
        \/ AllocationFails(c, LengthOf(a) + LengthOf(b))

(* ------------------------ one-limb and in-place calls ------------------- *)

BignumCopy(out, a) ==
  LET c == Operands("copy", out, a, a, 0) IN
  IF out = a THEN Done(c, num[a])
  ELSE \/ Done(c, Cleared(Stored(Reserved(num[out], LengthOf(a)), Digits(a)), LengthOf(out)))
       \/ Grows(c, LengthOf(a))

SetU64(out, v) ==
  LET c == Operands("set", out, out, out, v)
      n == IF v = 0 THEN 0 ELSE IF v < Base THEN 1 ELSE 2
  IN \/ Done(c, Cleared(Stored(Reserved(num[out], n), WordsOf(v, n)), LengthOf(out)))
     \/ Grows(c, n)

ShiftLeftOne(r) ==
  LET c == Operands("shift", r, r, r, 0)
      n == LengthOf(r)
      twice == AddWords(Digits(r), Digits(r), n)
      words == IF twice.carry = 0 THEN twice.w ELSE Append(twice.w, 1)
  IN /\ n + 1 <= BignumMaxLimbs
     /\ IF n = 0 THEN Done(c, num[r])
        ELSE Done(c, Stored(Reserved(num[r], n + 1), words)) \/ Grows(c, n + 1)

\* v added to x in place: the carry travels as far as it must, and only the
\* last one needs room.  Without it the limbs are already the wrapped sum.
WordSum(x, v) == AddWords(SubSeq(x.limbs, 1, x.length), <<v>>, Max({1, x.length}))
PlusWord(x, v) ==
  LET sum == WordSum(x, v)
      all == IF sum.carry = 0 THEN sum.w ELSE Append(sum.w, sum.carry)
  IN IF v = 0 THEN x ELSE Stored(Reserved(x, Len(all)), all)
AddInto(c, x, v) ==
  LET sum == PlusWord(x, v) IN
  \/ Done(c, sum)
  \/ /\ sum.length > Len(x.limbs)
     /\ IF x.length = 0 THEN Ends(c, x, FALSE, {})
        ELSE Ends(c, Stored(x, WordSum(x, v).w), FALSE, {c.out})

AddU32(r, v) ==
  /\ PlusWord(num[r], v).length <= BignumMaxLimbs
  /\ AddInto(Operands("addu32", r, r, r, v), num[r], v)

\* The copy is made first, and is what is left when the sum finds no room.
AddU32Copy(out, a, v) ==
  LET c == Operands("addu32", out, a, a, v)
      copy == IF out = a THEN num[a]
              ELSE Cleared(Stored(Reserved(num[out], LengthOf(a)), Digits(a)), LengthOf(out))
  IN /\ PlusWord(copy, v).length <= BignumMaxLimbs
     /\ \/ AddInto(c, copy, v)
        \/ out # a /\ Grows(c, LengthOf(a))

SubU32(out, a, v) ==
  LET c == Operands("subu32", out, a, a, v)
      w == SubWords(Digits(a), WordsOf(v, 1), LengthOf(a)).w
  IN IF value[a] < v THEN Failed(c)
     ELSE \/ Done(c, Cleared(Normalized(Stored(Reserved(num[out], LengthOf(a)), w)), LengthOf(out)))
          \/ Grows(c, LengthOf(a))
          \/ AllocationFails(c, 1)

\* Results of the next two are built in a new array that replaces the output's.
MulU32(out, a, v) ==
  LET c == Operands("mulu32", out, a, a, v)
      w == ProductRow(Zeros(LengthOf(a) + 1), Digits(a), v, 0)
  IN /\ LengthOf(a) + 1 <= BignumMaxLimbs
     /\ IF v = 0 \/ LengthOf(a) = 0 THEN Done(c, Empty)
        ELSE Done(c, Fresh(w)) \/ AllocationFails(c, Len(w))

\* From the top limb down, with the remainder carried into the next limb.
DivU32(out, a, v) ==
  LET c == Operands("divu32", out, a, a, v)
      n == LengthOf(a)
      rest[k \in Nat] ==
        IF k = 0 THEN 0 ELSE (rest[k - 1] * Base + At(Reverse(Digits(a)), k - 1)) % v
      w == [i \in 1 .. n |-> (rest[n - i] * Base + Digits(a)[i]) \div v]
  IN IF v = 0 THEN Failed(c)
     ELSE Done(c, Fresh(w)) \/ AllocationFails(c, n)

BignumFree(r) == Done(Operands("free", r, r, r, 0), Empty)

(* ------------------------------- conversion ----------------------------- *)

\* Bytes least significant first; the big-endian call reads them from the end.
Ordered(bytes, bigEndian) == IF bigEndian THEN Reverse(bytes) ELSE bytes

FromBytes(out, bytes, bigEndian) ==
  LET n == LimbsFor(Len(bytes))
      little == Ordered(bytes, bigEndian)
      c == Operands("set", out, out, out, Positional(little, ByteRadix))
      room == Max({n, Capacity(out)})
  IN \/ Done(c, Normalized([limbs |-> WordsOfBytes(little, room), length |-> n]))
     \/ Grows(c, n)

Exported(a, bytes, bigEndian, ok) ==
  [made |-> [op |-> "export", out |-> a, a |-> a,
             exported |-> Positional(Ordered(bytes, bigEndian), ByteRadix)],
   ok |-> ok]

\* Too small a buffer is refused; a larger one is padded with zero bytes.
ToBytes(a, n, bigEndian) ==
  LET need == (BitsOf(value[a]) + ByteBits - 1) \div ByteBits
      little == [i \in 1 .. n |-> IF i <= need THEN ByteAt(num[a].limbs, i - 1) ELSE 0]
  IN /\ UNCHANGED <<num, spoiled>>
     /\ call' = Exported(a, Ordered(little, bigEndian), bigEndian, n >= need)

(* --------------------------- fixed-width calls -------------------------- *)

\* bignum_secret_length_fixed scans every limb and keeps the last nonzero one.
Fixed(w) == [limbs |-> w, length |-> Significant(w)]
Lowest(r, n) == SubSeq(num[r].limbs, 1, n)

\* Promotes a normal number: its own limbs, then zeros.
CopySecretFixed(out, a, n) ==
  LET c == Operands("fixedcopy", out, a, a, PowerOf(Base, n)) IN
  IF LengthOf(a) > n THEN Failed(c)
  ELSE \/ Done(c, [limbs |-> Digits(a) \o Zeros(n - LengthOf(a)), length |-> LengthOf(a)])
       \/ AllocationFails(c, n)

\* The other fixed-width calls read n limbs whatever the length is.
CopySecretFixedCt(out, a, n) ==
  LET c == Operands("fixedcopy", out, a, a, PowerOf(Base, n)) IN
  IF Capacity(a) < n THEN Failed(c)
  ELSE Done(c, Fixed(Lowest(a, n))) \/ AllocationFails(c, n)

SubSecretFixed(out, a, b, n) ==
  LET c == Operands("fixedsub", out, a, b, PowerOf(Base, n))
      s == SubWords(Lowest(a, n), Lowest(b, n), n)
  IN IF Capacity(a) < n \/ Capacity(b) < n \/ s.borrow = 1 THEN Failed(c)
     ELSE Done(c, Fixed(s.w)) \/ AllocationFails(c, n)

FromBytesSecretFixed(out, bytes, bigEndian, n) ==
  LET little == Ordered(bytes, bigEndian)
      c == Operands("set", out, out, out, Positional(little, ByteRadix))
  IN IF Len(bytes) > n * BytesPerLimb THEN Failed(c)
     ELSE Done(c, Fixed(WordsOfBytes(little, n))) \/ AllocationFails(c, n)

\* Reads limbs up to the width of the output; the export is the number when it fits.
ToBytesSecretFixed(a, n, bigEndian) ==
  LET little == [i \in 1 .. n |-> ByteAt(num[a].limbs, i - 1)]
      ok == Capacity(a) >= LimbsFor(n)
  IN /\ value[a] < PowerOf(ByteRadix, n)
     /\ UNCHANGED <<num, spoiled>>
     /\ call' = Exported(a, Ordered(IF ok THEN little ELSE Zeros(n), bigEndian), bigEndian, ok)

(* ------------------------------ random numbers -------------------------- *)

\* Random bytes, most significant first: surplus bits masked off the first
\* byte, and there the top bit set and in the last byte the low bit on request.
Drawn(bytes, bits, top, odd) ==
  LET unused == Len(bytes) * ByteBits - bits
      high   == PowerOf(2, ByteBits - 1 - unused)
      first  == LET low == bytes[1] % PowerOf(2, ByteBits - unused)
                IN IF top /\ low < high THEN low + high ELSE low
      masked == [bytes EXCEPT ![1] = first]
  IN IF odd THEN [masked EXCEPT ![Len(bytes)] = @ - (@ % 2) + 1] ELSE masked

RandomBits(out, bits, top, odd) ==
  LET n == (bits + ByteBits - 1) \div ByteBits
      c == [op |-> "draw", out |-> out, a |-> out, k |-> PowerOf(2, bits), top |-> top, odd |-> odd]
  IN /\ bits > 0
     /\ \/ \E bytes \in [1 .. n -> Byte] :
             LET little == Reverse(Drawn(bytes, bits, top, odd))
                 room   == Max({LimbsFor(n), Capacity(out)})
             IN Done(c, Normalized([limbs |-> WordsOfBytes(little, room),
                                    length |-> LimbsFor(n)]))
        \/ Failed(c)

\* Draws as many bits as the bound has until one is below it, 128 times at most;
\* each draw is made in an array of its own, so that any smaller number may come.
RandomRange(out, a) ==
  LET c == [op |-> "range", out |-> out, a |-> a]
      n == LimbsFor((BitsOf(value[a]) + ByteBits - 1) \div ByteBits)
  IN \/ LengthOf(a) > 0 /\ \E v \in 0 .. value[a] - 1 : Done(c, Fresh(WordsOf(v, n)))
     \/ Failed(c)

(* --------------------------------- calls -------------------------------- *)

ByteStrings == UNION {[1 .. n -> Byte] : n \in 0 .. 2 * BytesPerLimb - 1}

BignumNext ==
  \E out \in Registers : BignumFree(out) \/ \E a, b \in Registers \ spoiled :
    /\ out \notin spoiled
    /\ \/ Add(out, a, b) \/ Sub(out, a, b) \/ Mul(out, a, b) \/ Mod(out, a, b)
       \/ \E m \in Registers \ spoiled : ModMul(out, a, b, m)
       \/ /\ b = a
          /\ \/ Square(out, a) \/ BignumCopy(out, a) \/ RandomRange(out, a)
             \/ \E v \in Words32 \cap Limb :
                  \/ AddU32Copy(out, a, v) \/ SubU32(out, a, v)
                  \/ MulU32(out, a, v) \/ DivU32(out, a, v)
             \/ \E n \in 1 .. BignumMaxLimbs :
                  CopySecretFixed(out, a, n) \/ CopySecretFixedCt(out, a, n)
       \/ \E n \in 1 .. BignumMaxLimbs : SubSecretFixed(out, a, b, n)
       \/ /\ a = out /\ b = out
          /\ \/ ShiftLeftOne(out)
             \/ \E v \in Words32 : SetU64(out, v) \/ (v \in Limb /\ AddU32(out, v))
             \/ \E bytes \in ByteStrings, big \in BOOLEAN :
                  \/ FromBytes(out, bytes, big)
                  \/ \E n \in 1 .. 2 : FromBytesSecretFixed(out, bytes, big, n)
             \/ \E n \in 0 .. 2 * BytesPerLimb, big \in BOOLEAN :
                  ToBytes(out, n, big) \/ ToBytesSecretFixed(out, n, big)
             \/ \E bits \in 1 .. LimbBits, top, odd \in BOOLEAN : RandomBits(out, bits, top, odd)

BignumSpecification == BignumInit /\ [][BignumNext]_bignumVars

(* ------------------------------- properties ----------------------------- *)

BignumTypeOK ==
  \A r \in Registers :
    /\ num[r].limbs \in Seq(Limb) /\ Len(num[r].limbs) <= BignumMaxLimbs
    /\ num[r].length \in 0 .. Len(num[r].limbs)

(* No call leaves a limb of an earlier value above the length of the new *)
(* one: the fixed-width readers take those limbs for the number          *)
(* (bignum_clear_stale_tail, crypto_bignum_to_bytes_be_secret_fixed_ct). *)
TailIsZero ==
  \A r \in Registers : \A i \in LengthOf(r) + 1 .. Capacity(r) : num[r].limbs[i] = 0

(* The length never counts a zero limb at the top: comparison decides by  *)
(* length first (crypto_bignum_compare), so that a padded number would be *)
(* larger than a number it equals.                                        *)
LengthsAreExact ==
  \A r \in Registers \ spoiled : LengthOf(r) > 0 => num[r].limbs[LengthOf(r)] # 0

Abstract == INSTANCE BignumSpec

(* Every call computes the integer its name says from the values before the  *)
(* call, whichever of its registers coincide, or fails and changes no value. *)
ImplementsBignumSpec == Abstract!Spec


-----------------------------------------------------------------------------
(*****************************************************************************)
(* The three ways src/src/Util/Bignum multiplies limb arrays, on every pair  *)
(* of arrays of the modelled lengths: rows of a schoolbook product, one      *)
(* Karatsuba split (the code takes it from 96 limbs on, the model from two), *)
(* and the square that doubles its cross products.                           *)
(*****************************************************************************)
CONSTANT ProductMaxLimbs

VARIABLES
  productA, productB,     \* the operands
  productMethod,   \* how they are multiplied
  productProduct   \* the product so far
productVars == <<productA, productB, productMethod, productProduct>>

Arrays(n) == [1 .. n -> Limb]
ProductNone == <<>>

\* bignum_mul_karatsuba_noalias is called for equal lengths only.
ProductInit ==
  /\ \E n, k \in 1 .. ProductMaxLimbs : productA \in Arrays(n) /\ productB \in Arrays(k)
  /\ productMethod \in {"schoolbook", "karatsuba", "square"}
  /\ productMethod = "karatsuba" => Len(productA) = Len(productB) /\ Len(productA) > 1
  /\ productMethod = "square" => productA = productB
  /\ productProduct = ProductNone

Multiply ==
  /\ productProduct = ProductNone
  /\ productProduct' = CASE productMethod = "schoolbook" -> MulWords(productA, productB)
                         [] productMethod = "karatsuba"  -> KaratsubaWords(productA, productB)
                         [] productMethod = "square"     -> SquareWords(productA)
  /\ UNCHANGED <<productA, productB, productMethod>>

ProductFinished == productProduct # ProductNone /\ UNCHANGED productVars
ProductNext == Multiply \/ ProductFinished
ProductSpec == ProductInit /\ [][ProductNext]_productVars

(* Each method leaves the exact product in as many limbs as both operands *)
(* have together: no carry is lost between the halves, rows and diagonals *)
(* (crypto_bignum_mul, bignum_square_add_double_product).                 *)
ProductIsExact ==
  productProduct # ProductNone =>
    /\ productProduct \in Seq(Limb) /\ Len(productProduct) = Len(productA) + Len(productB)
    /\ WordsValue(productProduct) = WordsValue(productA) * WordsValue(productB)


-----------------------------------------------------------------------------
(****************************************************************************)
(* crypto_bignum_mod for a modulus of two limbs or more: both numbers are   *)
(* shifted left until the top bit of the modulus is set, and each quotient  *)
(* digit is estimated from two limbs, corrected against a third, multiplied *)
(* and subtracted, and added back once when it was still one too large.     *)
(* Only the remainder is kept.  Places are 0-based as in the code.          *)
(****************************************************************************)
CONSTANTS
  ModulusLimbs,   \* the lengths of the modulus
  NumberLimbs     \* the lengths of the number that is reduced

\* A modulus of one limb is reduced by without an estimate.
ASSUME DivisionAssumption ==
  ModulusLimbs \subseteq Nat \ {0, 1} /\ NumberLimbs \subseteq Nat \ {0}

VARIABLES
  divisionA, divisionM,       \* the number and the modulus, in limbs
  un, vn,     \* both after the shift; un turns into the remainder
  offset,     \* the place the present digit is subtracted at
  qhat, rhat, \* the estimated digit and the remainder of the estimate
  underflow,  \* the subtraction went below zero
  divisionPc
divisionVars == <<divisionA, divisionM, un, vn, offset, qhat, rhat, underflow, divisionPc>>

divisionN == Len(divisionM)
Top(w) == w[Len(w)]

\* bignum_clz32 of the top limb.
Shift == LimbBits - BitsOf(Top(divisionM))
ShiftedLeft(w) == WordsOf(WordsValue(w) * PowerOf(2, Shift), Len(w) + 1)

\* Numbers without a zero limb on top; smaller ones than the modulus are copied
\* before any division.
DivisionInit ==
  /\ \E k \in ModulusLimbs : divisionM \in [1 .. k -> Limb]
  /\ \E k \in NumberLimbs : divisionA \in [1 .. k -> Limb]
  /\ Top(divisionM) # 0 /\ Top(divisionA) # 0 /\ WordsValue(divisionA) >= WordsValue(divisionM)
  /\ vn = SubSeq(ShiftedLeft(divisionM), 1, divisionN)
  /\ un = ShiftedLeft(divisionA)
  /\ offset = Len(divisionA) - divisionN
  /\ qhat = 0 /\ rhat = 0 /\ underflow = FALSE
  /\ divisionPc = "estimate"

Estimate ==
  /\ divisionPc = "estimate"
  /\ LET numerator == un[offset + divisionN + 1] * Base + un[offset + divisionN]
     IN qhat' = numerator \div vn[divisionN] /\ rhat' = numerator % vn[divisionN]
  /\ divisionPc' = "correct"
  /\ UNCHANGED <<divisionA, divisionM, un, vn, offset, underflow>>

\* The digit is too large for three limbs of the number.
FaultyTooLarge ==
  \/ qhat >= Base
  \/ qhat * vn[divisionN - 1] >= rhat * Base + un[offset + divisionN - 1]
TooLarge ==
  \/ qhat >= Base
  \/ qhat * vn[divisionN - 1] > rhat * Base + un[offset + divisionN - 1]

Correct ==
  /\ divisionPc = "correct"
  /\ IF TooLarge
     THEN /\ qhat' = qhat - 1
          /\ rhat' = rhat + vn[divisionN]
          /\ divisionPc' = IF rhat' >= Base THEN "subtract" ELSE "correct"
     ELSE divisionPc' = "subtract" /\ UNCHANGED <<qhat, rhat>>
  /\ UNCHANGED <<divisionA, divisionM, un, vn, offset, underflow>>

\* qhat times the modulus, limb by limb; a carry is the negative of the borrow.
Subtract ==
  /\ divisionPc = "subtract"
  /\ LET s == Ripple([i \in Nat |-> At(un, offset + i) - qhat * At(vn, i)], divisionN)
         high == At(un, offset + divisionN) + s.carry
     IN un' = Placed(un, offset, s.w, Low(high)) /\ underflow' = (high < 0)
  /\ divisionPc' = "addback"
  /\ UNCHANGED <<divisionA, divisionM, vn, offset, qhat, rhat>>

Restored ==
  LET s == AddWords(SubSeq(un, offset + 1, offset + divisionN), vn, divisionN)
  IN Placed(un, offset, s.w, Low(At(un, offset + divisionN) + s.carry))

AddBack ==
  /\ divisionPc = "addback"
  /\ un' = IF underflow THEN Restored ELSE un
  /\ IF offset = 0 THEN divisionPc' = "done" /\ UNCHANGED offset
     ELSE divisionPc' = "estimate" /\ offset' = offset - 1
  /\ UNCHANGED <<divisionA, divisionM, vn, qhat, rhat, underflow>>

\* The low limbs shifted back, each with the bits of the limb above it.
DivisionRemainder ==
  LET above(i) == IF i = divisionN THEN 0 ELSE Low(un[i + 1] * PowerOf(2, LimbBits - Shift))
  IN IF Shift = 0 THEN SubSeq(un, 1, divisionN)
     ELSE [i \in 1 .. divisionN |-> (un[i] \div PowerOf(2, Shift)) + above(i)]

DivisionFinished == divisionPc = "done" /\ UNCHANGED divisionVars
DivisionNext == Estimate \/ Correct \/ Subtract \/ AddBack \/ DivisionFinished
DivisionSpec == DivisionInit /\ [][DivisionNext]_divisionVars

(* ------------------------------- properties ----------------------------- *)

Window(k) == SubSeq(un, k + 1, k + divisionN + 1)

DivisionTypeOK ==
  /\ \A i \in DOMAIN un : un[i] \in Limb
  /\ offset \in 0 .. Len(divisionA) - divisionN
  /\ divisionPc \in {"estimate", "correct", "subtract", "addback", "done"}

(* The estimate that is multiplied and subtracted is the true digit or one *)
(* more: a correction that stops early or runs on would need a second      *)
(* add-back, which the code does not have.                                 *)
EstimateIsClose ==
  divisionPc = "subtract" =>
    LET digit == WordsValue(Window(offset)) \div WordsValue(vn)
    IN qhat \in {digit, digit + 1} /\ qhat <= Base

(* Between two digits the number is still what it was modulo the modulus, and *)
(* what is left is below the modulus shifted to the next place, so that the   *)
(* two limbs the next estimate reads are all there is.                        *)
RestIsCongruent ==
  divisionPc \in {"estimate", "done"} =>
    /\ (WordsValue(un) - WordsValue(divisionA) * PowerOf(2, Shift)) % WordsValue(vn) = 0
    /\ WordsValue(un) < WordsValue(vn) * PowerOf(Base, IF divisionPc = "done" THEN 0 ELSE offset + 1)

(* The remainder handed over is the number modulo the modulus.                *)
RemainderIsExact ==
  divisionPc = "done" => WordsValue(DivisionRemainder) = WordsValue(divisionA) % WordsValue(divisionM)

=============================================================================
