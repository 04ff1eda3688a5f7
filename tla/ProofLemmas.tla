---------------------------- MODULE ProofLemmas ----------------------------
(***************************************************************************)
(* Facts about \div and % by a symbolic divisor, about numerals and about  *)
(* cutting and joining sequences and strings, and induction over numbers   *)
(* in a form that is instantiated by sets.                                 *)
(***************************************************************************)
EXTENDS Integers, Sequences, SequenceTheorems, WellFoundedInduction, TLAPS

(* The quotient and the remainder of a buffer offset by a block length.    *)
LEMMA Division ==
    ASSUME NEW n \in Nat, NEW B \in Nat \ {0}
    PROVE  /\ n \div B \in Nat
           /\ n % B \in 0 .. B - 1
           /\ n = B * (n \div B) + (n % B)
OBVIOUS

(* Splitting an offset into whole blocks and a rest has only one answer.   *)
LEMMA DivisionUnique ==
    ASSUME NEW n \in Nat, NEW q \in Nat, NEW r \in Nat, NEW B \in Nat \ {0},
           n = B * q + r, r < B
    PROVE  n % B = r /\ n \div B = q
<1>1. n = B * (n \div B) + (n % B) /\ n \div B \in Nat /\ n % B \in 0 .. B - 1
  BY Division
<1>2. n \div B = q
  <2>1. CASE n \div B > q
    <3>1. B * ((n \div B) - q) >= B
      BY <1>1, <2>1
    <3> QED
      BY <1>1, <3>1
  <2>2. CASE n \div B < q
    <3>1. B * (q - (n \div B)) >= B
      BY <1>1, <2>2
    <3> QED
      BY <1>1, <3>1
  <2> QED
    BY <1>1, <2>1, <2>2
<1> QED
  BY <1>1, <1>2

(* A multiple of the block length ends at a block boundary.                *)
LEMMA MultipleHasNoRest ==
    ASSUME NEW n \in Nat, NEW q \in Nat, NEW B \in Nat \ {0}, n = B * q
    PROVE  n % B = 0
<1>1. n = B * q + 0 /\ 0 < B
  OBVIOUS
<1>2. \A r \in Nat : (n = B * q + r /\ r < B) => n % B = r
  BY DivisionUnique
<1> QED
  BY <1>1, <1>2

(* Whole blocks added to whole blocks are whole blocks.                    *)
LEMMA MultiplesAdd ==
    ASSUME NEW a \in Nat, NEW b \in Nat, NEW B \in Nat \ {0}, NEW c,
           a % B = 0, b % B = 0, c = a + b
    PROVE  c % B = 0
<1>1. a = B * (a \div B) /\ a \div B \in Nat
  BY Division
<1>2. b = B * (b \div B) /\ b \div B \in Nat
  BY Division
<1>3. PICK q \in Nat : c = B * q
  <2>1. c = B * ((a \div B) + (b \div B))
    BY <1>1, <1>2
  <2>2. (a \div B) + (b \div B) \in Nat
    BY <1>1, <1>2
  <2> QED
    BY <2>1, <2>2
<1>4. c \in Nat
  OBVIOUS
<1> QED
  BY <1>3, <1>4, MultipleHasNoRest

(* The same of three lengths.                                              *)
LEMMA ThreeMultiplesAdd ==
    ASSUME NEW a \in Nat, NEW b \in Nat, NEW c \in Nat, NEW B \in Nat \ {0},
           a % B = 0, b % B = 0, c % B = 0
    PROVE  ((a + b) + c) % B = 0
<1>1. a = B * (a \div B) /\ a \div B \in Nat
  BY Division
<1>2. b = B * (b \div B) /\ b \div B \in Nat
  BY Division
<1>3. c = B * (c \div B) /\ c \div B \in Nat
  BY Division
<1>4. (a + b) + c = B * (((a \div B) + (b \div B)) + (c \div B))
  BY <1>1, <1>2, <1>3
<1>5. (a + b) + c \in Nat /\ ((a \div B) + (b \div B)) + (c \div B) \in Nat
  BY <1>1, <1>2, <1>3
<1>6. \A n, q \in Nat : n = B * q => n % B = 0
  BY MultipleHasNoRest
<1> QED
  BY <1>4, <1>5, <1>6

(* What a loop over whole blocks takes is a multiple of the block.         *)
LEMMA WholeIsMultiple ==
    ASSUME NEW n \in Nat, NEW B \in Nat \ {0}
    PROVE  /\ n - (n % B) \in 0 .. n
           /\ (n - (n % B)) % B = 0
<1>1. n = B * (n \div B) + (n % B) /\ n \div B \in Nat /\ n % B \in 0 .. B - 1
  BY Division
<1>2. n - (n % B) = B * (n \div B) + 0
  BY <1>1
<1>3. \A w, q \in Nat : w = B * q + 0 => w % B = 0
  BY DivisionUnique
<1>4. n % B <= n
  BY <1>1
<1>5. n - (n % B) \in Nat
  BY <1>1, <1>4
<1> QED
  BY <1>1, <1>2, <1>3, <1>4, <1>5

(* A quotient bounds what may be multiplied back: the checks of the form   *)
(* n <= (MAX - used) / 8 keep used + 8 n within MAX.                       *)
LEMMA QuotientBound ==
    ASSUME NEW m \in Nat, NEW k \in Nat, NEW B \in Nat \ {0}
    PROVE  k <= m \div B <=> B * k <= m
<1>1. m = B * (m \div B) + (m % B) /\ m \div B \in Nat /\ m % B \in 0 .. B - 1
  BY Division
<1>2. CASE k <= m \div B
  <2>1. B * k <= B * (m \div B)
    BY <1>1, <1>2
  <2> QED
    BY <1>1, <1>2, <2>1
<1>3. CASE k > m \div B
  <2>1. k >= (m \div B) + 1
    BY <1>1, <1>3
  <2>2. B * k >= B * ((m \div B) + 1)
    BY <1>1, <2>1
  <2>3. B * ((m \div B) + 1) = B * (m \div B) + B
    BY <1>1
  <2> QED
    BY <1>1, <1>3, <2>2, <2>3
<1> QED
  BY <1>1, <1>2, <1>3

----------------------------------------------------------------------------
(* The elements of a concatenation, by offset in its parts.                *)
LEMMA Joined ==
    ASSUME NEW S, NEW a \in Seq(S), NEW b \in Seq(S)
    PROVE  /\ a \o b \in Seq(S)
           /\ Len(a \o b) = Len(a) + Len(b)
           /\ \A j \in 1 .. Len(a) : (a \o b)[j] = a[j]
           /\ \A j \in 1 .. Len(b) : (a \o b)[Len(a) + j] = b[j]
<1>1. Len(a) \in Nat /\ Len(b) \in Nat
  OBVIOUS
<1>2. /\ a \o b \in Seq(S)
      /\ Len(a \o b) = Len(a) + Len(b)
      /\ \A j \in 1 .. Len(a) + Len(b) :
            (a \o b)[j] = IF j <= Len(a) THEN a[j] ELSE b[j - Len(a)]
  BY ConcatProperties
<1>3. ASSUME NEW j \in 1 .. Len(b)
      PROVE  (a \o b)[Len(a) + j] = b[j]
  <2>1. /\ Len(a) + j \in 1 .. Len(a) + Len(b)
        /\ ~(Len(a) + j <= Len(a))
        /\ (Len(a) + j) - Len(a) = j
    BY <1>1
  <2> QED
    BY <1>2, <2>1
<1> QED
  BY <1>1, <1>2, <1>3

(* Taking n elements of a sequence and then the rest.                      *)
LEMMA TakeDrop ==
    ASSUME NEW S, NEW s \in Seq(S), NEW n \in 0 .. Len(s)
    PROVE  /\ SubSeq(s, 1, n) \in Seq(S)
           /\ Len(SubSeq(s, 1, n)) = n
           /\ SubSeq(s, n + 1, Len(s)) \in Seq(S)
           /\ Len(SubSeq(s, n + 1, Len(s))) = Len(s) - n
           /\ s = SubSeq(s, 1, n) \o SubSeq(s, n + 1, Len(s))
<1> DEFINE a == SubSeq(s, 1, n)
           b == SubSeq(s, n + 1, Len(s))
<1>1. /\ a \in Seq(S) /\ Len(a) = n
      /\ \A j \in 1 .. n : a[j] = s[j]
  OBVIOUS
<1>2. /\ b \in Seq(S) /\ Len(b) = Len(s) - n
      /\ \A j \in 1 .. Len(s) - n : b[j] = s[n + j]
  OBVIOUS
<1> HIDE DEF a, b
<1>3. /\ a \o b \in Seq(S)
      /\ Len(a \o b) = Len(a) + Len(b)
      /\ \A j \in 1 .. Len(a) + Len(b) :
            (a \o b)[j] = IF j <= Len(a) THEN a[j] ELSE b[j - Len(a)]
  BY <1>1, <1>2, ConcatProperties
<1>4. Len(a \o b) = Len(s)
  BY <1>1, <1>2, <1>3
<1>5. ASSUME NEW j \in 1 .. Len(s)
      PROVE  (a \o b)[j] = s[j]
  <2>1. CASE j <= n
    BY <1>1, <1>2, <1>3, <2>1
  <2>2. CASE ~(j <= n)
    <3>1. j - n \in 1 .. Len(s) - n /\ n + (j - n) = j
      BY <2>2
    <3> QED
      BY SMTT(20), <1>1, <1>2, <1>3, <2>2, <3>1
  <2> QED
    BY <2>1, <2>2, Zenon
<1>6. s = a \o b
  BY <1>3, <1>4, <1>5, SeqEqual
<1> QED
  BY <1>1, <1>2, <1>6 DEF a, b

(* Concatenation under a name of its own, so that the associative law is   *)
(* applied to whole terms and not worked out element by element.           *)
Cat(x, y) == x \o y

(* Joining keeps the kind of elements.                                     *)
LEMMA CatType ==
    ASSUME NEW S, NEW x \in Seq(S), NEW y \in Seq(S)
    PROVE  Cat(x, y) \in Seq(S)
BY ConcatProperties DEF Cat

(* Joining three sequences may begin with either pair.                     *)
LEMMA Associative ==
    ASSUME NEW S, NEW x \in Seq(S), NEW y \in Seq(S), NEW z \in Seq(S)
    PROVE  Cat(Cat(x, y), z) = Cat(x, Cat(y, z))
BY DEF Cat

(* Concatenation regrouped: what was compressed, what was waiting, and the *)
(* three parts of an input.                                                *)
LEMMA Regroup ==
    ASSUME NEW S, NEW f \in Seq(S), NEW w \in Seq(S), NEW t \in Seq(S),
           NEW d \in Seq(S), NEW l \in Seq(S)
    PROVE  Cat(Cat(Cat(f, Cat(w, t)), d), l) = Cat(Cat(f, w), Cat(t, Cat(d, l)))
BY SMTT(20), Associative, CatType

(* A sequence of one, and of two.                                          *)
LEMMA AppendToOne ==
    ASSUME NEW w, NEW v
    PROVE  Append(<<w>>, v) = <<w, v>>
<1> DEFINE S == {w, v}
<1>1. <<w>> \in Seq(S) /\ v \in S
  OBVIOUS
<1>2. Append(<<w>>, v) \in Seq(S) /\ <<w, v>> \in Seq(S)
  BY <1>1
<1>3. Len(<<w>>) = 1 /\ Len(<<w, v>>) = 2 /\ <<w>>[1] = w
  OBVIOUS
<1>4. /\ Len(Append(<<w>>, v)) = 2
      /\ Append(<<w>>, v)[1] = w /\ Append(<<w>>, v)[2] = v
  BY <1>1, <1>3, AppendProperties
<1>5. \A i \in 1 .. 2 : Append(<<w>>, v)[i] = <<w, v>>[i]
  BY <1>4
<1> HIDE DEF S
<1> QED
  BY <1>2, <1>3, <1>4, <1>5, SeqEqual

----------------------------------------------------------------------------
(* Numbers of two words.                                                   *)

(* Order of products.                                                      *)
LEMMA ProductOrder ==
    ASSUME NEW W \in Nat \ {0}, NEW h \in Nat, NEW k \in Nat
    PROVE  /\ h <= k => h * W <= k * W
           /\ \A r \in 0 .. W - 1 : (h * W + r < k * W) <=> h < k
<1>1. ASSUME h <= k PROVE h * W <= k * W
  <2>1. PICK d \in Nat : k = h + d
    <3>1. k - h \in Nat /\ k = h + (k - h)
      BY <1>1
    <3> QED BY <3>1
  <2>2. k * W = h * W + d * W /\ d * W \in Nat /\ h * W \in Nat
    BY <2>1
  <2> QED BY <2>2
<1>2. ASSUME NEW r \in 0 .. W - 1, h < k PROVE h * W + r < k * W
  <2>1. PICK d \in Nat : k = h + 1 + d
    <3>1. k - h - 1 \in Nat /\ k = h + 1 + (k - h - 1)
      BY <1>2
    <3> QED BY <3>1
  <2>2. k * W = h * W + W + d * W /\ d * W \in Nat /\ h * W \in Nat
    BY <2>1
  <2> QED BY <2>2
<1>3. ASSUME NEW r \in 0 .. W - 1, ~(h < k) PROVE ~(h * W + r < k * W)
  <2>1. PICK d \in Nat : h = k + d
    <3>1. h - k \in Nat /\ h = k + (h - k)
      BY <1>3
    <3> QED BY <3>1
  <2>2. h * W = k * W + d * W /\ d * W \in Nat /\ k * W \in Nat
    BY <2>1
  <2> QED BY <2>2
<1> QED BY <1>1, <1>2, <1>3

(* The rest of a number below B, and of one below twice B.                 *)
LEMMA SmallRest ==
    ASSUME NEW B \in Nat \ {0}, NEW n \in Nat, n < B + B
    PROVE  /\ n < B => n % B = n
           /\ n >= B => n % B = n - B
<1>1. \A q, r \in Nat : (n = B * q + r /\ r < B) => n % B = r
  BY DivisionUnique
<1>2. CASE n < B
  <2>1. n = B * 0 + n
    OBVIOUS
  <2> QED BY <1>1, <1>2, <2>1
<1>3. CASE ~(n < B)
  <2>1. n = B * 1 + (n - B) /\ n - B \in Nat /\ n - B < B
    BY <1>3
  <2> QED BY <1>1, <1>3, <2>1
<1> QED BY <1>2, <1>3

(* A number of two words of W values, counted in units of B: adding n to   *)
(* it with a carry between the words, and the check that it still fits.    *)
CarryOf(W, l, n)  == IF (l + n) % W < l THEN 1 ELSE 0
HighOf(W, h, l, n) == (h + CarryOf(W, l, n)) % W

Advances(W, B, h, l, n) ==
    LET high == HighOf(W, h, l, n)
        fits == high >= h /\ high <= (W - 1) \div B
    IN  /\ fits <=> (h * W + l) + n <= (W * W - 1) \div B
        /\ fits => (h * W + l) + n = high * W + ((l + n) % W)

(* Adding to a counter of two words, with the carry and the limit of the code. *)
LEMMA TwoWords ==
    ASSUME NEW W \in Nat \ {0}, NEW B \in Nat \ {0}, W % B = 0,
           NEW h \in Nat, NEW l \in 0 .. W - 1, NEW n \in 0 .. W - 1,
           h < W, h * W + l <= (W * W - 1) \div B
    PROVE  Advances(W, B, h, l, n)
<1> DEFINE carry == CarryOf(W, l, n)
           high == HighOf(W, h, l, n)
           r == (l + n) % W
           k == W \div B
<1>1. W = B * k /\ k \in Nat \ {0}
  <2>1. W = B * (W \div B) + (W % B) /\ W \div B \in Nat
    BY Division
  <2>2. W = B * k /\ k \in Nat
    BY <2>1
  <2>3. k # 0
    BY <2>2
  <2> QED BY <2>2, <2>3
<1> HIDE DEF k
<1>2. (W - 1) \div B = k - 1
  <2>1. W - 1 \in Nat /\ k - 1 \in Nat /\ B - 1 \in Nat /\ B - 1 < B
    BY <1>1
  <2>2. B * (k - 1) = B * k - B
    BY <1>1
  <2>3. W - 1 = B * (k - 1) + (B - 1)
    BY <1>1, <2>1, <2>2
  <2> QED BY <2>1, <2>3, DivisionUnique
<1>3. (W * W - 1) \div B = k * W - 1 /\ k * W - 1 \in Nat
  <2>1. W * W = B * (k * W)
    BY <1>1
  <2>2. k * W \in Nat /\ k * W >= 1
    BY <1>1
  <2> DEFINE p == k * W
             m == W * W - 1
  <2>3. m = B * (p - 1) + (B - 1) /\ p - 1 \in Nat /\ B - 1 \in Nat /\ m \in Nat
    <3>1. p \in Nat \ {0} /\ W * W = B * p
      BY <2>1, <2>2
    <3> HIDE DEF p
    <3>2. B * (p - 1) = B * p - B
      BY <3>1
    <3>3. W * W \in Nat /\ W * W >= 1
      OBVIOUS
    <3> QED BY <3>1, <3>2, <3>3
  <2> HIDE DEF m, p
  <2>4. m \div B = p - 1
    BY <2>3, DivisionUnique
  <2> QED BY <2>3, <2>4 DEF m, p
<1>4. carry = (IF r < l THEN 1 ELSE 0) /\ high = (h + carry) % W
  BY DEF CarryOf, HighOf
<1> HIDE DEF carry, high
<1>5. r \in 0 .. W - 1 /\ carry \in {0, 1} /\ l + n = carry * W + r
  <2>1. CASE l + n < W
    <3>1. l + n \in Nat /\ l + n < W + W
      OBVIOUS
    <3>2. r = l + n
      BY <2>1, <3>1, SmallRest
    <3> QED BY <1>4, <2>1, <3>2
  <2>2. CASE l + n >= W
    <3> DEFINE x == l + n
    <3>1. x \in Nat /\ x < W + W /\ x >= W
      BY <2>2
    <3> HIDE DEF x
    <3>2. r = x - W
      BY <3>1, SmallRest DEF x
    <3>3. r < l /\ r \in 0 .. W - 1
      BY <3>1, <3>2 DEF x
    <3> QED BY <1>4, <2>2, <3>1, <3>2, <3>3 DEF x
  <2> QED BY <2>1, <2>2
<1> HIDE DEF r
<1>6. h < k /\ k <= W
  <2>1. h * W + l < k * W
    BY <1>1, <1>3
  <2>2. k <= B * k
    <3>1. PICK d \in Nat : B = 1 + d
      <4>1. B - 1 \in Nat /\ B = 1 + (B - 1)
        OBVIOUS
      <4> QED BY <4>1
    <3>2. B * k = k + d * k /\ d * k \in Nat
      BY <1>1, <3>1
    <3> QED BY <1>1, <3>2
  <2> QED BY <1>1, <2>1, <2>2, ProductOrder
<1>7. (h * W + l) + n = (h + carry) * W + r
  BY <1>5
<1>8. (h * W + l) + n <= k * W - 1 <=> h + carry < k
  <2>1. ((h + carry) * W + r < k * W) <=> h + carry < k
    BY <1>1, <1>5, ProductOrder
  <2>2. (h + carry) * W \in Nat /\ k * W \in Nat
    BY <1>1, <1>5
  <2> QED BY <1>5, <1>7, <2>1, <2>2
<1>9. CASE h + carry < W
  <2>1. h + carry \in Nat /\ h + carry < W + W
    BY <1>5, <1>9
  <2>2. high = h + carry
    BY <1>9, <1>4, <2>1, SmallRest
  <2>3. high >= h /\ (high <= (W - 1) \div B <=> h + carry < k)
    BY <1>1, <1>2, <1>5, <2>2
  <2> QED BY <1>3, <1>7, <1>8, <2>2, <2>3 DEF r, high, Advances
<1>10. CASE ~(h + carry < W)
  <2>1. h + carry = W /\ carry = 1 /\ k = W
    BY <1>1, <1>5, <1>6, <1>10
  <2>2. W % W = W - W
    BY SmallRest
  <2>3. high = 0
    BY <1>4, <2>1, <2>2
  <2>4. h > 0
    <3>1. SUFFICES ASSUME h = 0 PROVE FALSE
      OBVIOUS
    <3>2. W = 1
      BY <2>1, <3>1
    <3>3. l = 0 /\ n = 0
      BY <3>2
    <3> QED BY <1>5, <1>4, <2>1, <3>2, <3>3 DEF r
  <2>5. ~(high >= h)
    BY <2>3, <2>4
  <2> QED BY <1>1, <1>2, <1>3, <1>8, <2>1, <2>5 DEF Advances, high
<1> QED BY <1>9, <1>10

(* Division of a number of two parts.                                      *)
LEMMA PartsDivide ==
    ASSUME NEW p \in Nat \ {0}, NEW a \in Nat, NEW y \in Nat
    PROVE  /\ (p * a + y) \div p = a + (y \div p)
           /\ (p * a + y) % p = y % p
<1> DEFINE x == p * a + y
           q == y \div p
           r == y % p
<1>1. y = p * q + r /\ q \in Nat /\ r \in 0 .. p - 1
  BY Division
<1> HIDE DEF q, r
<1>2. x = p * (a + q) + r /\ x \in Nat /\ a + q \in Nat /\ r \in Nat /\ r < p
  BY <1>1
<1> HIDE DEF x
<1>3. x % p = r /\ x \div p = a + q
  BY <1>2, DivisionUnique
<1> QED BY <1>3 DEF x, q, r

(* The high part of a number of two words, divided.                        *)
HighDivides(W, q, h, l) == (h * W + l) \div (W * q) = h \div q

(* The low word does not reach the quotient of the high one.                 *)
LEMMA HighPart ==
    ASSUME NEW W \in Nat \ {0}, NEW q \in Nat \ {0}, NEW h \in Nat, NEW l \in 0 .. W - 1
    PROVE  HighDivides(W, q, h, l)
<1> DEFINE v == h * W + l
           d == W * q
           a == h \div q
           b == h % q
           r == b * W + l
<1>1. h = q * a + b /\ a \in Nat /\ b \in 0 .. q - 1
  BY Division
<1> HIDE DEF a, b
<1>2. r \in Nat /\ r < q * W
  BY <1>1, ProductOrder
<1>3. d \in Nat \ {0} /\ v \in Nat
  OBVIOUS
<1>4. v = d * a + r
  <2>1. h * W = (q * a) * W + b * W
    BY <1>1
  <2>2. (q * a) * W = d * a
    BY <1>1
  <2> QED BY <1>1, <2>1, <2>2
<1>5. r < d
  BY <1>2
<1> HIDE DEF v, d, r
<1>6. v \div d = a
  BY <1>1, <1>2, <1>3, <1>4, <1>5, DivisionUnique
<1> QED BY <1>6 DEF v, d, a, HighDivides

(* One digit of the low part of a number of two words.                     *)
LowDigit(p, R, z, h, l) ==
    ((h * (p * (R * z)) + l) \div p) % R = (l \div p) % R

(* The high word does not reach a digit of the low one.                      *)
LEMMA LowPart ==
    ASSUME NEW p \in Nat \ {0}, NEW R \in Nat \ {0}, NEW z \in Nat,
           NEW h \in Nat, NEW l \in Nat
    PROVE  LowDigit(p, R, z, h, l)
<1> DEFINE W == p * (R * z)
           a == h * (R * z)
           y == l \div p
           b == h * z
<1>1. h * W + l = p * a + l /\ a \in Nat
  <2> DEFINE u == R * z
  <2>1. u \in Nat /\ W = p * u
    OBVIOUS
  <2> HIDE DEF u
  <2>2. h * W = p * (h * u)
    BY <2>1
  <2> QED BY <2>1, <2>2 DEF u
<1>2. (p * a + l) \div p = a + y
  BY <1>1, PartsDivide
<1>3. y \in Nat /\ b \in Nat /\ a = R * b
  BY Division
<1> HIDE DEF a, y, b
<1>4. (R * b + y) % R = y % R
  BY <1>3, PartsDivide
<1> QED BY <1>1, <1>2, <1>3, <1>4 DEF y, LowDigit

(* What is missing to the next multiple of B has only one answer.          *)
LEMMA MissingUnique ==
    ASSUME NEW n \in Nat, NEW B \in Nat \ {0}, NEW g \in 0 .. B - 1, (n + g) % B = 0
    PROVE  (B - (n % B)) % B = g
<1> DEFINE q == n \div B
           r == n % B
           x == r + g
<1>1. n = B * q + r /\ q \in Nat /\ r \in 0 .. B - 1
  BY Division
<1> HIDE DEF q, r
<1>2. x \in Nat /\ x < B + B /\ n + g = B * q + x
  BY <1>1
<1> HIDE DEF x
<1>3. (B * q + x) % B = x % B
  BY <1>1, <1>2, PartsDivide
<1>4. x % B = 0
  BY <1>2, <1>3
<1>5. x = 0 \/ x = B
  <2>1. CASE x < B
    BY <1>2, <1>4, <2>1, SmallRest
  <2>2. CASE x >= B
    BY <1>2, <1>4, <2>2, SmallRest
  <2> QED BY <1>2, <2>1, <2>2
<1>6. CASE r = 0
  <2>1. g = 0 /\ B - r = B
    BY <1>1, <1>5, <1>6 DEF x
  <2>2. B % B = B - B
    BY SmallRest
  <2> QED BY <2>1, <2>2 DEF r
<1>7. CASE r # 0
  <2>1. B - r = g /\ g \in Nat /\ g < B /\ g < B + B
    BY <1>1, <1>5, <1>7 DEF x
  <2>2. g % B = g
    BY <2>1, SmallRest
  <2> QED BY <2>1, <2>2 DEF r
<1> QED BY <1>6, <1>7

-----------------------------------------------------------------------------
(* Induction over the natural numbers in terms of sets, which every prover *)
(* can instantiate: what a recursive function computes is proved with it.  *)

(* A set of numbers that is not empty has a least one.                     *)
LEMMA Smallest ==
    ASSUME NEW T, T \subseteq Nat, T # {}
    PROVE  \E x \in T : \A y \in T : x <= y
<1> DEFINE R == {ss \in Nat \X Nat : ss[1] < ss[2]}
<1>1. OpToRel(<, Nat) = R
  BY DEF OpToRel
<1>2. IsWellFoundedOn(R, Nat)
  BY <1>1, NatLessThanWellFounded
<1>3. \A x, y \in Nat : <<y, x>> \in R <=> y < x
  BY DEF R
<1> HIDE DEF R
<1>4. PICK x \in T : \A y \in T : ~ (<<y, x>> \in R)
  BY <1>2, WFMin
<1>5. ASSUME NEW y \in T PROVE x <= y
  <2>1. x \in Nat /\ y \in Nat
    OBVIOUS
  <2>2. ~ (y < x)
    BY <1>3, <1>4, <2>1
  <2> QED
    BY <2>1, <2>2
<1> QED
  BY <1>4, <1>5

(* A set that holds 0, and with n also n + 1, holds every number.          *)
LEMMA SetInduction ==
    ASSUME NEW S, 0 \in S, \A n \in Nat : n \in S => n + 1 \in S
    PROVE  Nat \subseteq S
<1> SUFFICES ASSUME Nat \ S # {} PROVE FALSE
  OBVIOUS
<1>1. PICK x \in Nat \ S : \A y \in Nat \ S : x <= y
  BY Smallest
<1>2. x # 0 /\ x - 1 \in Nat /\ x = (x - 1) + 1
  BY <1>1
<1>3. x - 1 \in S
  BY <1>1, <1>2
<1> QED
  BY <1>1, <1>2, <1>3

\* f holds a and what comes of it when g is applied up to m times.
Iterates(f, S, a, g, m) ==
    f \in [0 .. m -> S] /\ f[0] = a /\ \A i \in 1 .. m : f[i] = g[f[i - 1]]

(* A function from S to S can be iterated.                                 *)
LEMMA Iteration ==
    ASSUME NEW S, NEW a \in S, NEW g \in [S -> S], NEW m \in Nat
    PROVE  \E f : Iterates(f, S, a, g, m)
<1> USE DEF Iterates
<1> DEFINE T == {n \in Nat : \E f : Iterates(f, S, a, g, n)}
<1>1. 0 \in T
  <2> DEFINE f == [i \in 0 .. 0 |-> a]
  <2>1. Iterates(f, S, a, g, 0)
    OBVIOUS
  <2> QED BY <2>1
<1>2. ASSUME NEW n \in Nat, n \in T PROVE n + 1 \in T
  <2>1. PICK f : Iterates(f, S, a, g, n)
    BY <1>2
  <2> DEFINE h == [i \in 0 .. n + 1 |-> IF i = n + 1 THEN g[f[n]] ELSE f[i]]
  <2>2. n \in 0 .. n /\ f[n] \in S
    BY <2>1
  <2>3. \A i \in 0 .. n + 1 : i # n + 1 => i \in 0 .. n /\ f[i] \in S
    BY <2>1
  <2>4. h \in [0 .. n + 1 -> S]
    BY <2>2, <2>3
  <2>5. h[0] = a
    BY <2>1
  <2>6. ASSUME NEW i \in 1 .. n + 1 PROVE h[i] = g[h[i - 1]]
    <3>1. i \in 0 .. n + 1 /\ i - 1 \in 0 .. n + 1 /\ i - 1 # n + 1
      OBVIOUS
    <3>2. h[i - 1] = f[i - 1]
      BY <3>1
    <3>3. CASE i = n + 1
      <4>1. h[i] = g[f[n]] /\ i - 1 = n
        BY <3>1, <3>3
      <4> QED BY <3>2, <4>1
    <3>4. CASE i # n + 1
      <4>1. i \in 1 .. n /\ h[i] = f[i]
        BY <3>1, <3>4
      <4>2. f[i] = g[f[i - 1]]
        BY <2>1, <4>1
      <4> QED BY <3>2, <4>1, <4>2
    <3> QED BY <3>3, <3>4
  <2> HIDE DEF h
  <2> QED BY <2>4, <2>5, <2>6
<1>3. m \in T
  BY <1>1, <1>2, SetInduction
<1> QED BY <1>3

-----------------------------------------------------------------------------
(* Numerals.                                                               *)

(* Dividing twice.                                                         *)
LEMMA TwoDivisions ==
    ASSUME NEW n \in Nat, NEW q \in Nat \ {0}, NEW R \in Nat \ {0}
    PROVE  n \div (R * q) = (n \div q) \div R
<1> DEFINE a == n \div q
           r == n % q
           b == a \div R
           c == a % R
           x == q * c + r
<1>1. n = q * a + r /\ a \in Nat /\ r \in 0 .. q - 1
  BY Division
<1> HIDE DEF a, r
<1>2. a = R * b + c /\ b \in Nat /\ c \in 0 .. R - 1
  BY <1>1, Division
<1> HIDE DEF b, c
<1>3. q * c <= q * (R - 1)
  BY <1>2
<1>4. q * (R - 1) = R * q - q
  OBVIOUS
<1>5. x \in Nat /\ x < R * q
  BY <1>1, <1>2, <1>3, <1>4
<1>6. n = (R * q) * b + x
  <2>1. q * (R * b + c) = (R * q) * b + q * c
    BY <1>2
  <2> QED
    BY <1>1, <1>2, <2>1
<1> HIDE DEF x
<1>7. R * q \in Nat \ {0}
  OBVIOUS
<1>8. n \div (R * q) = b
  BY <1>2, <1>5, <1>6, <1>7, DivisionUnique
<1> QED
  BY <1>8 DEF a, b

Powers(R, w, p) ==
    /\ p[0] = 1
    /\ \A k \in 0 .. w : p[k] \in Nat \ {0}
    /\ \A k \in 0 .. w - 1 : p[k + 1] = R * p[k]

(* A number is told by its digits, if there is room for all of them.       *)
LEMMA DigitsTell ==
    ASSUME NEW R \in Nat \ {0}, NEW w \in Nat, NEW p, Powers(R, w, p),
           NEW u \in Nat, NEW v \in Nat, u < p[w], v < p[w],
           \A k \in 0 .. w - 1 : (u \div p[k]) % R = (v \div p[k]) % R
    PROVE  u = v
<1> DEFINE T == {k \in Nat : k <= w => u \div p[w - k] = v \div p[w - k]}
<1>1. 0 \in T
  <2>1. p[w] \in Nat \ {0}
    BY DEF Powers
  <2> DEFINE q == p[w]
  <2> HIDE DEF q
  <2>2. \A n \in Nat : n < q => n = q * 0 + n
    BY <2>1 DEF q
  <2>3. \A n \in Nat : n < q => n \div q = 0
    BY <2>1, <2>2, DivisionUnique DEF q
  <2>4. u \div q = v \div q
    BY <2>3 DEF q
  <2>5. w - 0 = w
    OBVIOUS
  <2> QED
    BY <2>4, <2>5 DEF q
<1>2. ASSUME NEW k \in Nat, k \in T PROVE k + 1 \in T
  <2> SUFFICES ASSUME k + 1 <= w PROVE u \div p[w - (k + 1)] = v \div p[w - (k + 1)]
    OBVIOUS
  <2> DEFINE m == w - (k + 1)
             q == p[m]
             x == u \div q
             y == v \div q
  <2>1. m \in 0 .. w - 1 /\ m + 1 = w - k /\ m \in 0 .. w
    OBVIOUS
  <2>2. u \div p[m + 1] = v \div p[m + 1]
    BY <1>2, <2>1
  <2> HIDE DEF m
  <2>3. p[m + 1] = R * q /\ q \in Nat \ {0}
    BY <2>1 DEF Powers
  <2>4. x % R = y % R
    BY <2>1
  <2> HIDE DEF q
  <2>5. u \div (R * q) = x \div R /\ v \div (R * q) = y \div R
    BY <2>3, TwoDivisions
  <2>6. x \div R = y \div R
    BY <2>2, <2>3, <2>5
  <2>7. x \in Nat /\ y \in Nat
    BY <2>3, Division
  <2> HIDE DEF x, y
  <2>8. x = R * (x \div R) + (x % R) /\ y = R * (y \div R) + (y % R)
    BY <2>7, Division
  <2>9. x = y
    BY <2>4, <2>6, <2>8
  <2> QED
    BY <2>9 DEF x, y, q, m
<1>3. Nat \subseteq T
  BY <1>1, <1>2, SetInduction
<1>4. w \in T
  BY <1>3
<1>5. u \div p[0] = v \div p[0]
  BY <1>4
<1>6. p[0] = 1
  BY DEF Powers
<1> QED
  BY <1>5, <1>6

-----------------------------------------------------------------------------
(* Strings: sequences of whatever elements.                                *)
IsString(s) == Len(s) \in Nat /\ s = [i \in 1 .. Len(s) |-> s[i]]

(* A function on 1 .. n is a string of length n.                           *)
LEMMA MakeString ==
    ASSUME NEW n \in Nat, NEW f, f = [i \in 1 .. n |-> f[i]]
    PROVE  IsString(f) /\ Len(f) = n
<1> DEFINE S == {f[i] : i \in 1 .. n}
<1>1. f \in Seq(S)
  OBVIOUS
<1>2. Len(f) = n
  BY <1>1
<1> QED
  BY <1>2 DEF IsString

(* A string is a sequence over any set that holds its elements.            *)
LEMMA StringType ==
    ASSUME NEW s, IsString(s), NEW S, \A i \in 1 .. Len(s) : s[i] \in S
    PROVE  s \in Seq(S)
<1> DEFINE n == Len(s)
<1>1. n \in Nat /\ s = [i \in 1 .. n |-> s[i]]
  BY DEF IsString
<1> HIDE DEF n
<1>2. [i \in 1 .. n |-> s[i]] \in [1 .. n -> S]
  BY DEF n
<1>3. s \in [1 .. n -> S]
  BY <1>1, <1>2
<1> QED
  BY <1>1, <1>3

(* Strings with the same elements are the same.                            *)
LEMMA StringEqual ==
    ASSUME NEW s, NEW t, IsString(s), IsString(t), Len(s) = Len(t),
           \A i \in 1 .. Len(s) : s[i] = t[i]
    PROVE  s = t
BY DEF IsString

(* Joined strings.                                                         *)
Joins(j, s, t) ==
    /\ IsString(j) /\ Len(j) = Len(s) + Len(t)
    /\ \A i \in 1 .. Len(s) : j[i] = s[i]
    /\ \A i \in 1 .. Len(t) : j[Len(s) + i] = t[i]

(* Joining two strings keeps both.                                           *)
LEMMA JoinedStrings ==
    ASSUME NEW s, NEW t, IsString(s), IsString(t)
    PROVE  Joins(s \o t, s, t)
<1> DEFINE S == {s[i] : i \in 1 .. Len(s)} \cup {t[i] : i \in 1 .. Len(t)}
<1>1. (\A i \in 1 .. Len(s) : s[i] \in S) /\ (\A i \in 1 .. Len(t) : t[i] \in S)
  OBVIOUS
<1> HIDE DEF S
<1>2. s \in Seq(S) /\ t \in Seq(S)
  BY <1>1, StringType
<1> DEFINE j == s \o t
<1>3. /\ j \in Seq(S) /\ Len(j) = Len(s) + Len(t)
      /\ \A i \in 1 .. Len(s) : j[i] = s[i]
      /\ \A i \in 1 .. Len(t) : j[Len(s) + i] = t[i]
  BY <1>2, Joined
<1> HIDE DEF j
<1>4. IsString(j)
  BY <1>3 DEF IsString
<1> QED
  BY <1>3, <1>4 DEF j, Joins

(* Where the first parts, or the last, are of one length, joining is one   *)
(* to one.                                                                 *)
LEMMA JoinTells ==
    ASSUME NEW x, NEW a, NEW b, NEW c, NEW d, Joins(x, a, b), Joins(x, c, d),
           IsString(a), IsString(b), IsString(c), IsString(d),
           Len(a) = Len(c) \/ Len(b) = Len(d)
    PROVE  a = c /\ b = d
<1>1. Len(a) \in Nat /\ Len(b) \in Nat /\ Len(c) \in Nat /\ Len(d) \in Nat
  BY DEF IsString
<1>2. Len(a) = Len(c) /\ Len(b) = Len(d)
  BY <1>1 DEF Joins
<1>3. \A i \in 1 .. Len(a) : a[i] = c[i]
  BY <1>2 DEF Joins
<1>4. \A i \in 1 .. Len(b) : b[i] = d[i]
  BY <1>2 DEF Joins
<1>5. a = c
  BY <1>2, <1>3, StringEqual
<1>6. b = d
  BY <1>2, <1>4, StringEqual
<1> QED
  BY <1>5, <1>6

(* The same for three parts.                                               *)
LEMMA ThreeTell ==
    ASSUME NEW u, NEW v, NEW z,
           NEW g, NEW x, NEW e, IsString(g), IsString(x), IsString(e),
           NEW h, NEW y, NEW f, IsString(h), IsString(y), IsString(f),
           Joins(u, g, x), Joins(z, u, e), Joins(v, h, y), Joins(z, v, f),
           Len(g) = Len(h), Len(x) = Len(y) \/ Len(e) = Len(f)
    PROVE  g = h /\ x = y /\ e = f
<1>1. IsString(u) /\ IsString(v)
  BY DEF Joins
<1>2. Len(u) = Len(v) \/ Len(e) = Len(f)
  BY DEF Joins
<1>3. u = v /\ e = f
  BY <1>1, <1>2, JoinTells
<1>4. g = h /\ x = y
  BY <1>3, JoinTells
<1> QED
  BY <1>3, <1>4
=============================================================================
