---------------------------- MODULE Aead_proofs ----------------------------
(***************************************************************************)
(* The calls of Aead are safe for every memory, every set of requests and  *)
(* every layout of the buffers.  Four results, in the order of the file:   *)
(*                                                                         *)
(*   SealedOpens       what was sealed opens to what it was;               *)
(*   CallsConfined     no call writes outside OUTPUT and TAG;              *)
(*   KeystreamServesOnce   no input of a block function serves twice;      *)
(*   OpenedWasSealedOrNothing   what opens was sealed, and a call that     *)
(*                     fails leaves zeros.                                 *)
(*                                                                         *)
(* The invariant is AInv.  It says that the record of the last call        *)
(* answers to what its buffers held (CallOk), that every entry of the      *)
(* history is what the code computes (SealOk), and that every byte of a    *)
(* tag in the memory came from an entry (Clean), so that a tag that opens  *)
(* names the entry it was made for.  The rest is injectivity: numerals,    *)
(* padding, counter blocks, and what is authenticated.                     *)
(***************************************************************************)
EXTENDS Aead, ProofLemmas

-----------------------------------------------------------------------------
(* The formats: what is put together can be taken apart in one way only.   *)

(* A digit is told by its unknown.                                         *)
LEMMA DigitTells ==
    ASSUME NEW d, NEW e, Digit(d) = Digit(e)
    PROVE  d = e
<1>1. \A x : {} # {x}
  OBVIOUS
<1>2. CASE d = 0 /\ e # 0
  BY <1>2, <1>1 DEF Digit
<1>3. CASE d # 0 /\ e = 0
  BY <1>3, <1>1 DEF Digit
<1>4. CASE d # 0 /\ e # 0
  <2>1. <<"digit", d>> \in {<<"digit", e>>}
    BY <1>4 DEF Digit
  <2>2. <<"digit", d>> = <<"digit", e>>
    BY <2>1
  <2> QED
    BY <2>2
<1> QED
  BY <1>2, <1>3, <1>4

(* Widths of the length fields, and the powers they are made of.           *)
Widths == {2, LenWidth, LongWidth, CcmRoom}

(* The powers of a width that is in use.                                   *)
LEMMA WidthPowers ==
    ASSUME NEW W \in Widths, NEW w \in 0 .. W
    PROVE  /\ w \in Nat /\ W \in Nat /\ Radix \in Nat \ {0}
           /\ Powers(Radix, w, [k \in 0 .. w |-> Radix^k])
           /\ \A k \in 0 .. w : Radix^k \in Nat \ {0}
<1>1. W \in Nat /\ Radix \in Nat \ {0}
  BY ModeConstants DEF Widths
<1>2. /\ Radix^0 = 1
      /\ \A k \in 0 .. W : /\ Radix^k \in Nat \ {0}
                           /\ k < W => Radix^(k + 1) = Radix * Radix^k
  BY PowersOfRadix DEF Widths
<1>3. w \in Nat /\ \A k \in 0 .. w : k \in 0 .. W /\ k \in 0 .. w
  BY <1>1
<1> DEFINE p == [k \in 0 .. w |-> Radix^k]
<1>4. p[0] = 1
  BY <1>2, <1>3
<1>5. \A k \in 0 .. w : p[k] \in Nat \ {0}
  BY <1>2, <1>3
<1>6. ASSUME NEW k \in 0 .. w - 1 PROVE p[k + 1] = Radix * p[k]
  <2>1. k \in 0 .. W /\ k < W /\ k \in 0 .. w /\ k + 1 \in 0 .. w
    BY <1>1
  <2> QED
    BY <1>2, <2>1
<1> HIDE DEF p
<1>7. Powers(Radix, w, p)
  BY <1>4, <1>5, <1>6 DEF Powers
<1> QED
  BY <1>1, <1>2, <1>3, <1>7 DEF p

(* A number in a field.                                                    *)
LEMMA EncodeString ==
    ASSUME NEW w \in Nat, NEW v
    PROVE  /\ IsString(Encode(w, v)) /\ Len(Encode(w, v)) = w
           /\ \A i \in 1 .. w : Encode(w, v)[i] = Digit((v \div Radix^(w - i)) % Radix)
<1> DEFINE f == Encode(w, v)
<1>1. f = [i \in 1 .. w |-> f[i]]
  BY DEF Encode
<1>2. \A i \in 1 .. w : f[i] = Digit((v \div Radix^(w - i)) % Radix)
  BY DEF Encode
<1> HIDE DEF f
<1>3. IsString(f) /\ Len(f) = w
  BY <1>1, MakeString
<1> QED
  BY <1>2, <1>3 DEF f

(* A number that fits its field is told by it.                             *)
LEMMA EncodeTells ==
    ASSUME NEW W \in Widths, NEW w \in 0 .. W, NEW u \in Nat, NEW v \in Nat,
           u < Radix^w, v < Radix^w, Encode(w, u) = Encode(w, v)
    PROVE  u = v
<1> DEFINE p == [k \in 0 .. w |-> Radix^k]
<1>1. w \in Nat /\ Radix \in Nat \ {0} /\ Powers(Radix, w, p)
  BY WidthPowers
<1>2. \A k \in 0 .. w : p[k] = Radix^k
  OBVIOUS
<1> HIDE DEF p
<1>3. ASSUME NEW k \in 0 .. w - 1
      PROVE  (u \div p[k]) % Radix = (v \div p[k]) % Radix
  <2> DEFINE i == w - k
  <2>1. i \in 1 .. w /\ w - i = k /\ k \in 0 .. w
    BY <1>1
  <2>2. Encode(w, u)[i] = Encode(w, v)[i]
    OBVIOUS
  <2> HIDE DEF i
  <2>3. Digit((u \div Radix^(w - i)) % Radix) = Digit((v \div Radix^(w - i)) % Radix)
    <3>1. \A z : Encode(w, z)[i] = Digit((z \div Radix^(w - i)) % Radix)
      BY <1>1, <2>1, EncodeString
    <3>2. /\ Encode(w, u)[i] = Digit((u \div Radix^(w - i)) % Radix)
          /\ Encode(w, v)[i] = Digit((v \div Radix^(w - i)) % Radix)
      BY <3>1, Zenon
    <3> QED
      BY <2>2, <3>2, Zenon
  <2>4. (u \div Radix^k) % Radix = (v \div Radix^k) % Radix
    BY <2>1, <2>3, DigitTells
  <2> QED
    BY <1>2, <2>1, <2>4
<1>4. u < p[w] /\ v < p[w]
  BY <1>1, <1>2
<1> QED
  BY <1>1, <1>3, <1>4, DigitsTell

(* Whole blocks that hold n bytes.                                         *)
LEMMA BlocksHold ==
    ASSUME NEW n \in Nat
    PROVE  /\ Blocks(n) \in Nat /\ BlockLen * Blocks(n) \in Nat
           /\ n <= BlockLen * Blocks(n)
           /\ \A k \in Nat : n <= k * BlockLen => Blocks(n) <= k
           /\ Blocks(n) <= n
<1> DEFINE B == BlockLen
           m == n + BlockLen - 1
           q == m \div B
           r == m % B
<1>1. B \in Nat \ {0} /\ m \in Nat /\ m = n + B - 1
  BY ModeConstants
<1> HIDE DEF B, m
<1>2. m = B * q + r /\ q \in Nat /\ r \in 0 .. B - 1
  BY <1>1, Division
<1>3. \A k \in Nat : k <= q <=> B * k <= m
  BY <1>1, QuotientBound
<1> HIDE DEF q, r
<1>4. n <= B * q
  BY <1>1, <1>2
<1>5. ASSUME NEW k \in Nat, n <= k * B PROVE q <= k
  <2>1. B * (k + 1) = k * B + B
    BY <1>1
  <2>2. k * B \in Nat
    BY <1>1
  <2>3. ~ (B * (k + 1) <= m)
    BY <1>1, <1>5, <2>1, <2>2
  <2>4. ~ (k + 1 <= q)
    BY <1>3, <2>3
  <2> QED
    BY <1>2, <2>4
<1>6. n <= n * B
  BY <1>1
<1>7. q <= n
  BY <1>5, <1>6
<1>8. Blocks(n) = q
  BY DEF Blocks, q, m, B
<1>9. B * q \in Nat
  BY <1>1, <1>2
<1> QED
  BY <1>2, <1>4, <1>5, <1>7, <1>8, <1>9 DEF B

(* A padded string.                                                        *)
LEMMA PadString ==
    ASSUME NEW x, IsString(x)
    PROVE  /\ IsString(Pad(x)) /\ Len(Pad(x)) = BlockLen * Blocks(Len(x))
           /\ \A i \in 1 .. Len(x) : Pad(x)[i] = x[i]
<1> DEFINE n == Len(x)
           b == BlockLen * Blocks(n)
           f == Pad(x)
<1>1. n \in Nat
  BY DEF IsString
<1>2. b \in Nat /\ n <= b
  BY <1>1, BlocksHold
<1>3. f = [i \in 1 .. b |-> IF i <= n THEN x[i] ELSE {}]
  BY DEF Pad
<1> HIDE DEF b, f, n
<1>4. f = [i \in 1 .. b |-> f[i]] /\ \A i \in 1 .. n : f[i] = x[i]
  BY <1>1, <1>2, <1>3
<1>5. IsString(f) /\ Len(f) = b
  BY <1>2, <1>4, MakeString
<1> QED
  BY <1>4, <1>5 DEF b, f, n

(* A string of known length is told by what it is padded to.               *)
LEMMA PadTells ==
    ASSUME NEW x, NEW y, IsString(x), IsString(y), Len(x) = Len(y), Pad(x) = Pad(y)
    PROVE  x = y
<1>1. \A i \in 1 .. Len(x) : x[i] = y[i]
  BY PadString
<1> QED
  BY <1>1, StringEqual

(* A string of one.                                                        *)
LEMMA One ==
    ASSUME NEW d
    PROVE  IsString(<<d>>) /\ Len(<<d>>) = 1 /\ <<d>>[1] = d
BY DEF IsString

(* A byte, a string and a field, one after the other.                      *)
Headed(s, d, x, e) ==
    /\ IsString(s) /\ Len(s) = 1 + Len(x) + Len(e) /\ s[1] = d
    /\ \A i \in 1 .. Len(x) : s[1 + i] = x[i]

Assembled(s, d, x, e) == s = <<d>> \o x \o e

(* An assembled string begins with its byte and its string.                *)
LEMMA HeadedString ==
    ASSUME NEW s, NEW d, NEW x, NEW e, IsString(x), IsString(e), Assembled(s, d, x, e)
    PROVE  Headed(s, d, x, e)
<1>1. PICK h : h = <<d>>
  OBVIOUS
<1>2. IsString(h) /\ Len(h) = 1 /\ h[1] = d
  BY <1>1, One
<1>3. PICK f : f = h \o x
  OBVIOUS
<1>4. Joins(f, h, x)
  BY <1>2, <1>3, JoinedStrings
<1>5. s = f \o e
  BY <1>1, <1>3 DEF Assembled
<1>6. IsString(f)
  BY <1>4 DEF Joins
<1>7. Joins(s, f, e)
  BY <1>5, <1>6, JoinedStrings
<1>8. Len(x) \in Nat /\ Len(e) \in Nat
  BY DEF IsString
<1> QED
  BY <1>2, <1>4, <1>7, <1>8 DEF Joins, Headed

(* Assembling is one to one, at given lengths.                             *)
LEMMA HeadedTells ==
    ASSUME NEW s, NEW d, NEW x, NEW e, IsString(x), IsString(e), Assembled(s, d, x, e),
           NEW b, NEW y, NEW f, IsString(y), IsString(f), Assembled(s, b, y, f)
    PROVE  /\ d = b
           /\ Len(x) = Len(y) \/ Len(e) = Len(f) => x = y /\ e = f
<1>1. d = b
  BY HeadedString DEF Headed
<1>2. ASSUME Len(x) = Len(y) \/ Len(e) = Len(f) PROVE x = y /\ e = f
  <2>1. PICK g : g = <<d>>
    OBVIOUS
  <2>2. PICK h : h = <<b>>
    OBVIOUS
  <2>3. IsString(g) /\ IsString(h) /\ Len(g) = Len(h)
    BY <2>1, <2>2, One
  <2>4. PICK u : u = g \o x
    OBVIOUS
  <2>5. PICK v : v = h \o y
    OBVIOUS
  <2>6. s = u \o e
    BY <2>1, <2>4 DEF Assembled
  <2>7. s = v \o f
    BY <2>2, <2>5 DEF Assembled
  <2>8. Joins(u, g, x)
    BY <2>3, <2>4, JoinedStrings
  <2>9. Joins(v, h, y)
    BY <2>3, <2>5, JoinedStrings
  <2>10. IsString(u) /\ IsString(v)
    BY <2>8, <2>9 DEF Joins
  <2>11. Joins(s, u, e)
    BY <2>6, <2>10, JoinedStrings
  <2>12. Joins(s, v, f)
    BY <2>7, <2>10, JoinedStrings
  <2> QED
    BY <1>2, <2>3, <2>8, <2>9, <2>11, <2>12, ThreeTell
<1> QED
  BY <1>1, <1>2

(* Pairs.                                                                  *)
LEMMA PairTells ==
    ASSUME NEW p, NEW q, NEW r, NEW s, <<p, q>> = <<r, s>>
    PROVE  p = r /\ q = s
OBVIOUS

-----------------------------------------------------------------------------
(* Nonces: of a length the mode allows, and no byte of it starts a hash.   *)
NonceOk(a, x) ==
    /\ IsString(x) /\ Len(x) \in NonceLens[a] /\ Len(x) < Radix^LenWidth
    /\ \A i \in 1 .. Len(x) : <<"hashed", 0>> \notin x[i]

(* Facts about the length of a nonce.                                      *)
LEMMA NonceLength ==
    ASSUME NEW a \in Algs, NEW x, NonceOk(a, x)
    PROVE  /\ IsString(x) /\ Len(x) \in Nat \ {0}
           /\ Family[a] = "CCM" => /\ CcmQ(x) \in 1 .. 8 /\ CcmQ(x) \in 0 .. CcmRoom
                                   /\ CcmQ(x) + Len(x) = CcmRoom
<1>1. IsString(x) /\ Len(x) \in Nat \ {0} /\ Len(x) \in NonceLens[a]
  BY ModeConstants DEF NonceOk
<1>2. ASSUME Family[a] = "CCM"
      PROVE  CcmQ(x) \in 1 .. 8 /\ CcmQ(x) \in 0 .. CcmRoom /\ CcmQ(x) + Len(x) = CcmRoom
  <2>1. Len(x) < CcmRoom /\ CcmRoom <= Len(x) + 8 /\ CcmRoom \in Nat
    BY <1>1, <1>2, ModeConstants
  <2> QED
    BY <1>1, <2>1 DEF CcmQ
<1> QED
  BY <1>1, <1>2

(* The length of a GCM nonce fits its field.                               *)
LEMMA LengthTells ==
    ASSUME NEW u \in Nat, NEW v \in Nat, u < Radix^LenWidth, v < Radix^LenWidth,
           Encode(LenWidth, u) = Encode(LenWidth, v)
    PROVE  u = v
<1>1. LenWidth \in Widths /\ LenWidth \in 0 .. LenWidth
  BY ModeConstants DEF Widths
<1> QED
  BY <1>1, EncodeTells

(* Two GCM nonces start from two counter blocks.                           *)
LEMMA GcmStartTells ==
    ASSUME NEW a \in Algs, NEW x, NonceOk(a, x), NEW y, NonceOk(a, y),
           GcmStart(x)[1] = GcmStart(y)[1]
    PROVE  x = y
<1> DEFINE h == {<<"hashed", 0>>}
<1>1. /\ IsString(x) /\ Len(x) \in Nat \ {0} /\ IsString(Pad(x))
      /\ IsString(y) /\ Len(y) \in Nat \ {0} /\ IsString(Pad(y))
  BY NonceLength, PadString
<1>2. LenWidth \in Nat
  BY ModeConstants
<1>3. PICK e : e = Encode(LenWidth, Len(x))
  OBVIOUS
<1>4. PICK f : f = Encode(LenWidth, Len(y))
  OBVIOUS
<1>5. IsString(e) /\ IsString(f) /\ Len(e) = Len(f)
  BY <1>2, <1>3, <1>4, EncodeString
<1> DEFINE s == GcmStart(x)[1]
           t == GcmStart(y)[1]
<1>6. /\ Len(x) = DirectLen => s = x
      /\ Len(x) # DirectLen => Assembled(s, h, Pad(x), e)
      /\ Len(y) = DirectLen => t = y
      /\ Len(y) # DirectLen => Assembled(t, h, Pad(y), f)
  BY <1>3, <1>4 DEF GcmStart, Assembled
<1> s = t
  OBVIOUS
<1> HIDE DEF s, t
<1>7. /\ Len(x) # DirectLen => s[1] = h
      /\ Len(y) # DirectLen => t[1] = h
  BY <1>1, <1>5, <1>6, HeadedString DEF Headed
<1>8. 1 \in 1 .. Len(x) /\ 1 \in 1 .. Len(y)
  BY <1>1
<1>9. x[1] # h /\ y[1] # h
  BY <1>8 DEF NonceOk
<1> HIDE DEF h
<1>10. CASE Len(x) = DirectLen
  <2>1. Len(y) = DirectLen
    BY <1>6, <1>7, <1>9, <1>10
  <2> QED
    BY <1>6, <1>10, <2>1
<1>11. CASE Len(x) # DirectLen
  <2>1. Len(y) # DirectLen
    BY <1>6, <1>7, <1>9, <1>11
  <2>2. Assembled(s, h, Pad(x), e) /\ Assembled(s, h, Pad(y), f)
    BY <1>6, <1>11, <2>1
  <2>3. Pad(x) = Pad(y) /\ e = f
    BY <1>1, <1>5, <2>2, HeadedTells
  <2>4. Len(x) = Len(y)
    BY <1>1, <1>3, <1>4, <2>3, LengthTells DEF NonceOk
  <2> QED
    BY <1>1, <2>3, <2>4, PadTells
<1> QED
  BY <1>10, <1>11

-----------------------------------------------------------------------------
(* Places of a counter that does not come round.                           *)
PlaceOk(a, x, i) ==
    /\ i \in Nat
    /\ Family[a] = "GCM" => i <= CtrMod[a] - 2
    /\ Family[a] = "CCM" => i <= Radix^CcmQ(x) - 1
    /\ Family[a] = "CHACHA" => i <= CtrMod[a] - 1

(* Two blocks of CCM: the first byte, the nonce and a number.              *)
LEMMA CcmBlockTells ==
    ASSUME NEW a \in Algs, Family[a] = "CCM", NEW x, NonceOk(a, x), NEW y, NonceOk(a, y),
           NEW b, NEW c, b = c => Len(x) = Len(y),
           NEW i \in Nat, NEW j \in Nat, i < Radix^CcmQ(x), j < Radix^CcmQ(y),
           NEW s, Assembled(s, b, x, Encode(CcmQ(x), i)), Assembled(s, c, y, Encode(CcmQ(y), j))
    PROVE  b = c /\ x = y /\ i = j
<1>1. /\ IsString(x) /\ CcmQ(x) \in 0 .. CcmRoom /\ CcmQ(x) \in Nat
      /\ IsString(y) /\ CcmQ(y) \in 0 .. CcmRoom /\ CcmQ(y) \in Nat
  BY NonceLength
<1>2. PICK e : e = Encode(CcmQ(x), i)
  OBVIOUS
<1>3. PICK f : f = Encode(CcmQ(y), j)
  OBVIOUS
<1>4. IsString(e) /\ IsString(f)
  BY <1>1, <1>2, <1>3, EncodeString
<1>5. Assembled(s, b, x, e) /\ Assembled(s, c, y, f)
  BY <1>2, <1>3
<1>6. b = c /\ x = y /\ e = f
  BY <1>1, <1>4, <1>5, HeadedTells
<1>7. Encode(CcmQ(x), i) = Encode(CcmQ(x), j)
  BY <1>2, <1>3, <1>6
<1>8. CcmRoom \in Widths
  BY DEF Widths
<1>9. j < Radix^CcmQ(x)
  BY <1>6
<1>10. i = j
  BY <1>1, <1>7, <1>8, <1>9, EncodeTells
<1> QED
  BY <1>6, <1>10

(* No counter block serves two places of a nonce, or two nonces.           *)
LEMMA CounterTells ==
    ASSUME NEW a \in Algs, NEW x, NonceOk(a, x), NEW y, NonceOk(a, y),
           NEW i, PlaceOk(a, x, i), NEW j, PlaceOk(a, y, j),
           Counter(a, x, i) = Counter(a, y, j)
    PROVE  x = y /\ i = j
<1>1. /\ CtrMod[a] \in Nat \ {0, 1} /\ i \in Nat /\ j \in Nat
      /\ Family[a] \in {"GCM", "CCM", "CHACHA"}
  BY ModeConstants DEF PlaceOk
<1> DEFINE M == CtrMod[a]
<1>2. \A n \in Nat : n < M => n % M = n
  BY <1>1, SmallRest
<1>3. CASE Family[a] = "GCM"
  <2>1. /\ Counter(a, x, i) = <<GcmStart(x)[1], (GcmStart(x)[2] + i) % M>>
        /\ Counter(a, y, j) = <<GcmStart(y)[1], (GcmStart(y)[2] + j) % M>>
    BY <1>3 DEF Counter
  <2>2. /\ GcmStart(x)[1] = GcmStart(y)[1]
        /\ (GcmStart(x)[2] + i) % M = (GcmStart(y)[2] + j) % M
    <3>1. PICK p : p = GcmStart(x)[1]
      OBVIOUS
    <3>2. PICK q : q = (GcmStart(x)[2] + i) % M
      OBVIOUS
    <3>3. PICK r : r = GcmStart(y)[1]
      OBVIOUS
    <3>4. PICK s : s = (GcmStart(y)[2] + j) % M
      OBVIOUS
    <3>5. <<p, q>> = <<r, s>>
      <4>1. Counter(a, x, i) = <<p, q>>
        BY <2>1, <3>1, <3>2
      <4>2. Counter(a, y, j) = <<r, s>>
        BY <2>1, <3>3, <3>4
      <4> QED
        BY <4>1, <4>2
    <3>6. p = r /\ q = s
      BY <3>5, PairTells
    <3> QED
      BY <3>1, <3>2, <3>3, <3>4, <3>6
  <2>3. x = y
    BY <2>2, GcmStartTells
  <2>4. GcmStart(x)[2] \in {0, 1}
    BY DEF GcmStart
  <2>5. PICK s \in {0, 1} : s = GcmStart(x)[2]
    BY <2>4
  <2>6. (s + i) % M = (s + j) % M
    BY <2>2, <2>3, <2>5
  <2>7. s + i \in Nat /\ s + i < M /\ s + j \in Nat /\ s + j < M
    BY <1>1, <1>3, <2>5 DEF PlaceOk
  <2>8. s + i = s + j
    BY <1>2, <2>6, <2>7
  <2> QED
    BY <1>1, <2>3, <2>5, <2>8
<1>4. CASE Family[a] = "CHACHA"
  <2>1. Counter(a, x, i) = <<x, i % M>> /\ Counter(a, y, j) = <<y, j % M>>
    BY <1>4 DEF Counter
  <2>2. x = y /\ i % M = j % M
    BY <2>1, PairTells, Zenon
  <2>3. i < M /\ j < M
    BY <1>1, <1>4 DEF PlaceOk
  <2> QED
    BY <1>1, <1>2, <2>2, <2>3
<1>5. CASE Family[a] = "CCM"
  <2>1. /\ Counter(a, x, i) = <<Digit(CcmQ(x) - 1)>> \o x \o Encode(CcmQ(x), i)
        /\ Counter(a, y, j) = <<Digit(CcmQ(y) - 1)>> \o y \o Encode(CcmQ(y), j)
    BY <1>5 DEF Counter, CcmBlock
  <2>2. PICK b : b = Digit(CcmQ(x) - 1)
    OBVIOUS
  <2>3. PICK c : c = Digit(CcmQ(y) - 1)
    OBVIOUS
  <2>4. /\ Len(x) \in Nat /\ Len(y) \in Nat /\ CcmQ(x) \in 1 .. 8 /\ CcmQ(y) \in 1 .. 8
        /\ CcmQ(x) + Len(x) = CcmRoom /\ CcmQ(y) + Len(y) = CcmRoom
    BY <1>5, NonceLength
  <2>5. b = c => Len(x) = Len(y)
    <3>1. SUFFICES ASSUME b = c PROVE Len(x) = Len(y)
      OBVIOUS
    <3>2. CcmQ(x) - 1 = CcmQ(y) - 1
      BY <2>2, <2>3, <3>1, DigitTells
    <3> QED
      BY SMTT(20), <2>4, <3>2
  <2>6. i < Radix^CcmQ(x) /\ j < Radix^CcmQ(y)
    <3>1. Radix^CcmQ(x) \in Nat \ {0} /\ Radix^CcmQ(y) \in Nat \ {0}
      <4>1. CcmRoom \in Widths /\ CcmQ(x) \in 0 .. CcmRoom /\ CcmQ(y) \in 0 .. CcmRoom
        BY <1>5, NonceLength DEF Widths
      <4>2. ASSUME NEW w \in 0 .. CcmRoom PROVE Radix^w \in Nat \ {0}
        <5>1. w \in Nat /\ \A k \in 0 .. w : Radix^k \in Nat \ {0}
          BY <4>1, WidthPowers
        <5>2. w \in 0 .. w
          BY <5>1
        <5> QED
          BY <5>1, <5>2
      <4> QED
        BY <4>1, <4>2
    <3> QED
      BY <1>1, <1>5, <3>1 DEF PlaceOk
  <2>7. PICK s : s = Counter(a, x, i)
    OBVIOUS
  <2>8. /\ Assembled(s, b, x, Encode(CcmQ(x), i))
        /\ Assembled(s, c, y, Encode(CcmQ(y), j))
    BY <2>1, <2>2, <2>3, <2>7 DEF Assembled
  <2> QED
    BY <1>1, <1>5, <2>5, <2>6, <2>8, CcmBlockTells
<1> QED
  BY <1>1, <1>3, <1>4, <1>5

-----------------------------------------------------------------------------
(* The memory, and what an accepted call may assume of its buffers.        *)

(* Every address holds a byte.                                             *)
IsMemory(m) == m = [a \in Memory |-> m[a]]

Apart(a, an, b, bn) == Span(a, an) \cap Span(b, bn) = {}

Inside(a, an) == a \in Nat /\ an \in Nat /\ Span(a, an) \subseteq Memory

(* The arguments of a call that got past the checks of the wrapper.        *)
Buffers(r) ==
    /\ r.alg \in Algs /\ r.nn \in NonceLens[r.alg] /\ r.t \in TagLens[r.alg]
    /\ \A n \in {r.n, r.an, r.nn, r.t} : n \in Nat /\ n < Radix^LenWidth
    /\ Inside(r.out, r.n) /\ Inside(r.in, r.n) /\ Inside(r.tag, r.t)
    /\ Inside(r.key, r.kn) /\ Inside(r.nonce, r.nn) /\ Inside(r.aad, r.an)
    /\ r.out = r.in \/ Apart(r.out, r.n, r.in, r.n)
    /\ Apart(r.out, r.n, r.tag, r.t) /\ Apart(r.tag, r.t, r.in, r.n)
    /\ Apart(r.out, r.n, r.key, r.kn) /\ Apart(r.tag, r.t, r.key, r.kn)
    /\ Apart(r.out, r.n, r.nonce, r.nn) /\ Apart(r.tag, r.t, r.nonce, r.nn)
    /\ Apart(r.out, r.n, r.aad, r.an) /\ Apart(r.tag, r.t, r.aad, r.an)

(* The test of the code finds every shared address.                        *)
LEMMA OverlapTells ==
    ASSUME NEW a \in Nat, NEW an \in Nat, NEW b \in Nat, NEW bn \in Nat,
           ~ Overlap(a, an, b, bn)
    PROVE  Apart(a, an, b, bn)
BY DEF Overlap, Apart, Span

(* A buffer that is there, or of no length, lies inside the memory.        *)
LEMMA OwnedInside ==
    ASSUME NEW a \in Nat, NEW n \in Nat, a # NULL => a .. a + n - 1 \subseteq Memory,
           n = 0 \/ a # NULL
    PROVE  Inside(a, n)
<1>1. CASE n = 0
  <2>1. a .. (a + n - 1) = {}
    BY <1>1
  <2> QED
    BY <2>1 DEF Inside, Span
<1>2. CASE a # NULL
  BY <1>2 DEF Inside, Span
<1> QED
  BY <1>1, <1>2

(* What the checks of the wrapper establish.                               *)
LEMMA AcceptedBuffers ==
    ASSUME NEW r \in Requests, NEW op, Refusal(op, r) = "SUCCESS"
    PROVE  Buffers(r) /\ r.kn \in Nat
<1>1. /\ r.alg \in Algs /\ ~ NullMissing(r)
      /\ r.nn \in NonceLens[r.alg] /\ r.t \in TagLens[r.alg] /\ ~ Aliased(r)
  BY DEF Refusal
<1>2. /\ r.tag # NULL /\ r.key # NULL /\ r.nonce # NULL
      /\ r.n = 0 \/ (r.in # NULL /\ r.out # NULL)
      /\ r.an = 0 \/ r.aad # NULL
  BY <1>1 DEF NullMissing
<1>3. LenWidth \in Widths /\ LenWidth \in 0 .. LenWidth
  BY ModeConstants DEF Widths
<1>4. Radix^LenWidth \in Nat
  BY <1>3, WidthPowers
<1>5. /\ r.out \in Nat /\ r.in \in Nat /\ r.tag \in Nat /\ r.key \in Nat
      /\ r.nonce \in Nat /\ r.aad \in Nat
  BY RequestConstants
<1>6. {r.n, r.t, r.kn, r.nn, r.an} \subseteq 0 .. Radix^LenWidth - 1
  BY RequestConstants
<1>7. /\ \A n \in {r.n, r.an, r.nn, r.t} : n \in Nat /\ n < Radix^LenWidth
      /\ r.n \in Nat /\ r.t \in Nat /\ r.kn \in Nat /\ r.nn \in Nat /\ r.an \in Nat
  BY <1>4, <1>6
<1>8. /\ Inside(r.out, r.n) /\ Inside(r.in, r.n) /\ Inside(r.tag, r.t)
      /\ Inside(r.key, r.kn) /\ Inside(r.nonce, r.nn) /\ Inside(r.aad, r.an)
  <2>1. \A x \in {<<r.out, r.n>>, <<r.in, r.n>>, <<r.tag, r.t>>, <<r.key, r.kn>>,
                  <<r.nonce, r.nn>>, <<r.aad, r.an>>} :
            x[1] # NULL => x[1] .. x[1] + x[2] - 1 \subseteq Memory
    BY RequestConstants
  <2>2. /\ r.out # NULL => r.out .. r.out + r.n - 1 \subseteq Memory
        /\ r.in # NULL => r.in .. r.in + r.n - 1 \subseteq Memory
        /\ r.tag # NULL => r.tag .. r.tag + r.t - 1 \subseteq Memory
        /\ r.key # NULL => r.key .. r.key + r.kn - 1 \subseteq Memory
        /\ r.nonce # NULL => r.nonce .. r.nonce + r.nn - 1 \subseteq Memory
        /\ r.aad # NULL => r.aad .. r.aad + r.an - 1 \subseteq Memory
    BY <2>1
  <2> QED
    BY <1>2, <1>5, <1>7, <2>2, OwnedInside
<1>9. /\ r.out = r.in \/ ~ Overlap(r.out, r.n, r.in, r.n)
      /\ ~ Overlap(r.out, r.n, r.tag, r.t) /\ ~ Overlap(r.tag, r.t, r.in, r.n)
      /\ ~ Overlap(r.out, r.n, r.key, r.kn) /\ ~ Overlap(r.tag, r.t, r.key, r.kn)
      /\ ~ Overlap(r.out, r.n, r.nonce, r.nn) /\ ~ Overlap(r.tag, r.t, r.nonce, r.nn)
      /\ ~ Overlap(r.out, r.n, r.aad, r.an) /\ ~ Overlap(r.tag, r.t, r.aad, r.an)
  <2> DEFINE O(x) == ~ Overlap(r.out, r.n, x[1], x[2])
             T(x) == ~ Overlap(r.tag, r.t, x[1], x[2])
             I == {<<r.key, r.kn>>, <<r.nonce, r.nn>>, <<r.aad, r.an>>}
  <2>1. /\ r.out = r.in \/ ~ Overlap(r.out, r.n, r.in, r.n)
        /\ \A x \in I \cup {<<r.tag, r.t>>} : O(x)
        /\ \A x \in I \cup {<<r.in, r.n>>} : T(x)
    BY <1>1 DEF Aliased
  <2> HIDE DEF O, T
  <2>2. /\ O(<<r.tag, r.t>>) /\ O(<<r.key, r.kn>>) /\ O(<<r.nonce, r.nn>>)
        /\ O(<<r.aad, r.an>>)
        /\ T(<<r.in, r.n>>) /\ T(<<r.key, r.kn>>) /\ T(<<r.nonce, r.nn>>)
        /\ T(<<r.aad, r.an>>)
    BY <2>1
  <2> QED
    BY <2>1, <2>2 DEF O, T
<1>10. /\ r.out = r.in \/ Apart(r.out, r.n, r.in, r.n)
       /\ Apart(r.out, r.n, r.tag, r.t) /\ Apart(r.tag, r.t, r.in, r.n)
       /\ Apart(r.out, r.n, r.key, r.kn) /\ Apart(r.tag, r.t, r.key, r.kn)
       /\ Apart(r.out, r.n, r.nonce, r.nn) /\ Apart(r.tag, r.t, r.nonce, r.nn)
       /\ Apart(r.out, r.n, r.aad, r.an) /\ Apart(r.tag, r.t, r.aad, r.an)
  BY <1>5, <1>7, <1>9, OverlapTells
<1> QED
  BY <1>1, <1>7, <1>8, <1>10 DEF Buffers

-----------------------------------------------------------------------------
(* Slices and stores.                                                      *)

(* A slice is a string.                                                    *)
LEMMA SliceString ==
    ASSUME NEW m, NEW a, NEW n \in Nat
    PROVE  /\ IsString(Slice(m, a, n)) /\ Len(Slice(m, a, n)) = n
           /\ \A i \in 1 .. n : Slice(m, a, n)[i] = m[a + i - 1]
<1> DEFINE f == [i \in 1 .. n |-> m[a + i - 1]]
<1>1. Slice(m, a, n) = f
  BY DEF Slice
<1>2. f = [i \in 1 .. n |-> f[i]] /\ \A i \in 1 .. n : f[i] = m[a + i - 1]
  OBVIOUS
<1> HIDE DEF f
<1>3. IsString(f) /\ Len(f) = n
  BY <1>2, MakeString
<1> QED
  BY <1>1, <1>2, <1>3

(* The addresses of a slice.                                               *)
LEMMA SliceAddresses ==
    ASSUME NEW a, NEW n, Inside(a, n)
    PROVE  /\ \A i \in 1 .. n : a + i - 1 \in Span(a, n) /\ a + i - 1 \in Memory
           /\ \A x \in Span(a, n) : x - a + 1 \in 1 .. n
<1>1. a \in Nat /\ n \in Nat /\ Span(a, n) \subseteq Memory
  BY DEF Inside
<1>2. \A i \in 1 .. n : a + i - 1 \in Span(a, n)
  BY <1>1 DEF Span
<1>3. \A x \in Span(a, n) : x - a + 1 \in 1 .. n
  BY <1>1 DEF Span
<1> QED
  BY <1>1, <1>2, <1>3

(* Two memories that agree on a buffer hold the same string there.         *)
LEMMA SliceKept ==
    ASSUME NEW m, NEW k, NEW a, NEW n, Inside(a, n),
           \A x \in Span(a, n) : m[x] = k[x]
    PROVE  Slice(m, a, n) = Slice(k, a, n)
<1>1. \A i \in 1 .. n : a + i - 1 \in Span(a, n)
  BY SliceAddresses
<1>2. \A i \in 1 .. n : m[a + i - 1] = k[a + i - 1]
  BY <1>1
<1> QED
  BY <1>2 DEF Slice

(* s is m with the string x, or with zeros, in a buffer.                   *)
Stored(s, m, a, n, x) ==
    /\ IsMemory(s)
    /\ \A b \in Memory : b \notin Span(a, n) => s[b] = m[b]
    /\ \A b \in Span(a, n) : s[b] = x[b - a + 1]
    /\ Slice(s, a, n) = x

Cleared(s, m, a, n) ==
    /\ IsMemory(s)
    /\ \A b \in Memory : b \notin Span(a, n) => s[b] = m[b]
    /\ \A b \in Span(a, n) : s[b] = {}

(* What a store leaves where it writes, and elsewhere.                     *)
LEMMA StoreIs ==
    ASSUME NEW m, NEW a, NEW n, NEW x, Inside(a, n), IsString(x), Len(x) = n
    PROVE  Stored(Store(m, a, x), m, a, n, x)
<1> DEFINE s == Store(m, a, x)
<1>1. s = [b \in Memory |-> IF b \in Span(a, n) THEN x[b - a + 1] ELSE m[b]]
  BY DEF Store
<1>2. a \in Nat /\ n \in Nat /\ Span(a, n) \subseteq Memory
  BY DEF Inside
<1>3. /\ \A b \in Memory : b \notin Span(a, n) => s[b] = m[b]
      /\ \A b \in Span(a, n) : s[b] = x[b - a + 1]
      /\ s = [b \in Memory |-> s[b]]
  BY <1>1, <1>2
<1> HIDE DEF s
<1>4. Slice(s, a, n) = x
  <2>1. IsString(Slice(s, a, n)) /\ Len(Slice(s, a, n)) = n
    BY <1>2, SliceString
  <2>2. ASSUME NEW i \in 1 .. n PROVE Slice(s, a, n)[i] = x[i]
    <3>1. a + i - 1 \in Span(a, n)
      BY SliceAddresses
    <3>2. (a + i - 1) - a + 1 = i
      BY <1>2
    <3>3. Slice(s, a, n)[i] = s[a + i - 1]
      BY <1>2, SliceString
    <3> QED
      BY <1>3, <3>1, <3>2, <3>3
  <2> QED
    BY <2>1, <2>2, StringEqual
<1> QED
  BY <1>3, <1>4 DEF s, IsMemory, Stored

(* What a buffer holds after it was cleared.                               *)
LEMMA ClearIs ==
    ASSUME NEW m, NEW a, NEW n, Inside(a, n)
    PROVE  Cleared(Clear(m, a, n), m, a, n)
<1>1. n \in Nat
  BY DEF Inside
<1>2. PICK z : z = [i \in 1 .. n |-> {}]
  OBVIOUS
<1>3. Clear(m, a, n) = Store(m, a, z)
  BY <1>2 DEF Clear
<1>4. IsString(z) /\ Len(z) = n /\ \A i \in 1 .. n : z[i] = {}
  <2>1. z = [i \in 1 .. n |-> z[i]] /\ \A i \in 1 .. n : z[i] = {}
    BY <1>2
  <2> QED
    BY <1>1, <2>1, MakeString
<1>5. PICK s : s = Clear(m, a, n)
  OBVIOUS
<1>6. Stored(s, m, a, n, z)
  BY <1>3, <1>4, <1>5, StoreIs
<1>7. \A b \in Span(a, n) : b - a + 1 \in 1 .. n
  BY SliceAddresses
<1>8. \A b \in Span(a, n) : s[b] = {}
  BY <1>4, <1>6, <1>7 DEF Stored
<1> QED
  BY <1>5, <1>6, <1>8 DEF Stored, Cleared

-----------------------------------------------------------------------------
(* The loop that encrypts and decrypts.                                    *)

(* The memory when the loop of the cipher has done i bytes.                *)
Upto(m, r, i) ==
    [a \in Memory |->
        IF a \in Span(r.out, i)
        THEN Xor(m[r.in + (a - r.out)], Keystream(r.alg, Slice(m, r.nonce, r.nn), a - r.out + 1))
        ELSE m[a]]

(* One more byte.                                                          *)
LEMMA OneMoreByte ==
    ASSUME NEW m, NEW r, Buffers(r), NEW i \in 1 .. r.n
    PROVE  Upto(m, r, i) =
             [Upto(m, r, i - 1) EXCEPT ![r.out + i - 1] =
                 Xor(Upto(m, r, i - 1)[r.in + i - 1],
                     Keystream(r.alg, Slice(m, r.nonce, r.nn), i))]
<1>1. /\ r.out \in Nat /\ r.in \in Nat /\ r.n \in Nat
      /\ Span(r.out, r.n) \subseteq Memory /\ Span(r.in, r.n) \subseteq Memory
      /\ r.out = r.in \/ Apart(r.out, r.n, r.in, r.n)
  BY DEF Buffers, Inside
<1> DEFINE u == Upto(m, r, i - 1)
           K(x) == Keystream(r.alg, Slice(m, r.nonce, r.nn), x)
           A == r.out + i - 1
           B == r.in + i - 1
<1>2. A \in Memory /\ B \in Memory
  BY <1>1 DEF Span
<1>3. B \notin Span(r.out, i - 1)
  BY <1>1 DEF Span, Apart
<1>4. /\ u = [a \in Memory |-> IF a \in Span(r.out, i - 1)
                               THEN Xor(m[r.in + (a - r.out)], K(a - r.out + 1)) ELSE m[a]]
      /\ Upto(m, r, i) = [a \in Memory |-> IF a \in Span(r.out, i)
                               THEN Xor(m[r.in + (a - r.out)], K(a - r.out + 1)) ELSE m[a]]
  BY DEF Upto
<1> HIDE DEF u, K
<1>5. u[B] = m[B]
  BY <1>2, <1>3, <1>4
<1>6. \A a \in Memory : a \in Span(r.out, i) <=> a \in Span(r.out, i - 1) \/ a = A
  BY <1>1, MemoryConstants DEF Span
<1>7. r.in + (A - r.out) = B /\ A - r.out + 1 = i
  BY <1>1
<1>8. A \in Span(r.out, i) /\ A \notin Span(r.out, i - 1)
  BY <1>1 DEF Span
<1> HIDE DEF A, B
<1>9. Upto(m, r, i)[A] = Xor(u[B], K(i))
  BY <1>2, <1>4, <1>5, <1>7, <1>8
<1>10. \A a \in Memory : a # A => Upto(m, r, i)[a] = u[a]
  BY <1>4, <1>6
<1>11. Upto(m, r, i) = [u EXCEPT ![A] = Xor(u[B], K(i))]
  BY <1>2, <1>4, <1>9, <1>10
<1> QED
  BY <1>11 DEF u, K, A, B

(* The whole loop: byte i of OUTPUT is byte i of INPUT, XORed, and no      *)
(* other byte of the memory changes.                                       *)
LEMMA XorIntoIs ==
    ASSUME NEW r, Buffers(r), IsMemory(mem)
    PROVE  XorInto(r) = Upto(mem, r, r.n)
<1> DEFINE n == r.n
           Next1(w, i) == [w[i - 1] EXCEPT ![r.out + i - 1] =
                             Xor(w[i - 1][r.in + i - 1], Keystream(r.alg, Nonce(r), i))]
           Loop(w) == w = [i \in 0 .. r.n |-> IF i = 0 THEN mem
                             ELSE [w[i - 1] EXCEPT ![r.out + i - 1] =
                                      Xor(w[i - 1][r.in + i - 1],
                                          Keystream(r.alg, Nonce(r), i))]]
           g == CHOOSE w : Loop(w)
           f == [i \in 0 .. n |-> Upto(mem, r, i)]
<1>1. XorInto(r) = g[r.n]
  BY DEF XorInto
<1>2. n \in Nat /\ r.out \in Nat
  BY DEF Buffers, Inside
<1>3. Upto(mem, r, 0) = mem
  <2>1. Span(r.out, 0) = {}
    BY <1>2 DEF Span
  <2> QED
    BY <2>1 DEF Upto, IsMemory
<1>4. \A i \in 1 .. n : Upto(mem, r, i) =
             [Upto(mem, r, i - 1) EXCEPT ![r.out + i - 1] =
                 Xor(Upto(mem, r, i - 1)[r.in + i - 1], Keystream(r.alg, Nonce(r), i))]
  BY OneMoreByte DEF Nonce
<1>5. Loop(f)
  <2>1. \A i \in 0 .. n : i = 0 \/ (i \in 1 .. n /\ i - 1 \in 0 .. n)
    BY <1>2
  <2>2. \A i \in 0 .. n : f[i] = Upto(mem, r, i)
    OBVIOUS
  <2>3. f = [i \in 0 .. n |-> f[i]]
    OBVIOUS
  <2> HIDE DEF f
  <2>4. \A i \in 0 .. n : f[i] = IF i = 0 THEN mem ELSE Next1(f, i)
    BY <1>3, <1>4, <2>1, <2>2
  <2> QED
    BY <2>3, <2>4
<1>6. Loop(g)
  BY <1>5
<1> HIDE DEF g, f
<1>7. /\ g[0] = mem
      /\ \A i \in 1 .. n : g[i] = Next1(g, i)
  <2>1. \A i \in 0 .. n : g[i] = IF i = 0 THEN mem ELSE Next1(g, i)
    BY <1>6
  <2>2. 0 \in 0 .. n /\ \A i \in 1 .. n : i \in 0 .. n /\ i # 0
    BY <1>2
  <2> QED
    BY <2>1, <2>2
<1> HIDE DEF Loop
<1> DEFINE T == {i \in Nat : i <= n => g[i] = Upto(mem, r, i)}
<1>8. 0 \in T
  BY <1>3, <1>7
<1>9. ASSUME NEW i \in Nat, i \in T PROVE i + 1 \in T
  <2> SUFFICES ASSUME i + 1 <= n PROVE g[i + 1] = Upto(mem, r, i + 1)
    OBVIOUS
  <2>1. g[i] = Upto(mem, r, i) /\ i + 1 \in 1 .. n /\ (i + 1) - 1 = i
    BY <1>2, <1>9
  <2> DEFINE j == i + 1
  <2>2. g[j] = Next1(g, j) /\ g[j - 1] = Upto(mem, r, j - 1)
    BY <1>7, <2>1
  <2>3. j \in 1 .. n
    BY <2>1
  <2> HIDE DEF j
  <2>4. g[j] = Upto(mem, r, j)
    BY <1>4, <2>2, <2>3
  <2> QED
    BY <2>4 DEF j
<1>10. n \in T
  BY <1>2, <1>8, <1>9, SetInduction
<1> QED
  BY <1>1, <1>2, <1>10

-----------------------------------------------------------------------------
(* The calls.                                                              *)

(* A string under the keystream of a nonce.                                *)
Ciphered(a, x, p) == [i \in 1 .. Len(p) |-> Xor(p[i], Keystream(a, x, i))]

(* XORing twice gives back what there was.                                 *)
LEMMA CipheredTwice ==
    ASSUME NEW a, NEW x, NEW p, IsString(p)
    PROVE  /\ IsString(Ciphered(a, x, p)) /\ Len(Ciphered(a, x, p)) = Len(p)
           /\ \A i \in 1 .. Len(p) : Ciphered(a, x, p)[i] = Xor(p[i], Keystream(a, x, i))
           /\ Ciphered(a, x, Ciphered(a, x, p)) = p
<1>1. ASSUME NEW q, IsString(q)
      PROVE  /\ IsString(Ciphered(a, x, q)) /\ Len(Ciphered(a, x, q)) = Len(q)
             /\ \A i \in 1 .. Len(q) : Ciphered(a, x, q)[i] = Xor(q[i], Keystream(a, x, i))
  <2>1. PICK c : c = Ciphered(a, x, q)
    OBVIOUS
  <2>2. /\ c = [i \in 1 .. Len(q) |-> c[i]]
        /\ \A i \in 1 .. Len(q) : c[i] = Xor(q[i], Keystream(a, x, i))
    BY <2>1 DEF Ciphered
  <2>3. Len(q) \in Nat
    BY <1>1 DEF IsString
  <2>4. IsString(c) /\ Len(c) = Len(q)
    BY <2>2, <2>3, MakeString
  <2> QED
    BY <2>1, <2>2, <2>4
<1>2. PICK c : c = Ciphered(a, x, p)
  OBVIOUS
<1>3. /\ IsString(c) /\ Len(c) = Len(p)
      /\ \A i \in 1 .. Len(p) : c[i] = Xor(p[i], Keystream(a, x, i))
  BY <1>1, <1>2
<1>4. PICK d : d = Ciphered(a, x, c)
  OBVIOUS
<1>5. /\ IsString(d) /\ Len(d) = Len(p)
      /\ \A i \in 1 .. Len(p) : d[i] = Xor(c[i], Keystream(a, x, i))
  BY <1>1, <1>3, <1>4
<1>6. \A s, k : Xor(Xor(s, k), k) = s
  BY DEF Xor
<1>7. \A i \in 1 .. Len(p) : d[i] = p[i]
  BY <1>3, <1>5, <1>6
<1>8. d = p
  BY <1>5, <1>7, StringEqual
<1> QED
  BY <1>2, <1>3, <1>4, <1>8

(* The memory after the loop.                                              *)
Looped(k, m, r) ==
    /\ IsMemory(k)
    /\ \A b \in Memory : b \notin Span(r.out, r.n) => k[b] = m[b]
    /\ Slice(k, r.out, r.n) =
         Ciphered(r.alg, Slice(m, r.nonce, r.nn), Slice(m, r.in, r.n))

(* The loop leaves the text under the keystream in OUTPUT.                 *)
LEMMA LoopIs ==
    ASSUME NEW r, Buffers(r), IsMemory(mem)
    PROVE  Looped(XorInto(r), mem, r)
<1>1. Inside(r.out, r.n) /\ Inside(r.in, r.n) /\ r.out \in Nat /\ r.in \in Nat /\ r.n \in Nat
      /\ Span(r.out, r.n) \subseteq Memory
  BY DEF Buffers, Inside
<1>2. PICK k : k = XorInto(r)
  OBVIOUS
<1>3. k = Upto(mem, r, r.n)
  BY <1>2, XorIntoIs
<1>4. PICK x : x = Slice(mem, r.nonce, r.nn)
  OBVIOUS
<1>5. /\ IsMemory(k)
      /\ \A b \in Memory : b \notin Span(r.out, r.n) => k[b] = mem[b]
      /\ \A b \in Span(r.out, r.n) :
            k[b] = Xor(mem[r.in + (b - r.out)], Keystream(r.alg, x, b - r.out + 1))
  BY <1>1, <1>3, <1>4 DEF Upto, IsMemory
<1>6. PICK p : p = Slice(mem, r.in, r.n)
  OBVIOUS
<1>7. IsString(p) /\ Len(p) = r.n /\ \A i \in 1 .. r.n : p[i] = mem[r.in + i - 1]
  BY <1>1, <1>6, SliceString
<1>8. PICK c : c = Ciphered(r.alg, x, p)
  OBVIOUS
<1>9. /\ IsString(c) /\ Len(c) = r.n
      /\ \A i \in 1 .. r.n : c[i] = Xor(p[i], Keystream(r.alg, x, i))
  BY <1>7, <1>8, CipheredTwice
<1>10. PICK s : s = Slice(k, r.out, r.n)
  OBVIOUS
<1>11. IsString(s) /\ Len(s) = r.n /\ \A i \in 1 .. r.n : s[i] = k[r.out + i - 1]
  BY <1>1, <1>10, SliceString
<1>12. ASSUME NEW i \in 1 .. r.n PROVE s[i] = c[i]
  <2>1. r.out + i - 1 \in Span(r.out, r.n)
    BY <1>1, SliceAddresses
  <2>2. /\ r.in + ((r.out + i - 1) - r.out) = r.in + i - 1
        /\ (r.out + i - 1) - r.out + 1 = i
    BY <1>1
  <2>3. k[r.out + i - 1] = Xor(mem[r.in + i - 1], Keystream(r.alg, x, i))
    BY <1>5, <2>1, <2>2
  <2> QED
    BY <1>7, <1>9, <1>11, <2>3
<1>13. s = c
  BY <1>9, <1>11, <1>12, StringEqual
<1> QED
  BY <1>2, <1>4, <1>5, <1>6, <1>8, <1>10, <1>13 DEF Looped

(* CCM authenticates the message only, the other modes the ciphertext.     *)
LEMMA TagOfText ==
    ASSUME NEW a, NEW x, NEW d, NEW p, NEW c, NEW t, NEW s,
           s = IF Family[a] = "CCM" THEN p ELSE c
    PROVE  Tag(a, x, d, s, s, t) = Tag(a, x, d, p, c, t)
<1>1. Content(a, x, d, s, s, t) = Content(a, x, d, p, c, t)
  BY DEF Content
<1> QED
  BY <1>1 DEF Tag

(* A tag is a string of its length.                                        *)
LEMMA TagString ==
    ASSUME NEW a, NEW x, NEW d, NEW p, NEW c, NEW t \in Nat
    PROVE  /\ IsString(Tag(a, x, d, p, c, t)) /\ Len(Tag(a, x, d, p, c, t)) = t
           /\ \A i \in 1 .. t : Tag(a, x, d, p, c, t)[i] =
                 {<<"mac", a, Counter(a, x, 0), Content(a, x, d, p, c, t), i>>}
<1>1. PICK s : s = Tag(a, x, d, p, c, t)
  OBVIOUS
<1>2. /\ s = [i \in 1 .. t |-> s[i]]
      /\ \A i \in 1 .. t : s[i] =
                 {<<"mac", a, Counter(a, x, 0), Content(a, x, d, p, c, t), i>>}
  BY <1>1 DEF Tag
<1>3. IsString(s) /\ Len(s) = t
  BY <1>2, MakeString
<1> QED
  BY <1>1, <1>2, <1>3

(* What a call finds in the buffers it reads.                              *)
Aad(m, r) == Slice(m, r.aad, r.an)
Text(m, r) == Slice(m, r.in, r.n)
NonceIn(m, r) == Slice(m, r.nonce, r.nn)
Turned(m, r) == Ciphered(r.alg, NonceIn(m, r), Text(m, r))

(* Only the buffers OUTPUT and TAG change.                                 *)
Within(k, m, r) ==
    \A b \in Memory : b \notin Span(r.out, r.n) /\ b \notin Span(r.tag, r.t) => k[b] = m[b]

Sealing(k, m, r) ==
    /\ IsMemory(k) /\ Within(k, m, r)
    /\ Slice(k, r.out, r.n) = Turned(m, r)
    /\ Slice(k, r.tag, r.t) =
         Tag(r.alg, NonceIn(m, r), Aad(m, r), Text(m, r), Turned(m, r), r.t)

Opening(k, m, r) ==
    /\ IsMemory(k) /\ \A b \in Memory : b \notin Span(r.out, r.n) => k[b] = m[b]
    /\ IF Slice(m, r.tag, r.t) =
            Tag(r.alg, NonceIn(m, r), Aad(m, r), Turned(m, r), Text(m, r), r.t)
       THEN Slice(k, r.out, r.n) = Turned(m, r)
       ELSE \A b \in Span(r.out, r.n) : k[b] = {}

(* A buffer that OUTPUT does not touch is the same after the loop.         *)
LEMMA LoopKeeps ==
    ASSUME NEW k, NEW m, NEW r, Looped(k, m, r), NEW a, NEW n, Inside(a, n),
           Apart(r.out, r.n, a, n)
    PROVE  Slice(k, a, n) = Slice(m, a, n)
<1>1. \A b \in Span(a, n) : b \in Memory /\ b \notin Span(r.out, r.n)
  BY DEF Inside, Apart
<1>2. \A b \in Span(a, n) : k[b] = m[b]
  BY <1>1 DEF Looped
<1> QED
  BY <1>2, SliceKept

(* Encryption: whatever the layout of the buffers, OUTPUT holds the        *)
(* ciphertext and TAG its tag, both of what the buffers held before.       *)
LEMMA SealIs ==
    ASSUME NEW r, Buffers(r), IsMemory(mem)
    PROVE  Sealing(SealedMemory(r), mem, r)
<1>1. PICK k : k = XorInto(r)
  OBVIOUS
<1>2. Looped(k, mem, r)
  BY <1>1, LoopIs
<1>3. /\ Inside(r.out, r.n) /\ Inside(r.aad, r.an) /\ Inside(r.tag, r.t)
      /\ Apart(r.out, r.n, r.aad, r.an) /\ Apart(r.out, r.n, r.tag, r.t) /\ r.t \in Nat
  BY DEF Buffers, Inside
<1>4. Slice(k, r.aad, r.an) = Aad(mem, r)
  BY <1>2, <1>3, LoopKeeps DEF Aad
<1>5. Slice(k, r.out, r.n) = Turned(mem, r)
  BY <1>2 DEF Looped, Turned, NonceIn, Text
<1>6. PICK s : s = IF Family[r.alg] = "CCM" THEN Text(mem, r) ELSE Turned(mem, r)
  OBVIOUS
<1>7. MacSource(r, k) = s
  BY <1>5, <1>6 DEF MacSource, Text
<1>8. SealTag(r, k) = Tag(r.alg, NonceIn(mem, r), Aad(mem, r), s, s, r.t)
  BY <1>4, <1>7 DEF SealTag, Nonce, NonceIn, Aad
<1>9. PICK t : t = Tag(r.alg, NonceIn(mem, r), Aad(mem, r), Text(mem, r), Turned(mem, r), r.t)
  OBVIOUS
<1>10. SealTag(r, k) = t
  BY <1>6, <1>8, <1>9, TagOfText
<1>11. IsString(t) /\ Len(t) = r.t
  BY <1>3, <1>9, TagString
<1>12. PICK z : z = Store(k, r.tag, t)
  OBVIOUS
<1>13. SealedMemory(r) = z
  BY <1>1, <1>10, <1>12 DEF SealedMemory
<1>14. Stored(z, k, r.tag, r.t, t)
  BY <1>3, <1>11, <1>12, StoreIs
<1>15. \A b \in Span(r.out, r.n) : z[b] = k[b]
  BY <1>3, <1>14 DEF Stored, Inside, Apart
<1>16. Slice(z, r.out, r.n) = Slice(k, r.out, r.n)
  BY <1>3, <1>15, SliceKept
<1>17. IsMemory(z) /\ Within(z, mem, r)
  BY <1>2, <1>14 DEF Stored, Looped, Within
<1> QED
  BY <1>5, <1>9, <1>13, <1>14, <1>16, <1>17 DEF Sealing, Stored

(* Decryption: OUTPUT holds the message if TAG is the tag of what the      *)
(* buffers held before, and zeros if it is not.                            *)
LEMMA OpenIs ==
    ASSUME NEW r, Buffers(r), IsMemory(mem)
    PROVE  /\ Opening(OpenedMemory(r), mem, r)
           /\ Verified(r) <=> Slice(mem, r.tag, r.t) =
                Tag(r.alg, NonceIn(mem, r), Aad(mem, r), Turned(mem, r), Text(mem, r), r.t)
<1>1. PICK k : k = XorInto(r)
  OBVIOUS
<1>2. Looped(k, mem, r)
  BY <1>1, LoopIs
<1>3. /\ Inside(r.out, r.n) /\ Inside(r.aad, r.an)
      /\ Apart(r.out, r.n, r.aad, r.an)
  BY DEF Buffers
<1>4. Slice(k, r.aad, r.an) = Aad(mem, r)
  BY <1>2, <1>3, LoopKeeps DEF Aad
<1>5. Slice(k, r.out, r.n) = Turned(mem, r)
  BY <1>2 DEF Looped, Turned, NonceIn, Text
<1>6. PICK s : s = IF Family[r.alg] = "CCM" THEN Turned(mem, r) ELSE Text(mem, r)
  OBVIOUS
<1>7. ExpectedTag(r) = Tag(r.alg, NonceIn(mem, r), Aad(mem, r), s, s, r.t)
  BY <1>1, <1>4, <1>5, <1>6 DEF ExpectedTag, Nonce, NonceIn, Aad, Text
<1>8. ExpectedTag(r) =
        Tag(r.alg, NonceIn(mem, r), Aad(mem, r), Turned(mem, r), Text(mem, r), r.t)
  BY <1>6, <1>7, TagOfText
<1>9. PICK z : z = Clear(mem, r.out, r.n)
  OBVIOUS
<1>10. Cleared(z, mem, r.out, r.n)
  BY <1>3, <1>9, ClearIs
<1>11. Verified(r) => OpenedMemory(r) = k
  BY <1>1 DEF OpenedMemory
<1>12. ~ Verified(r) => OpenedMemory(r) = z
  BY <1>9 DEF OpenedMemory
<1>13. Verified(r) <=> Slice(mem, r.tag, r.t) =
         Tag(r.alg, NonceIn(mem, r), Aad(mem, r), Turned(mem, r), Text(mem, r), r.t)
  BY <1>8 DEF Verified
<1>14. CASE Verified(r)
  BY <1>2, <1>5, <1>11, <1>13, <1>14 DEF Opening, Looped
<1>15. CASE ~ Verified(r)
  BY <1>10, <1>12, <1>13, <1>15 DEF Opening, Cleared
<1> QED
  BY <1>13, <1>14, <1>15

(* The fields of a finished call.                                          *)
LEMMA RecordIs ==
    ASSUME NEW op, NEW r, NEW ret, NEW m, NEW k, NEW c, c = Record(op, r, ret, m, k)
    PROVE  /\ c.op = op /\ c.ret = ret /\ c.req = r
           /\ c.nonce = NonceIn(m, r) /\ c.aad = Aad(m, r) /\ c.text = Text(m, r)
           /\ c.tag = Slice(k, r.tag, r.t) /\ c.result = Slice(k, r.out, r.n)
BY DEF Record, NonceIn, Aad, Text

-----------------------------------------------------------------------------
(* The invariant of the calls.                                             *)

(* An entry of the history of what was sealed.                             *)
SealOk(s) ==
    /\ s.alg \in Algs /\ NonceOk(s.alg, s.nonce)
    /\ IsString(s.aad) /\ Len(s.aad) < Radix^LenWidth
    /\ IsString(s.plain) /\ Len(s.plain) < Radix^LenWidth
    /\ Fits(s.alg, Len(s.nonce), Len(s.plain))
    /\ s.cipher = Ciphered(s.alg, s.nonce, s.plain)
    /\ Len(s.tag) \in TagLens[s.alg]
    /\ s.tag = Tag(s.alg, s.nonce, s.aad, s.plain, s.cipher, Len(s.tag))

(* An unknown byte of the tag of an entry.                                 *)
MacOf(e, s) ==
    e = <<"mac", s.alg, Counter(s.alg, s.nonce, 0),
          Content(s.alg, s.nonce, s.aad, s.plain, s.cipher, Len(s.tag)), e[5]>>

(* Every byte of a tag in the memory was put there by a call that seals,   *)
(* and no byte starts a hashed nonce.                                      *)
ByteOk(x, S) ==
    \A e \in x : /\ e[1] # "hashed"
                 /\ e[1] = "mac" => \E s \in S : MacOf(e, s)

Clean(m, S) == \A a \in Memory : ByteOk(m[a], S)

(* The message a finished call that opens had under its tag.               *)
Message(c) == Ciphered(c.req.alg, c.nonce, c.text)

TagHolds(c) ==
    c.tag = Tag(c.req.alg, c.nonce, c.aad, Message(c), c.text, Len(c.tag))

(* A finished call.                                                        *)
CallOk(c) ==
    /\ c.op \in {"none", "tampered", "refused", "seal", "open"}
    /\ c.op \in {"seal", "open"} =>
         /\ c.req.alg \in Algs
         /\ Len(c.tag) \in TagLens[c.req.alg] /\ Len(c.nonce) \in NonceLens[c.req.alg]
         /\ IsString(c.text) /\ Len(c.result) = Len(c.text)
         /\ c.ret # "SUCCESS" => \A i \in 1 .. Len(c.result) : c.result[i] = {}
    /\ c.op = "open" /\ c.ret # "MESSAGE_TOO_LARGE" =>
         IF TagHolds(c) THEN c.ret = "SUCCESS" /\ c.result = Message(c)
         ELSE c.ret = "AUTHENTICATION_FAILED"

(* A message that opened was sealed.                                       *)
WasSealed(c, S) ==
    c.op = "open" /\ c.ret = "SUCCESS" =>
        \E s \in S : /\ s.alg = c.req.alg /\ s.nonce = c.nonce /\ s.aad = c.aad
                     /\ s.cipher = c.text /\ s.plain = c.result

AInv ==
    /\ IsMemory(mem) /\ calls \in 0 .. MaxCalls
    /\ Clean(mem, sealed) /\ \A s \in sealed : SealOk(s)
    /\ CallOk(call)

(* What the buffers of an accepted call hold.                              *)
LEMMA BuffersHold ==
    ASSUME NEW m, NEW S, Clean(m, S), NEW r, Buffers(r)
    PROVE  /\ NonceOk(r.alg, NonceIn(m, r)) /\ Len(NonceIn(m, r)) = r.nn
           /\ IsString(Aad(m, r)) /\ Len(Aad(m, r)) = r.an
           /\ IsString(Text(m, r)) /\ Len(Text(m, r)) = r.n
           /\ r.an \in Nat /\ r.n \in Nat /\ r.an < Radix^LenWidth /\ r.n < Radix^LenWidth
<1>1. /\ Inside(r.nonce, r.nn) /\ r.nn \in Nat /\ r.an \in Nat /\ r.n \in Nat /\ r.alg \in Algs
      /\ r.nn \in NonceLens[r.alg]
      /\ r.nn < Radix^LenWidth /\ r.an < Radix^LenWidth /\ r.n < Radix^LenWidth
  BY DEF Buffers
<1>2. PICK x : x = NonceIn(m, r)
  OBVIOUS
<1>3. IsString(x) /\ Len(x) = r.nn /\ \A i \in 1 .. r.nn : x[i] = m[r.nonce + i - 1]
  BY <1>1, <1>2, SliceString DEF NonceIn
<1>4. ASSUME NEW i \in 1 .. r.nn PROVE <<"hashed", 0>> \notin x[i]
  <2>1. r.nonce + i - 1 \in Memory
    BY <1>1, SliceAddresses
  <2>2. ByteOk(x[i], S)
    BY <1>3, <2>1 DEF Clean
  <2>3. <<"hashed", 0>>[1] = "hashed"
    OBVIOUS
  <2> QED
    BY <2>2, <2>3 DEF ByteOk
<1>5. NonceOk(r.alg, x)
  BY <1>1, <1>3, <1>4 DEF NonceOk
<1>6. /\ IsString(Aad(m, r)) /\ Len(Aad(m, r)) = r.an
      /\ IsString(Text(m, r)) /\ Len(Text(m, r)) = r.n
  BY <1>1, SliceString DEF Aad, Text
<1> QED
  BY <1>1, <1>2, <1>3, <1>5, <1>6

(* A byte keeps its origin when more is sealed.                            *)
LEMMA ByteStays ==
    ASSUME NEW x, NEW S, ByteOk(x, S), NEW T, S \subseteq T
    PROVE  ByteOk(x, T)
BY DEF ByteOk

(* Bytes that are known, or under the keystream.                           *)
LEMMA ByteTurned ==
    ASSUME NEW x, NEW S, ByteOk(x, S), NEW a, NEW n, NEW i
    PROVE  ByteOk(Xor(x, Keystream(a, n, i)), S)
<1> SUFFICES ASSUME NEW e \in Xor(x, Keystream(a, n, i))
             PROVE  e[1] # "hashed" /\ (e[1] = "mac" => \E s \in S : MacOf(e, s))
  BY DEF ByteOk
<1>1. CASE e \in x
  BY <1>1 DEF ByteOk
<1>2. CASE e \in Keystream(a, n, i)
  <2>1. e = <<"ks", a, Counter(a, n, 1 + ((i - 1) \div BlockLen)), (i - 1) % BlockLen>>
    BY <1>2 DEF Keystream
  <2>2. e[1] = "ks"
    BY <2>1
  <2> QED
    BY <2>2
<1> QED
  BY <1>1, <1>2 DEF Xor

(* Zero and the known bytes are of no tag.                                 *)
LEMMA ByteKnown ==
    ASSUME NEW S, NEW d
    PROVE  ByteOk({}, S) /\ ByteOk(Digit(d), S)
<1>1. ByteOk({}, S)
  BY DEF ByteOk
<1>2. ASSUME NEW e \in Digit(d) PROVE e[1] = "digit"
  <2>1. e = <<"digit", d>>
    BY DEF Digit
  <2> QED
    BY <2>1
<1>3. ByteOk(Digit(d), S)
  BY <1>2 DEF ByteOk
<1> QED
  BY <1>1, <1>3

(* The bytes of the text under the keystream.                              *)
LEMMA TurnedClean ==
    ASSUME NEW m, NEW S, Clean(m, S), NEW r, Buffers(r), NEW k,
           Slice(k, r.out, r.n) = Turned(m, r)
    PROVE  \A b \in Span(r.out, r.n) : ByteOk(k[b], S)
<1>1. /\ Inside(r.out, r.n) /\ Inside(r.in, r.n) /\ r.n \in Nat /\ r.out \in Nat
  BY DEF Buffers, Inside
<1>2. PICK p : p = Text(m, r)
  OBVIOUS
<1>3. IsString(p) /\ Len(p) = r.n /\ \A i \in 1 .. r.n : p[i] = m[r.in + i - 1]
  BY <1>1, <1>2, SliceString DEF Text
<1>4. PICK c : c = Slice(k, r.out, r.n)
  OBVIOUS
<1>5. \A i \in 1 .. r.n : c[i] = Xor(p[i], Keystream(r.alg, NonceIn(m, r), i))
  BY <1>2, <1>3, <1>4, CipheredTwice DEF Turned
<1>6. \A i \in 1 .. r.n : c[i] = k[r.out + i - 1]
  BY <1>1, <1>4, SliceString
<1> SUFFICES ASSUME NEW b \in Span(r.out, r.n) PROVE ByteOk(k[b], S)
  OBVIOUS
<1>7. PICK i \in 1 .. r.n : i = b - r.out + 1
  BY <1>1, SliceAddresses
<1>8. r.out + i - 1 = b
  BY <1>1, <1>7 DEF Span
<1>9. r.in + i - 1 \in Memory
  BY <1>1, SliceAddresses
<1>10. ByteOk(p[i], S)
  BY <1>3, <1>9 DEF Clean
<1> QED
  BY <1>5, <1>6, <1>8, <1>10, ByteTurned

(* Encryption puts no tag in the memory but its own.                       *)
LEMMA SealingClean ==
    ASSUME NEW m, NEW S, Clean(m, S), NEW r, Buffers(r), NEW k, Sealing(k, m, r),
           NEW s, s.alg = r.alg, s.nonce = NonceIn(m, r), s.aad = Aad(m, r),
           s.plain = Text(m, r), s.cipher = Turned(m, r), Len(s.tag) = r.t
    PROVE  Clean(k, S \cup {s})
<1> DEFINE T == S \cup {s}
<1>1. S \subseteq T /\ s \in T
  OBVIOUS
<1> HIDE DEF T
<1>2. Inside(r.tag, r.t) /\ r.t \in Nat /\ r.tag \in Nat
  BY DEF Buffers, Inside
<1>3. ASSUME NEW b \in Span(r.tag, r.t) PROVE ByteOk(k[b], T)
  <2>1. PICK t : t = Slice(k, r.tag, r.t)
    OBVIOUS
  <2>2. PICK i \in 1 .. r.t : i = b - r.tag + 1
    BY <1>2, SliceAddresses
  <2>3. t[i] = k[b]
    <3>1. r.tag + i - 1 = b
      BY <1>2, <2>2 DEF Span
    <3> QED
      BY <1>2, <2>1, <3>1, SliceString
  <2>4. t = Tag(r.alg, NonceIn(m, r), Aad(m, r), Text(m, r), Turned(m, r), r.t)
    BY <2>1 DEF Sealing
  <2>5. PICK e : e = <<"mac", r.alg, Counter(r.alg, NonceIn(m, r), 0),
               Content(r.alg, NonceIn(m, r), Aad(m, r), Text(m, r), Turned(m, r), r.t), i>>
    OBVIOUS
  <2>6. t[i] = {e}
    BY <1>2, <2>4, <2>5, TagString
  <2>7. e[1] = "mac" /\ e[5] = i
    BY <2>5
  <2>8. MacOf(e, s)
    BY <2>5, <2>7 DEF MacOf
  <2> QED
    BY <1>1, <2>3, <2>6, <2>7, <2>8 DEF ByteOk
<1>4. ASSUME NEW b \in Memory PROVE ByteOk(k[b], T)
  <2>1. CASE b \in Span(r.tag, r.t)
    BY <1>3, <2>1
  <2>2. CASE b \in Span(r.out, r.n)
    <3>1. ByteOk(k[b], S)
      BY <2>2, TurnedClean DEF Sealing
    <3> QED
      BY <1>1, <3>1, ByteStays
  <2>3. CASE b \notin Span(r.tag, r.t) /\ b \notin Span(r.out, r.n)
    <3>1. k[b] = m[b]
      BY <2>3 DEF Sealing, Within
    <3>2. ByteOk(m[b], S)
      BY DEF Clean
    <3> QED
      BY <1>1, <3>1, <3>2, ByteStays
  <2> QED
    BY <2>1, <2>2, <2>3
<1> QED
  BY <1>4 DEF Clean, T

(* Decryption puts no tag in the memory.                                   *)
LEMMA OpeningClean ==
    ASSUME NEW m, NEW S, Clean(m, S), NEW r, Buffers(r), NEW k, Opening(k, m, r)
    PROVE  Clean(k, S)
<1>1. ASSUME NEW b \in Memory PROVE ByteOk(k[b], S)
  <2>1. CASE b \notin Span(r.out, r.n)
    BY <2>1 DEF Opening, Clean
  <2>2. CASE b \in Span(r.out, r.n)
    <3>1. CASE Slice(k, r.out, r.n) = Turned(m, r)
      BY <2>2, <3>1, TurnedClean
    <3>2. CASE \A a \in Span(r.out, r.n) : k[a] = {}
      BY <2>2, <3>2, ByteKnown
    <3> QED
      BY <3>1, <3>2 DEF Opening
  <2> QED
    BY <2>1, <2>2
<1> QED
  BY <1>1 DEF Clean

-----------------------------------------------------------------------------
(* What the two operations leave in the record of the call.                *)

(* Encryption adds one entry and leaves no other trace of a tag.           *)
LEMMA SealStep ==
    ASSUME AInv, NEW r \in Requests, Seal(r)
    PROVE  /\ Buffers(r) /\ Sealing(mem', mem, r)
           /\ \E s : sealed' = sealed \cup {s} /\ SealOk(s) /\ Clean(mem', sealed \cup {s})
           /\ CallOk(call') /\ call'.op = "seal"
<1>1. Buffers(r) /\ IsMemory(mem) /\ Clean(mem, sealed)
  BY AcceptedBuffers DEF AInv, Seal
<1>2. Sealing(mem', mem, r)
  BY <1>1, SealIs DEF Seal
<1>3. PICK k : k = mem'
  OBVIOUS
<1>4. call' = Record("seal", r, "SUCCESS", mem, k)
  BY <1>3 DEF Seal
<1>5. PICK c : c = call'
  OBVIOUS
<1>6. /\ c.op = "seal" /\ c.ret = "SUCCESS" /\ c.req = r
      /\ c.nonce = NonceIn(mem, r) /\ c.aad = Aad(mem, r) /\ c.text = Text(mem, r)
      /\ c.tag = Slice(k, r.tag, r.t) /\ c.result = Slice(k, r.out, r.n)
  BY <1>4, <1>5, RecordIs
<1>7. /\ c.result = Turned(mem, r)
      /\ c.tag = Tag(r.alg, NonceIn(mem, r), Aad(mem, r), Text(mem, r), Turned(mem, r), r.t)
  BY <1>2, <1>3, <1>6 DEF Sealing
<1>8. /\ r.alg \in Algs /\ r.t \in TagLens[r.alg] /\ r.t \in Nat /\ r.nn \in NonceLens[r.alg]
  BY <1>1 DEF Buffers
<1>9. PICK x : x = NonceIn(mem, r)
  OBVIOUS
<1>10. PICK p : p = Text(mem, r)
  OBVIOUS
<1>11. PICK d : d = Aad(mem, r)
  OBVIOUS
<1>12. /\ NonceOk(r.alg, x) /\ Len(x) = r.nn /\ IsString(d) /\ Len(d) = r.an
       /\ IsString(p) /\ Len(p) = r.n
       /\ r.an < Radix^LenWidth /\ r.n < Radix^LenWidth
  BY <1>1, <1>9, <1>10, <1>11, BuffersHold
<1>13. PICK y : y = Ciphered(r.alg, x, p)
  OBVIOUS
<1>14. Turned(mem, r) = y /\ Len(y) = Len(p)
  BY <1>9, <1>10, <1>12, <1>13, CipheredTwice DEF Turned
<1>15. PICK s : s = [alg |-> r.alg, nonce |-> c.nonce, aad |-> c.aad,
                     plain |-> c.text, cipher |-> c.result, tag |-> c.tag]
  OBVIOUS
<1>16. sealed' = sealed \cup {s}
  BY <1>5, <1>15 DEF Seal
<1>17. /\ s.alg = r.alg /\ s.nonce = x /\ s.aad = d /\ s.plain = p /\ s.cipher = y
       /\ s.tag = Tag(r.alg, x, d, p, y, r.t)
  BY <1>6, <1>7, <1>9, <1>10, <1>11, <1>14, <1>15
<1>18. Len(s.tag) = r.t
  BY <1>8, <1>17, TagString
<1>19. Fits(r.alg, r.nn, r.n)
  BY DEF Seal, TooLong
<1>20. SealOk(s)
  BY <1>8, <1>12, <1>13, <1>17, <1>18, <1>19 DEF SealOk
<1>21. Clean(mem', sealed \cup {s})
  BY <1>1, <1>2, <1>9, <1>10, <1>11, <1>14, <1>17, <1>18, SealingClean
<1>22. CallOk(c)
  <2>1. Len(c.tag) = r.t
    BY <1>15, <1>18
  <2> QED
    BY <1>6, <1>7, <1>8, <1>9, <1>10, <1>12, <1>14, <2>1 DEF CallOk
<1> QED
  BY <1>1, <1>2, <1>5, <1>6, <1>16, <1>20, <1>21, <1>22

(* Decryption answers as its record says.                                  *)
LEMMA OpenStep ==
    ASSUME AInv, NEW r \in Requests, Open(r)
    PROVE  /\ Buffers(r) /\ Opening(mem', mem, r)
           /\ Clean(mem', sealed)
           /\ CallOk(call') /\ call'.op = "open" /\ call'.ret # "MESSAGE_TOO_LARGE"
           /\ call'.req = r /\ call'.nonce = NonceIn(mem, r) /\ call'.aad = Aad(mem, r)
           /\ call'.text = Text(mem, r) /\ call'.tag = Slice(mem, r.tag, r.t)
<1>1. Buffers(r) /\ IsMemory(mem) /\ Clean(mem, sealed)
  BY AcceptedBuffers DEF AInv, Open
<1>2. Opening(mem', mem, r)
  BY <1>1, OpenIs DEF Open
<1>3. PICK k : k = mem'
  OBVIOUS
<1>4. PICK ret : ret = IF Verified(r) THEN "SUCCESS" ELSE "AUTHENTICATION_FAILED"
  OBVIOUS
<1>5. call' = Record("open", r, ret, mem, k)
  BY <1>3, <1>4 DEF Open
<1>6. PICK c : c = call'
  OBVIOUS
<1>7. /\ c.op = "open" /\ c.ret = ret /\ c.req = r
      /\ c.nonce = NonceIn(mem, r) /\ c.aad = Aad(mem, r) /\ c.text = Text(mem, r)
      /\ c.tag = Slice(k, r.tag, r.t) /\ c.result = Slice(k, r.out, r.n)
  BY <1>5, <1>6, RecordIs
<1>8. /\ r.alg \in Algs /\ r.t \in TagLens[r.alg] /\ r.t \in Nat /\ r.nn \in NonceLens[r.alg]
      /\ r.n \in Nat /\ Inside(r.out, r.n) /\ Inside(r.tag, r.t)
      /\ Apart(r.out, r.n, r.tag, r.t)
  BY <1>1 DEF Buffers
<1>9. Slice(k, r.tag, r.t) = Slice(mem, r.tag, r.t)
  <2>1. \A b \in Span(r.tag, r.t) : k[b] = mem[b]
    BY <1>2, <1>3, <1>8 DEF Opening, Apart, Inside
  <2> QED
    BY <1>8, <2>1, SliceKept
<1>10. Len(c.tag) = r.t
  BY <1>7, <1>8, SliceString
<1>11. /\ Len(NonceIn(mem, r)) = r.nn /\ IsString(Text(mem, r)) /\ Len(Text(mem, r)) = r.n
  BY <1>1, BuffersHold
<1>12. Message(c) = Turned(mem, r)
  BY <1>7 DEF Message, Turned
<1>13. TagHolds(c) <=> Slice(mem, r.tag, r.t) =
            Tag(r.alg, NonceIn(mem, r), Aad(mem, r), Turned(mem, r), Text(mem, r), r.t)
  BY <1>7, <1>9, <1>10, <1>12 DEF TagHolds
<1>14. TagHolds(c) <=> Verified(r)
  BY <1>1, <1>13, OpenIs
<1>15. /\ Len(c.result) = r.n /\ \A i \in 1 .. r.n : c.result[i] = k[r.out + i - 1]
  BY <1>7, <1>8, SliceString
<1>16. TagHolds(c) => c.result = Message(c)
  BY <1>2, <1>3, <1>7, <1>12, <1>13 DEF Opening
<1>17. ~ TagHolds(c) => \A i \in 1 .. r.n : c.result[i] = {}
  <2> SUFFICES ASSUME ~ TagHolds(c), NEW i \in 1 .. r.n PROVE c.result[i] = {}
    OBVIOUS
  <2>1. \A b \in Span(r.out, r.n) : k[b] = {}
    BY <1>2, <1>3, <1>13 DEF Opening
  <2>2. r.out + i - 1 \in Span(r.out, r.n)
    BY <1>8, SliceAddresses
  <2> QED
    BY <1>15, <2>1, <2>2
<1>18. CallOk(c)
  BY <1>4, <1>7, <1>8, <1>10, <1>11, <1>14, <1>15, <1>16, <1>17 DEF CallOk
<1>19. c.ret # "MESSAGE_TOO_LARGE"
  BY <1>4, <1>7
<1>20. Clean(mem', sealed)
  BY <1>1, <1>2, OpeningClean
<1> QED
  BY <1>1, <1>2, <1>6, <1>7, <1>9, <1>18, <1>19, <1>20

(* A call that is too long clears what it would have written.              *)
LEMMA OverlongStep ==
    ASSUME AInv, NEW r \in Requests, NEW op \in {"seal", "open"}, Overlong(op, r)
    PROVE  /\ Buffers(r) /\ IsMemory(mem') /\ Within(mem', mem, r)
           /\ op = "open" => \A b \in Memory : b \notin Span(r.out, r.n) => mem'[b] = mem[b]
           /\ Clean(mem', sealed) /\ CallOk(call')
           /\ call'.op = op /\ call'.req = r /\ call'.ret = "MESSAGE_TOO_LARGE"
<1>1. Buffers(r) /\ IsMemory(mem) /\ Clean(mem, sealed)
  BY AcceptedBuffers DEF AInv, Overlong
<1>2. /\ r.alg \in Algs /\ r.t \in TagLens[r.alg] /\ r.t \in Nat /\ r.nn \in NonceLens[r.alg]
      /\ r.n \in Nat /\ Inside(r.out, r.n) /\ Inside(r.tag, r.t)
      /\ Apart(r.out, r.n, r.tag, r.t)
  BY <1>1 DEF Buffers
<1>3. PICK m : m = Clear(mem, r.out, r.n)
  OBVIOUS
<1>4. Cleared(m, mem, r.out, r.n)
  BY <1>2, <1>3, ClearIs
<1>5. PICK z : z = Clear(m, r.tag, r.t)
  OBVIOUS
<1>6. Cleared(z, m, r.tag, r.t)
  BY <1>2, <1>5, ClearIs
<1>7. PICK k : k = mem'
  OBVIOUS
<1>8. k = IF op = "seal" THEN z ELSE m
  BY <1>3, <1>5, <1>7 DEF Overlong
<1>9. /\ IsMemory(k)
      /\ \A b \in Span(r.out, r.n) : k[b] = {}
      /\ \A b \in Memory : \/ k[b] = mem[b]
                           \/ k[b] = {} /\ (b \in Span(r.out, r.n) \/ b \in Span(r.tag, r.t))
      /\ op = "open" => \A b \in Memory : b \notin Span(r.out, r.n) => k[b] = mem[b]
  <2>1. CASE op = "open"
    BY <1>4, <1>8, <2>1 DEF Cleared
  <2>2. CASE op = "seal"
    <3>1. k = z
      BY <1>8, <2>2
    <3>2. ASSUME NEW b \in Memory
          PROVE  \/ k[b] = mem[b]
                 \/ k[b] = {} /\ (b \in Span(r.out, r.n) \/ b \in Span(r.tag, r.t))
      BY <1>4, <1>6, <3>1 DEF Cleared
    <3>3. \A b \in Span(r.out, r.n) : k[b] = {}
      BY <1>2, <1>4, <1>6, <3>1 DEF Cleared, Apart, Inside
    <3> QED
      BY <1>6, <2>2, <3>1, <3>2, <3>3 DEF Cleared
  <2> QED
    BY <2>1, <2>2
<1>10. Within(k, mem, r)
  BY <1>9 DEF Within
<1>11. Clean(k, sealed)
  BY <1>1, <1>9, ByteKnown DEF Clean
<1>12. call' = Record(op, r, "MESSAGE_TOO_LARGE", mem, k)
  BY <1>7 DEF Overlong
<1>13. PICK c : c = call'
  OBVIOUS
<1>14. /\ c.op = op /\ c.ret = "MESSAGE_TOO_LARGE" /\ c.req = r
       /\ c.nonce = NonceIn(mem, r) /\ c.text = Text(mem, r)
       /\ c.tag = Slice(k, r.tag, r.t) /\ c.result = Slice(k, r.out, r.n)
  BY <1>12, <1>13, RecordIs
<1>15. /\ Len(NonceIn(mem, r)) = r.nn /\ IsString(Text(mem, r)) /\ Len(Text(mem, r)) = r.n
  BY <1>1, BuffersHold
<1>16. /\ Len(c.result) = r.n /\ Len(c.tag) = r.t
       /\ \A i \in 1 .. r.n : c.result[i] = k[r.out + i - 1]
  BY <1>2, <1>14, SliceString
<1>17. \A i \in 1 .. r.n : c.result[i] = {}
  <2>1. \A i \in 1 .. r.n : r.out + i - 1 \in Span(r.out, r.n)
    BY <1>2, SliceAddresses
  <2> QED
    BY <1>9, <1>16, <2>1
<1>18. CallOk(c)
  BY <1>2, <1>14, <1>15, <1>16, <1>17 DEF CallOk
<1> QED
  BY <1>1, <1>7, <1>9, <1>10, <1>11, <1>13, <1>14, <1>18

(* The invariant is preserved.                                             *)
LEMMA AInvInit == Init => AInv
<1> SUFFICES ASSUME Init PROVE AInv
  OBVIOUS
<1>1. IsMemory(mem) /\ Clean(mem, sealed)
  <2>1. mem \in Memories
    BY DEF Init
  <2>2. \A a \in Memory : \A e \in mem[a] : e[1] \notin {"mac", "hashed"}
    BY <2>1, MemoryConstants
  <2>3. mem = [a \in Memory |-> mem[a]]
    BY <2>1, MemoryConstants
  <2> QED
    BY <2>2, <2>3 DEF IsMemory, Clean, ByteOk
<1>2. CallOk(call)
  BY DEF Init, CallOk, Refused
<1>3. calls \in 0 .. MaxCalls
  BY MemoryConstants DEF Init
<1> QED
  BY <1>1, <1>2, <1>3 DEF AInv, Init

(* Every step preserves the invariant.                                     *)
LEMMA AInvStep == AInv /\ [Next]_vars => AInv'
<1> SUFFICES ASSUME AInv, [Next]_vars PROVE AInv'
  OBVIOUS
<1>0. MaxCalls \in Nat /\ calls \in 0 .. MaxCalls
  BY MemoryConstants DEF AInv
<1>1. CASE UNCHANGED vars
  BY <1>1 DEF AInv, vars
<1>2. CASE Tamper
  <2>1. PICK a \in Tampered, d \in {0, 1} : mem' = [mem EXCEPT ![a] = Digit(d)]
    BY <1>2 DEF Tamper
  <2>2. a \in Memory
    BY MemoryConstants
  <2>3. IsMemory(mem) /\ Clean(mem, sealed)
    BY DEF AInv
  <2>4. /\ IsMemory(mem') /\ mem'[a] = Digit(d)
        /\ \A b \in Memory : b # a => mem'[b] = mem[b]
    BY <2>1, <2>2, <2>3 DEF IsMemory
  <2>5. Clean(mem', sealed)
    BY <2>3, <2>4, ByteKnown DEF Clean
  <2>6. CallOk(call')
    BY <1>2 DEF Tamper, CallOk, Refused
  <2> QED
    BY <1>2, <2>4, <2>5, <2>6 DEF Tamper, AInv
<1>3. CASE Call
  <2>1. calls' \in 0 .. MaxCalls
    BY <1>0, <1>3 DEF Call
  <2>2. PICK r \in Requests :
           \/ Seal(r) \/ Open(r)
           \/ \E op \in {"seal", "open"} : Refuse(op, r) \/ Overlong(op, r)
    BY <1>3 DEF Call
  <2>3. CASE Seal(r)
    <3>1. PICK s : sealed' = sealed \cup {s} /\ SealOk(s) /\ Clean(mem', sealed \cup {s})
      BY <2>3, SealStep
    <3>2. Sealing(mem', mem, r) /\ CallOk(call')
      BY <2>3, SealStep
    <3>3. \A t \in sealed' : SealOk(t)
      BY <3>1 DEF AInv
    <3> QED
      BY <2>1, <3>1, <3>2, <3>3 DEF AInv, Sealing
  <2>4. CASE Open(r)
    <3>1. Opening(mem', mem, r) /\ CallOk(call') /\ Clean(mem', sealed)
      BY <2>4, OpenStep
    <3>2. sealed' = sealed
      BY <2>4 DEF Open
    <3> QED
      BY <2>1, <3>1, <3>2 DEF AInv, Opening
  <2>5. ASSUME NEW op \in {"seal", "open"}, Refuse(op, r) PROVE AInv'
    <3>1. CallOk(call')
      BY <2>5 DEF Refuse, CallOk, Refused
    <3> QED
      BY <2>1, <2>5, <3>1 DEF Refuse, AInv
  <2>6. ASSUME NEW op \in {"seal", "open"}, Overlong(op, r) PROVE AInv'
    <3>1. IsMemory(mem') /\ CallOk(call') /\ Clean(mem', sealed)
      BY <2>6, OverlongStep
    <3>2. sealed' = sealed
      BY <2>6 DEF Overlong
    <3> QED
      BY <2>1, <3>1, <3>2 DEF AInv
  <2> QED
    BY <2>2, <2>3, <2>4, <2>5, <2>6
<1> QED
  BY <1>1, <1>2, <1>3 DEF Next

(* The invariant of the calls, for every memory, every set of requests and *)
(* any number of calls.                                                    *)
THEOREM CallsSafe == Spec => []AInv
<1>1. Init => AInv
  BY AInvInit
<1>2. AInv /\ [Next]_vars => AInv'
  BY AInvStep
<1> QED
  BY <1>1, <1>2, PTL DEF Spec

(* What LIBERAC_AEAD_ENCRYPT sealed, LIBERAC_AEAD_DECRYPT opens, whatever   *)
(* the layout of the buffers that the checks let through.                  *)
THEOREM SealedOpens == Spec => []RoundTrip
<1>1. AInv => RoundTrip
  <2> SUFFICES ASSUME AInv, Completed, call.op = "open", call.ret # "MESSAGE_TOO_LARGE",
                      NEW s \in sealed, Matches(s), s.cipher = call.text, s.tag = call.tag
               PROVE  call.ret = "SUCCESS" /\ call.result = s.plain
    BY DEF RoundTrip
  <2>1. CallOk(call) /\ SealOk(s)
    BY DEF AInv
  <2>2. s.alg = call.req.alg /\ s.nonce = call.nonce /\ s.aad = call.aad
    BY DEF Matches
  <2>3. /\ IsString(s.plain) /\ s.cipher = Ciphered(s.alg, s.nonce, s.plain)
        /\ s.tag = Tag(s.alg, s.nonce, s.aad, s.plain, s.cipher, Len(s.tag))
    BY <2>1 DEF SealOk
  <2>4. Message(call) = s.plain
    BY <2>2, <2>3, CipheredTwice DEF Message
  <2>5. TagHolds(call)
    BY <2>2, <2>3, <2>4 DEF TagHolds
  <2> QED
    BY <2>1, <2>4, <2>5 DEF CallOk
<1> QED
  BY <1>1, CallsSafe, PTL

(* Every call stays inside OUTPUT and TAG.                                 *)
THEOREM CallsConfined == Spec => Confined
<1> DEFINE Inner ==
      calls' # calls =>
         IF call'.op = "refused" THEN mem' = mem
         ELSE LET r == call'.req IN
              /\ \A a \in Memory :
                   mem'[a] # mem[a] => a \in Span(r.out, r.n) \cup Span(r.tag, r.t)
              /\ call'.op = "open" => Slice(mem', r.tag, r.t) = Slice(mem, r.tag, r.t)
              /\ \A x \in {<<r.key, r.kn>>, <<r.nonce, r.nn>>, <<r.aad, r.an>>} :
                   Slice(mem', x[1], x[2]) = Slice(mem, x[1], x[2])
<1>1. ASSUME NEW r, Buffers(r), Within(mem', mem, r), call'.req = r,
             call'.op # "refused",
             call'.op = "open" => \A b \in Memory : b \notin Span(r.out, r.n) => mem'[b] = mem[b]
      PROVE  Inner
  <2>1. \A a \in Memory : mem'[a] # mem[a] => a \in Span(r.out, r.n) \cup Span(r.tag, r.t)
    BY <1>1 DEF Within
  <2>2. call'.op = "open" => Slice(mem', r.tag, r.t) = Slice(mem, r.tag, r.t)
    <3> SUFFICES ASSUME call'.op = "open"
                 PROVE  Slice(mem', r.tag, r.t) = Slice(mem, r.tag, r.t)
      OBVIOUS
    <3>1. Inside(r.tag, r.t) /\ \A b \in Span(r.tag, r.t) : b \in Memory /\ b \notin Span(r.out, r.n)
      BY <1>1 DEF Buffers, Apart, Inside
    <3>2. \A b \in Span(r.tag, r.t) : mem'[b] = mem[b]
      BY <1>1, <3>1
    <3> QED
      BY <3>1, <3>2, SliceKept
  <2>3. ASSUME NEW a, NEW n, Inside(a, n), Apart(r.out, r.n, a, n), Apart(r.tag, r.t, a, n)
        PROVE  Slice(mem', a, n) = Slice(mem, a, n)
    <3>1. \A b \in Span(a, n) :
            b \in Memory /\ b \notin Span(r.out, r.n) /\ b \notin Span(r.tag, r.t)
      BY <2>3 DEF Inside, Apart
    <3>2. \A b \in Span(a, n) : mem'[b] = mem[b]
      BY <1>1, <3>1 DEF Within
    <3> QED
      BY <2>3, <3>2, SliceKept
  <2>4. /\ Slice(mem', r.key, r.kn) = Slice(mem, r.key, r.kn)
        /\ Slice(mem', r.nonce, r.nn) = Slice(mem, r.nonce, r.nn)
        /\ Slice(mem', r.aad, r.an) = Slice(mem, r.aad, r.an)
    BY <1>1, <2>3 DEF Buffers
  <2>5. \A x \in {<<r.key, r.kn>>, <<r.nonce, r.nn>>, <<r.aad, r.an>>} :
           Slice(mem', x[1], x[2]) = Slice(mem, x[1], x[2])
    BY <2>4
  <2> DEFINE Kept(q) ==
        /\ \A a \in Memory :
             mem'[a] # mem[a] => a \in Span(q.out, q.n) \cup Span(q.tag, q.t)
        /\ call'.op = "open" => Slice(mem', q.tag, q.t) = Slice(mem, q.tag, q.t)
        /\ \A x \in {<<q.key, q.kn>>, <<q.nonce, q.nn>>, <<q.aad, q.an>>} :
             Slice(mem', x[1], x[2]) = Slice(mem, x[1], x[2])
  <2>6. Kept(r)
    BY <2>1, <2>2, <2>5
  <2> HIDE DEF Kept
  <2>7. Kept(call'.req)
    BY <1>1, <2>6
  <2> QED
    BY <1>1, <2>7 DEF Kept
<1>2. AInv /\ [Next]_vars => [Inner]_vars
  <2> SUFFICES ASSUME AInv, Next PROVE Inner
    BY DEF vars
  <2> HIDE DEF Inner
  <2>1. CASE Tamper
    BY <2>1 DEF Tamper, Inner
  <2>2. CASE Call
    <3>1. PICK r \in Requests :
             \/ Seal(r) \/ Open(r)
             \/ \E op \in {"seal", "open"} : Refuse(op, r) \/ Overlong(op, r)
      BY <2>2 DEF Call
    <3>2. CASE Seal(r)
      <4>1. call'.req = r
        <5>1. PICK k : k = mem'
          OBVIOUS
        <5>2. call' = Record("seal", r, "SUCCESS", mem, k)
          BY <3>2, <5>1 DEF Seal
        <5> QED
          BY <5>2, RecordIs
      <4>2. Buffers(r) /\ Within(mem', mem, r) /\ call'.op = "seal"
        BY <3>2, SealStep DEF Sealing
      <4> QED
        BY <1>1, <4>1, <4>2
    <3>3. CASE Open(r)
      <4>1. Buffers(r) /\ Opening(mem', mem, r) /\ call'.req = r /\ call'.op = "open"
        BY <3>3, OpenStep
      <4>2. \A b \in Memory : b \notin Span(r.out, r.n) => mem'[b] = mem[b]
        BY <4>1 DEF Opening
      <4>3. Within(mem', mem, r)
        BY <4>2 DEF Within
      <4> QED
        BY <1>1, <4>1, <4>2, <4>3
    <3>4. ASSUME NEW op \in {"seal", "open"}, Refuse(op, r) PROVE Inner
      BY <3>4 DEF Refuse, Refused, Inner
    <3>5. ASSUME NEW op \in {"seal", "open"}, Overlong(op, r) PROVE Inner
      BY <1>1, <3>5, OverlongStep
    <3> QED
      BY <3>1, <3>2, <3>3, <3>4, <3>5
  <2> QED
    BY <2>1, <2>2 DEF Next
<1> QED
  BY <1>2, CallsSafe, PTL DEF Spec, Confined

-----------------------------------------------------------------------------
(* The inputs of the block functions.                                      *)

(* A block of CCM: f is 0 in a counter block, and what the flags tell of   *)
(* AAD and of the length of the tag in the first block of the MAC.         *)
CcmHead(x, f, i) == <<Digit(8 * f + (CcmQ(x) - 1))>> \o x \o Encode(CcmQ(x), i)

(* Flags and what they carry of the length of the nonce.                   *)
LEMMA FlagsTell ==
    ASSUME NEW f \in Nat, NEW g \in Nat, NEW p \in 1 .. 8, NEW q \in 1 .. 8,
           8 * f + (p - 1) = 8 * g + (q - 1)
    PROVE  f = g /\ p = q
<1>1. f = g
  OBVIOUS
<1> QED
  BY <1>1

(* A block of CCM tells its flags, its nonce and its number.               *)
LEMMA CcmHeadTells ==
    ASSUME NEW a \in Algs, Family[a] = "CCM", NEW x, NonceOk(a, x), NEW y, NonceOk(a, y),
           NEW f \in Nat, NEW g \in Nat,
           NEW i \in Nat, NEW j \in Nat, i < Radix^CcmQ(x), j < Radix^CcmQ(y),
           CcmHead(x, f, i) = CcmHead(y, g, j)
    PROVE  f = g /\ x = y /\ i = j
<1>1. /\ CcmQ(x) \in 1 .. 8 /\ CcmQ(x) + Len(x) = CcmRoom /\ Len(x) \in Nat
      /\ CcmQ(y) \in 1 .. 8 /\ CcmQ(y) + Len(y) = CcmRoom /\ Len(y) \in Nat
      /\ CcmRoom \in Nat
  BY NonceLength, ModeConstants
<1>2. PICK b : b = Digit(8 * f + (CcmQ(x) - 1))
  OBVIOUS
<1>3. PICK c : c = Digit(8 * g + (CcmQ(y) - 1))
  OBVIOUS
<1>4. b = c => f = g /\ Len(x) = Len(y)
  <2> SUFFICES ASSUME b = c PROVE f = g /\ Len(x) = Len(y)
    OBVIOUS
  <2>1. 8 * f + (CcmQ(x) - 1) = 8 * g + (CcmQ(y) - 1)
    BY <1>2, <1>3, DigitTells
  <2>2. f = g /\ CcmQ(x) = CcmQ(y)
    <3>1. CcmQ(x) \in 1 .. 8 /\ CcmQ(y) \in 1 .. 8
      BY <1>1
    <3> QED
      BY <2>1, <3>1, FlagsTell
  <2>3. \A l, m, q, R \in Nat : q + l = R /\ q + m = R => l = m
    OBVIOUS
  <2>4. CcmQ(y) \in Nat
    BY SMTT(20), <1>1
  <2> QED
    BY <1>1, <2>2, <2>3, <2>4
<1>5. PICK s : s = CcmHead(x, f, i)
  OBVIOUS
<1>6. /\ Assembled(s, b, x, Encode(CcmQ(x), i))
      /\ Assembled(s, c, y, Encode(CcmQ(y), j))
  BY <1>2, <1>3, <1>5 DEF Assembled, CcmHead
<1>7. b = c /\ x = y /\ i = j
  BY <1>4, <1>6, CcmBlockTells
<1> QED
  BY <1>4, <1>7

(* The first block of a MAC: its flags tell whether there is AAD.          *)
FirstBlock(s, x, d, n) ==
    \E f \in 1 .. 15 : s = CcmHead(x, f, n) /\ (f >= 8 <=> d # <<>>)

(* The first block that the code makes.                                    *)
LEMMA CcmFirstIs ==
    ASSUME NEW a \in Algs, Family[a] = "CCM", NEW x, NonceOk(a, x), NEW d, NEW n,
           NEW t \in TagLens[a]
    PROVE  FirstBlock(CcmFirst(x, d, n, t), x, d, n)
<1>1. t \in Nat /\ 4 <= t /\ t <= 16 /\ CcmQ(x) \in 1 .. 8
  BY ModeConstants, NonceLength
<1>2. PICK T : T = (t - 2) \div 2
  OBVIOUS
<1>3. T \in 1 .. 7
  <2>1. t - 2 \in 2 .. 14
    BY <1>1
  <2>2. \A v \in 2 .. 14 : v \div 2 \in 1 .. 7
    OBVIOUS
  <2> QED
    BY <1>2, <2>1, <2>2
<1>4. PICK A : A = IF d # <<>> THEN 64 ELSE 0
  OBVIOUS
<1>5. PICK f \in 1 .. 15 : A + T * 8 + CcmQ(x) - 1 = 8 * f + (CcmQ(x) - 1)
                           /\ (f >= 8 <=> d # <<>>)
  <2>1. CASE d # <<>>
    <3>1. /\ 8 + T \in 1 .. 15 /\ 8 + T >= 8
          /\ A + T * 8 + CcmQ(x) - 1 = 8 * (8 + T) + (CcmQ(x) - 1)
      BY <1>1, <1>3, <1>4, <2>1
    <3> QED
      BY <2>1, <3>1
  <2>2. CASE d = <<>>
    <3>1. /\ T \in 1 .. 15 /\ ~ (T >= 8)
          /\ A + T * 8 + CcmQ(x) - 1 = 8 * T + (CcmQ(x) - 1)
      BY <1>1, <1>3, <1>4, <2>2
    <3> QED
      BY <2>2, <3>1
  <2> QED
    BY <2>1, <2>2
<1>6. CcmFirst(x, d, n, t) = CcmHead(x, f, n)
  BY <1>2, <1>4, <1>5 DEF CcmFirst, CcmHead
<1> QED
  BY <1>5, <1>6 DEF FirstBlock

(* A counter block of CCM.                                                 *)
LEMMA CcmCounterIs ==
    ASSUME NEW a \in Algs, Family[a] = "CCM", NEW x, NonceOk(a, x), NEW i
    PROVE  Counter(a, x, i) = CcmHead(x, 0, i)
<1>1. CcmQ(x) \in 1 .. 8
  BY NonceLength
<1>2. 8 * 0 + (CcmQ(x) - 1) = CcmQ(x) - 1
  BY <1>1
<1> QED
  BY <1>2 DEF Counter, CcmBlock, CcmHead

(* The hash key of GCM is no counter block.                                *)
LEMMA HashKeyApart ==
    ASSUME NEW a \in Algs, Family[a] = "GCM", NEW x, NonceOk(a, x), NEW i, PlaceOk(a, x, i)
    PROVE  Counter(a, x, i) # HashKeyBlock
<1>1. /\ CtrMod[a] \in Nat \ {0, 1} /\ i \in Nat /\ i <= CtrMod[a] - 2
      /\ DirectLen \in Nat \ {0}
  BY ModeConstants DEF PlaceOk
<1>2. PICK p : p = GcmStart(x)[1]
  OBVIOUS
<1>3. PICK q : q = (GcmStart(x)[2] + i) % CtrMod[a]
  OBVIOUS
<1>4. Counter(a, x, i) = <<p, q>>
  BY <1>2, <1>3 DEF Counter
<1>5. PICK z : z = [k \in 1 .. DirectLen |-> {}]
  OBVIOUS
<1>6. HashKeyBlock = <<z, 0>>
  BY <1>5 DEF HashKeyBlock
<1> SUFFICES ASSUME <<p, q>> = <<z, 0>> PROVE FALSE
  BY <1>4, <1>6
<1>7. p = z /\ q = 0
  BY PairTells
<1>8. CASE Len(x) = DirectLen
  <2>1. GcmStart(x)[2] = 1
    BY <1>8 DEF GcmStart
  <2>2. 1 + i \in Nat /\ 1 + i < CtrMod[a]
    BY <1>1
  <2>3. (1 + i) % CtrMod[a] = 1 + i
    BY <1>1, <2>2, SmallRest
  <2>4. q = 1 + i
    BY <1>3, <2>1, <2>3
  <2> QED
    BY <1>1, <1>7, <2>4
<1>9. CASE Len(x) # DirectLen
  <2>1. PICK h : h = {<<"hashed", 0>>}
    OBVIOUS
  <2>2. PICK e : e = Encode(LenWidth, Len(x))
    OBVIOUS
  <2>3. Assembled(p, h, Pad(x), e)
    BY <1>2, <1>9, <2>1, <2>2 DEF GcmStart, Assembled
  <2>4. LenWidth \in Nat /\ IsString(x)
    BY ModeConstants, NonceLength
  <2>5. IsString(e) /\ IsString(Pad(x))
    BY <2>2, <2>4, EncodeString, PadString
  <2>6. p[1] = h
    BY <2>3, <2>5, HeadedString DEF Headed
  <2>7. 1 \in 1 .. DirectLen
    BY <1>1
  <2>8. z[1] = {}
    BY <1>5, <2>7
  <2> QED
    BY <1>7, <2>1, <2>6, <2>8
<1> QED
  BY <1>8, <1>9

(* An input of a block function, and what it is for.                       *)
UseOk(u) ==
    /\ u.alg \in Algs
    /\ \/ /\ u.use = -1 /\ Family[u.alg] = "GCM"
          /\ u.nonce = <<>> /\ u.block = HashKeyBlock
       \/ /\ u.use = -2 /\ Family[u.alg] = "CCM" /\ NonceOk(u.alg, u.nonce)
          /\ \E f \in 1 .. 15 : \E n \in 0 .. Radix^CcmQ(u.nonce) - 1 :
                u.block = CcmHead(u.nonce, f, n)
       \/ /\ PlaceOk(u.alg, u.nonce, u.use) /\ NonceOk(u.alg, u.nonce)
          /\ u.block = Counter(u.alg, u.nonce, u.use)

(* The powers that bound a length.                                         *)
LEMMA NonceRoom ==
    ASSUME NEW a \in Algs, Family[a] = "CCM", NEW x, NonceOk(a, x)
    PROVE  Radix^CcmQ(x) \in Nat \ {0}
<1>1. CcmRoom \in Widths /\ CcmQ(x) \in 0 .. CcmRoom /\ CcmRoom \in Nat
  BY NonceLength, ModeConstants DEF Widths
<1>2. CcmQ(x) \in 0 .. CcmQ(x)
  BY <1>1
<1> QED
  BY <1>1, <1>2, WidthPowers

(* Two equal inputs serve the same purpose.                                *)
LEMMA UsesApart ==
    ASSUME NEW u, UseOk(u), NEW v, UseOk(v), u.alg = v.alg, u.block = v.block
    PROVE  u.nonce = v.nonce /\ u.use = v.use
<1> DEFINE Key(w) == /\ w.use = -1 /\ Family[w.alg] = "GCM"
                     /\ w.nonce = <<>> /\ w.block = HashKeyBlock
           First(w) == /\ w.use = -2 /\ Family[w.alg] = "CCM" /\ NonceOk(w.alg, w.nonce)
                       /\ \E f \in 1 .. 15 : \E n \in 0 .. Radix^CcmQ(w.nonce) - 1 :
                             w.block = CcmHead(w.nonce, f, n)
           Ctr(w) == /\ PlaceOk(w.alg, w.nonce, w.use) /\ NonceOk(w.alg, w.nonce)
                     /\ w.block = Counter(w.alg, w.nonce, w.use)
<1>1. /\ u.alg \in Algs /\ (Key(u) \/ First(u) \/ Ctr(u))
      /\ v.alg \in Algs /\ (Key(v) \/ First(v) \/ Ctr(v))
  BY DEF UseOk
<1>2. ASSUME NEW w, NEW z, w.alg \in Algs, w.alg = z.alg, Key(w), Ctr(z), w.block = z.block
      PROVE  FALSE
  BY <1>2, HashKeyApart
<1>3. ASSUME NEW w, NEW z, w.alg \in Algs, w.alg = z.alg, First(w), Ctr(z), w.block = z.block
      PROVE  FALSE
  <2>1. PICK f \in 1 .. 15, n \in 0 .. Radix^CcmQ(w.nonce) - 1 :
              w.block = CcmHead(w.nonce, f, n)
    BY <1>3
  <2>2. z.block = CcmHead(z.nonce, 0, z.use)
    BY <1>3, CcmCounterIs
  <2>3. Radix^CcmQ(w.nonce) \in Nat \ {0} /\ Radix^CcmQ(z.nonce) \in Nat \ {0}
    BY <1>3, NonceRoom
  <2>4. n \in Nat /\ n < Radix^CcmQ(w.nonce) /\ f \in Nat
    BY <2>3
  <2>5. z.use \in Nat /\ z.use < Radix^CcmQ(z.nonce)
    BY <1>3, <2>3 DEF PlaceOk
  <2>6. CcmHead(w.nonce, f, n) = CcmHead(z.nonce, 0, z.use)
    BY <1>3, <2>1, <2>2
  <2>7. f = 0
    BY <1>3, <2>4, <2>5, <2>6, CcmHeadTells
  <2> QED
    BY <2>7
<1>4. CASE Key(u) /\ Key(v)
  BY <1>4
<1>5. CASE First(u) /\ First(v)
  <2>1. PICK f \in 1 .. 15, n \in 0 .. Radix^CcmQ(u.nonce) - 1 :
              u.block = CcmHead(u.nonce, f, n)
    BY <1>5
  <2>2. PICK g \in 1 .. 15, m \in 0 .. Radix^CcmQ(v.nonce) - 1 :
              v.block = CcmHead(v.nonce, g, m)
    BY <1>5
  <2>3. Radix^CcmQ(u.nonce) \in Nat \ {0} /\ Radix^CcmQ(v.nonce) \in Nat \ {0}
    BY <1>1, <1>5, NonceRoom
  <2>4. /\ n \in Nat /\ n < Radix^CcmQ(u.nonce) /\ f \in Nat
        /\ m \in Nat /\ m < Radix^CcmQ(v.nonce) /\ g \in Nat
    BY <2>3
  <2>5. CcmHead(u.nonce, f, n) = CcmHead(v.nonce, g, m)
    BY <2>1, <2>2
  <2>6. u.nonce = v.nonce
    BY <1>1, <1>5, <2>4, <2>5, CcmHeadTells
  <2> QED
    BY <1>5, <2>6
<1>6. CASE Ctr(u) /\ Ctr(v)
  <2>1. /\ NonceOk(u.alg, u.nonce) /\ PlaceOk(u.alg, u.nonce, u.use)
        /\ NonceOk(u.alg, v.nonce) /\ PlaceOk(u.alg, v.nonce, v.use)
        /\ Counter(u.alg, u.nonce, u.use) = Counter(u.alg, v.nonce, v.use)
    BY <1>6
  <2> QED
    BY <1>1, <2>1, CounterTells
<1>7. CASE Key(u) /\ First(v)
  BY <1>7
<1>8. CASE First(u) /\ Key(v)
  BY <1>8
<1> HIDE DEF Key, First, Ctr
<1> QED
  BY <1>1, <1>2, <1>3, <1>4, <1>5, <1>6, <1>7, <1>8

(* The longest message stays inside the counter.                           *)
LEMMA PlacesFit ==
    ASSUME NEW a \in Algs, NEW x, NonceOk(a, x), NEW n \in Nat, Fits(a, Len(x), n),
           NEW i \in 0 .. Blocks(n)
    PROVE  PlaceOk(a, x, i)
<1>1. /\ CtrMod[a] \in Nat \ {0, 1} /\ BlockLen \in Nat \ {0}
      /\ Family[a] \in {"GCM", "CCM", "CHACHA"} /\ Len(x) \in Nat /\ CcmRoom \in Nat
  BY ModeConstants, NonceLength
<1>2. Blocks(n) \in Nat /\ Blocks(n) <= n
  BY BlocksHold
<1>3. i \in Nat /\ i <= Blocks(n)
  BY <1>2
<1>4. ASSUME Family[a] = "GCM" PROVE i <= CtrMod[a] - 2
  <2>1. n <= (CtrMod[a] - 2) * BlockLen /\ CtrMod[a] - 2 \in Nat
    BY <1>1, <1>4 DEF Fits
  <2>2. Blocks(n) <= CtrMod[a] - 2
    BY <2>1, BlocksHold
  <2> QED
    BY <1>1, <1>2, <1>3, <2>2
<1>5. ASSUME Family[a] = "CCM" PROVE i <= Radix^CcmQ(x) - 1
  <2>1. n <= Radix^CcmQ(x) - 1
    BY <1>5 DEF Fits, CcmQ
  <2>2. Radix^CcmQ(x) \in Nat \ {0}
    BY <1>5, NonceRoom
  <2> QED
    BY <1>2, <1>3, <2>1, <2>2
<1>6. ASSUME Family[a] = "CHACHA" PROVE i <= CtrMod[a] - 1
  <2>1. Blocks(n) <= (CtrMod[a] - 1) - 1 + 1
    BY <1>6 DEF Fits
  <2> QED
    BY <1>1, <1>2, <1>3, <2>1
<1> QED
  BY <1>3, <1>4, <1>5, <1>6 DEF PlaceOk

(* Every input of one call.                                                *)
LEMMA BlockUsesOk ==
    ASSUME NEW a \in Algs, NEW x, NonceOk(a, x), NEW d, NEW n \in Nat, Fits(a, Len(x), n),
           NEW t \in TagLens[a], NEW u \in BlockUses(a, x, d, n, t)
    PROVE  UseOk(u)
<1>1. CASE \E i \in 0 .. Blocks(n) :
             u = [alg |-> a, block |-> Counter(a, x, i), nonce |-> x, use |-> i]
  <2>1. PICK i \in 0 .. Blocks(n) :
             u = [alg |-> a, block |-> Counter(a, x, i), nonce |-> x, use |-> i]
    BY <1>1
  <2>2. PlaceOk(a, x, i)
    BY PlacesFit
  <2>3. u.alg = a /\ u.block = Counter(a, x, i) /\ u.nonce = x /\ u.use = i
    BY <2>1
  <2> QED
    BY <2>2, <2>3 DEF UseOk
<1>2. CASE /\ Family[a] = "GCM"
           /\ u = [alg |-> a, block |-> HashKeyBlock, nonce |-> <<>>, use |-> -1]
  <2>1. u.alg = a /\ u.block = HashKeyBlock /\ u.nonce = <<>> /\ u.use = -1
    BY <1>2
  <2> QED
    BY <1>2, <2>1 DEF UseOk
<1>3. CASE /\ Family[a] = "CCM"
           /\ u = [alg |-> a, block |-> CcmFirst(x, d, n, t), nonce |-> x, use |-> -2]
  <2>1. u.alg = a /\ u.block = CcmFirst(x, d, n, t) /\ u.nonce = x /\ u.use = -2
    BY <1>3
  <2>2. PICK f \in 1 .. 15 : CcmFirst(x, d, n, t) = CcmHead(x, f, n)
    BY <1>3, CcmFirstIs DEF FirstBlock
  <2>3. n <= Radix^CcmQ(x) - 1
    BY <1>3 DEF Fits, CcmQ
  <2>4. Radix^CcmQ(x) \in Nat \ {0}
    BY <1>3, NonceRoom
  <2>5. n \in 0 .. Radix^CcmQ(x) - 1
    BY <2>3, <2>4
  <2> QED
    BY <1>3, <2>1, <2>2, <2>5 DEF UseOk
<1> QED
  BY <1>1, <1>2, <1>3 DEF BlockUses

UsesInv == \A u \in uses : UseOk(u)

(* No input of a block function serves twice, at any length that the       *)
(* checks let through and for any nonces.                                  *)
THEOREM KeystreamServesOnce == Spec => []KeystreamOnce
<1>1. Init => UsesInv
  BY DEF Init, UsesInv
<1>2. AInv /\ UsesInv /\ [Next]_vars => UsesInv'
  <2> SUFFICES ASSUME AInv, UsesInv, [Next]_vars PROVE UsesInv'
    OBVIOUS
  <2>1. ASSUME NEW r \in Requests, Run(r), Buffers(r), Fits(r.alg, r.nn, r.n)
        PROVE  UsesInv'
    <3>1. PICK x : x = Nonce(r)
      OBVIOUS
    <3>2. PICK d : d = Slice(mem, r.aad, r.an)
      OBVIOUS
    <3>3. uses' = uses \cup BlockUses(r.alg, x, d, r.n, r.t)
      BY <2>1, <3>1, <3>2 DEF Run
    <3>4. NonceOk(r.alg, x) /\ Len(x) = r.nn /\ r.n \in Nat
      BY <2>1, <3>1, BuffersHold DEF AInv, Nonce, NonceIn
    <3>5. r.alg \in Algs /\ r.t \in TagLens[r.alg]
      BY <2>1 DEF Buffers
    <3>6. \A u \in BlockUses(r.alg, x, d, r.n, r.t) : UseOk(u)
      BY <2>1, <3>4, <3>5, BlockUsesOk
    <3> QED
      BY <3>3, <3>6 DEF UsesInv
  <2>2. CASE uses' = uses
    BY <2>2 DEF UsesInv
  <2>3. CASE Call
    <3>1. PICK r \in Requests :
             \/ Seal(r) \/ Open(r)
             \/ \E op \in {"seal", "open"} : Refuse(op, r) \/ Overlong(op, r)
      BY <2>3 DEF Call
    <3>2. CASE Seal(r)
      BY <2>1, <3>2, SealStep DEF Seal, TooLong
    <3>3. CASE Open(r)
      BY <2>1, <3>3, OpenStep DEF Open, TooLong
    <3>4. CASE \E op \in {"seal", "open"} : Refuse(op, r) \/ Overlong(op, r)
      BY <2>2, <3>4 DEF Refuse, Overlong
    <3> QED
      BY <3>1, <3>2, <3>3, <3>4
  <2> QED
    BY <2>2, <2>3 DEF Next, Tamper, vars
<1>3. UsesInv => KeystreamOnce
  BY UsesApart DEF UsesInv, KeystreamOnce
<1> QED
  BY <1>1, <1>2, <1>3, CallsSafe, PTL DEF Spec

-----------------------------------------------------------------------------
(* What is authenticated tells the AAD and the message.                    *)

(* The length in front of the AAD in CCM.                                  *)
AadHeader(n) ==
    IF n < (Radix - 1) * Radix THEN Encode(2, n)
    ELSE IF n < Radix^LongWidth
         THEN <<Digit(Radix - 1), Digit((Radix - 1) - 1)>> \o Encode(LongWidth, n)
         ELSE <<Digit(Radix - 1), Digit(Radix - 1)>> \o Encode(LenWidth, n)

Marked(h, a, b, e) ==
    /\ IsString(h) /\ Len(h) = 2 + Len(e) /\ h[1] = a /\ h[2] = b
    /\ \A i \in 1 .. Len(e) : h[2 + i] = e[i]

(* Two bytes and a string.                                                 *)
LEMMA MarkedIs ==
    ASSUME NEW a, NEW b, NEW e, IsString(e)
    PROVE  Marked(<<a, b>> \o e, a, b, e)
<1>1. PICK m : m = <<a, b>>
  OBVIOUS
<1>2. IsString(m) /\ Len(m) = 2 /\ m[1] = a /\ m[2] = b
  BY <1>1 DEF IsString
<1>3. PICK h : h = m \o e
  OBVIOUS
<1>4. Joins(h, m, e)
  BY <1>2, <1>3, JoinedStrings
<1>5. Marked(h, a, b, e)
  BY <1>2, <1>4 DEF Joins, Marked
<1> QED
  BY <1>1, <1>3, <1>5

(* The three forms.                                                        *)
LEMMA HeaderIs ==
    ASSUME NEW n \in Nat, NEW h, h = AadHeader(n)
    PROVE  /\ IsString(h)
           /\ \/ /\ n < (Radix - 1) * Radix /\ h = Encode(2, n) /\ Len(h) = 2
                 /\ h[1] # Digit(Radix - 1)
              \/ /\ n < Radix^LongWidth
                 /\ Marked(h, Digit(Radix - 1), Digit((Radix - 1) - 1), Encode(LongWidth, n))
              \/ Marked(h, Digit(Radix - 1), Digit(Radix - 1), Encode(LenWidth, n))
<1>1. Radix \in Nat \ {0, 1} /\ LongWidth \in Nat /\ LenWidth \in Nat
  BY ModeConstants
<1>2. CASE n < (Radix - 1) * Radix
  <2>1. h = Encode(2, n)
    BY <1>2 DEF AadHeader
  <2>2. 1 \in 1 .. 2 /\ 2 - 1 = 1 /\ 2 \in Nat
    OBVIOUS
  <2>3. IsString(h) /\ Len(h) = 2 /\ h[1] = Digit((n \div Radix^1) % Radix)
    <3>1. h[1] = Digit((n \div Radix^(2 - 1)) % Radix)
      BY <2>1, <2>2, EncodeString
    <3>2. IsString(Encode(2, n)) /\ Len(Encode(2, n)) = 2
      BY <2>2, EncodeString
    <3> QED
      BY <2>1, <2>2, <3>1, <3>2
  <2>4. Radix^1 = Radix
    <3>1. 2 \in {2, LenWidth, LongWidth, CcmRoom} /\ 0 \in 0 .. 2 /\ 0 < 2 /\ 0 + 1 = 1
      OBVIOUS
    <3>2. Radix^(0 + 1) = Radix * Radix^0
      BY <3>1, PowersOfRadix
    <3>3. Radix^0 = 1
      BY PowersOfRadix
    <3> QED
      BY <1>1, <3>1, <3>2, <3>3
  <2>5. PICK q : q = n \div Radix
    OBVIOUS
  <2>6. PICK r : r = n % Radix
    OBVIOUS
  <2>7. q \in Nat /\ r \in 0 .. Radix - 1 /\ n = Radix * q + r
    BY <1>1, <2>5, <2>6, Division
  <2>8. q < Radix - 1
    <3> SUFFICES ASSUME q >= Radix - 1 PROVE FALSE
      BY <1>1, <2>7
    <3>1. Radix * q >= Radix * (Radix - 1)
      BY <1>1, <2>7
    <3> QED
      BY <1>1, <1>2, <2>7, <3>1
  <2>9. q % Radix = q
    BY <1>1, <2>7, <2>8, SmallRest
  <2>10. h[1] = Digit(q)
    BY <2>3, <2>4, <2>5, <2>9
  <2>11. q # Radix - 1
    BY <1>1, <2>7, <2>8
  <2>12. Digit(q) # Digit(Radix - 1)
    BY <2>11, DigitTells
  <2> QED
    BY <1>2, <2>1, <2>3, <2>10, <2>12
<1>3. CASE ~ (n < (Radix - 1) * Radix) /\ n < Radix^LongWidth
  <2>1. h = <<Digit(Radix - 1), Digit((Radix - 1) - 1)>> \o Encode(LongWidth, n)
    BY <1>3 DEF AadHeader
  <2>2. IsString(Encode(LongWidth, n))
    BY <1>1, EncodeString
  <2>3. Marked(h, Digit(Radix - 1), Digit((Radix - 1) - 1), Encode(LongWidth, n))
    BY <2>1, <2>2, MarkedIs
  <2>4. IsString(h)
    BY <2>3 DEF Marked
  <2> QED
    BY <1>3, <2>3, <2>4
<1>4. CASE ~ (n < (Radix - 1) * Radix) /\ ~ (n < Radix^LongWidth)
  <2>1. h = <<Digit(Radix - 1), Digit(Radix - 1)>> \o Encode(LenWidth, n)
    BY <1>4 DEF AadHeader
  <2>2. IsString(Encode(LenWidth, n))
    BY <1>1, EncodeString
  <2>3. Marked(h, Digit(Radix - 1), Digit(Radix - 1), Encode(LenWidth, n))
    BY <2>1, <2>2, MarkedIs
  <2>4. IsString(h)
    BY <2>3 DEF Marked
  <2> QED
    BY <2>3, <2>4
<1> QED
  BY <1>2, <1>3, <1>4

(* The string z begins with h.                                             *)
Begins(z, h) == \A i \in 1 .. Len(h) : z[i] = h[i]

(* Two strings that z begins with, each with its two marks.                *)
LEMMA MarksTell ==
    ASSUME NEW z, NEW h, NEW k, Begins(z, h), Begins(z, k),
           NEW a, NEW b, NEW e, Marked(h, a, b, e), IsString(e),
           NEW c, NEW d, NEW f, Marked(k, c, d, f), IsString(f)
    PROVE  a = c /\ b = d /\ (Len(e) = Len(f) => e = f)
<1>1. Len(e) \in Nat /\ Len(f) \in Nat
  BY DEF IsString
<1>2. /\ Len(h) = 2 + Len(e) /\ h[1] = a /\ h[2] = b
      /\ Len(k) = 2 + Len(f) /\ k[1] = c /\ k[2] = d
  BY DEF Marked
<1>3. /\ 1 \in 1 .. Len(h) /\ 2 \in 1 .. Len(h)
      /\ 1 \in 1 .. Len(k) /\ 2 \in 1 .. Len(k)
  BY <1>1, <1>2
<1>4. a = c /\ b = d
  BY <1>2, <1>3 DEF Begins
<1>5. ASSUME Len(e) = Len(f) PROVE e = f
  <2>1. ASSUME NEW i \in 1 .. Len(e) PROVE e[i] = f[i]
    <3>1. 2 + i \in 1 .. Len(h) /\ 2 + i \in 1 .. Len(k) /\ i \in 1 .. Len(f)
      BY <1>1, <1>2, <1>5
    <3>2. e[i] = h[2 + i] /\ f[i] = k[2 + i]
      BY <3>1 DEF Marked
    <3> QED
      BY <3>1, <3>2 DEF Begins
  <2> QED
    BY <1>5, <2>1, StringEqual
<1> QED
  BY <1>4, <1>5

(* A string that begins with the header of a length tells the length.      *)
LEMMA HeadersTell ==
    ASSUME NEW m \in Nat, NEW n \in Nat, m < Radix^LenWidth, n < Radix^LenWidth,
           NEW h, h = AadHeader(m), NEW k, k = AadHeader(n), NEW z, Begins(z, h), Begins(z, k)
    PROVE  m = n
<1>1. /\ LongWidth \in Nat /\ LenWidth \in Nat /\ Radix \in Nat \ {0, 1}
      /\ 2 \in Widths /\ LenWidth \in Widths /\ LongWidth \in Widths
  BY ModeConstants DEF Widths
<1>2. /\ IsString(Encode(LongWidth, m)) /\ Len(Encode(LongWidth, m)) = LongWidth
      /\ IsString(Encode(LongWidth, n)) /\ Len(Encode(LongWidth, n)) = LongWidth
      /\ IsString(Encode(LenWidth, m)) /\ Len(Encode(LenWidth, m)) = LenWidth
      /\ IsString(Encode(LenWidth, n)) /\ Len(Encode(LenWidth, n)) = LenWidth
  BY <1>1, EncodeString
<1> DEFINE T == Digit(Radix - 1)
           S == Digit((Radix - 1) - 1)
           Short(l, s) == /\ l < (Radix - 1) * Radix /\ s = Encode(2, l) /\ Len(s) = 2
                          /\ s[1] # T
           Middle(l, s) == l < Radix^LongWidth /\ Marked(s, T, S, Encode(LongWidth, l))
           Long(l, s) == Marked(s, T, T, Encode(LenWidth, l))
<1>3. T # S
  <2>1. Radix - 1 # (Radix - 1) - 1
    BY <1>1
  <2> QED
    BY <2>1, DigitTells
<1>4. Short(m, h) \/ Middle(m, h) \/ Long(m, h)
  BY HeaderIs
<1>5. Short(n, k) \/ Middle(n, k) \/ Long(n, k)
  BY HeaderIs
<1> HIDE DEF T, S
<1>6. h[1] = k[1]
  <2>1. ASSUME NEW l, NEW s, Short(l, s) \/ Middle(l, s) \/ Long(l, s),
               IsString(Encode(LongWidth, l)), IsString(Encode(LenWidth, l))
        PROVE  1 \in 1 .. Len(s)
    <3>1. CASE Short(l, s)
      BY <3>1
    <3>2. ASSUME NEW b, NEW e, IsString(e), Marked(s, T, b, e) PROVE 1 \in 1 .. Len(s)
      <4>1. Len(e) \in Nat /\ Len(s) = 2 + Len(e)
        BY <3>2 DEF IsString, Marked
      <4> QED
        BY <4>1
    <3> QED
      BY <2>1, <3>1, <3>2
  <2>2. 1 \in 1 .. Len(h) /\ 1 \in 1 .. Len(k)
    BY <1>2, <1>4, <1>5, <2>1
  <2> QED
    BY <2>2 DEF Begins
<1>7. CASE Short(m, h) /\ Short(n, k)
  <2>1. h = k
    <3>1. IsString(h) /\ IsString(k) /\ Len(h) = Len(k)
      BY <1>7, HeaderIs
    <3>2. \A i \in 1 .. Len(h) : h[i] = k[i]
      BY <1>7 DEF Begins
    <3> QED
      BY <3>1, <3>2, StringEqual
  <2>2. Radix^2 = Radix * Radix
    <3>1. 0 \in 0 .. 2 /\ 1 \in 0 .. 2 /\ 0 < 2 /\ 1 < 2 /\ 0 + 1 = 1 /\ 1 + 1 = 2
          /\ 2 \in {2, LenWidth, LongWidth, CcmRoom}
      OBVIOUS
    <3>2. Radix^(0 + 1) = Radix * Radix^0 /\ Radix^(1 + 1) = Radix * Radix^1 /\ Radix^0 = 1
      BY <3>1, PowersOfRadix
    <3>3. Radix^1 = Radix * 1 /\ Radix^2 = Radix * Radix^1
      BY <3>1, <3>2
    <3>4. Radix * 1 = Radix
      BY <1>1
    <3> QED
      BY <3>3, <3>4
  <2>3. (Radix - 1) * Radix <= Radix * Radix
    BY <1>1
  <2>4. m < Radix^2 /\ n < Radix^2
    BY <1>1, <1>7, <2>2, <2>3
  <2>5. Encode(2, m) = Encode(2, n) /\ 2 \in 0 .. 2
    BY <1>7, <2>1
  <2> QED
    BY <1>1, <2>4, <2>5, EncodeTells
<1>8. ASSUME NEW l, NEW s, Middle(l, s) \/ Long(l, s) PROVE s[1] = T
  BY <1>8 DEF Marked
<1>9. CASE Middle(m, h) /\ Middle(n, k)
  <2>1. Encode(LongWidth, m) = Encode(LongWidth, n)
    BY <1>2, <1>9, MarksTell
  <2>2. LongWidth \in 0 .. LongWidth
    BY <1>1
  <2> QED
    BY <1>1, <1>9, <2>1, <2>2, EncodeTells
<1>10. CASE Long(m, h) /\ Long(n, k)
  <2>1. Encode(LenWidth, m) = Encode(LenWidth, n)
    BY <1>2, <1>10, MarksTell
  <2> QED
    BY <2>1, LengthTells
<1>11. ASSUME Middle(m, h) /\ Long(n, k) PROVE FALSE
  BY <1>2, <1>3, <1>11, MarksTell
<1>12. ASSUME Long(m, h) /\ Middle(n, k) PROVE FALSE
  BY <1>2, <1>3, <1>12, MarksTell
<1>13. ASSUME Short(m, h), Middle(n, k) \/ Long(n, k) PROVE FALSE
  BY <1>6, <1>8, <1>13
<1>14. ASSUME Short(n, k), Middle(m, h) \/ Long(m, h) PROVE FALSE
  BY <1>6, <1>8, <1>14
<1> HIDE DEF Short, Middle, Long
<1> QED
  BY <1>4, <1>5, <1>7, <1>9, <1>10, <1>11, <1>12, <1>13, <1>14

(* The AAD of CCM, if there is any, is told by what is authenticated.      *)
LEMMA CcmAadTells ==
    ASSUME NEW d, IsString(d), Len(d) < Radix^LenWidth,
           NEW e, IsString(e), Len(e) < Radix^LenWidth,
           d # <<>> <=> e # <<>>, CcmAad(d) = CcmAad(e)
    PROVE  d = e
<1>1. Len(d) \in Nat /\ Len(e) \in Nat
  BY DEF IsString
<1>2. ASSUME NEW s, IsString(s) PROVE Len(s) = 0 <=> s = <<>>
  <2>1. ASSUME Len(s) = 0 PROVE s = <<>>
    <3>1. s = [i \in 1 .. 0 |-> s[i]]
      BY <1>2, <2>1 DEF IsString
    <3>2. 1 .. 0 = {}
      OBVIOUS
    <3>3. <<>> = [i \in 1 .. 0 |-> s[i]]
      BY <3>2
    <3> QED
      BY <3>1, <3>3
  <2> QED
    BY <2>1
<1>3. CASE Len(d) = 0
  <2>1. d = <<>>
    BY <1>2, <1>3
  <2>2. e = <<>>
    BY <2>1
  <2> QED
    BY <2>1, <2>2
<1>4. CASE Len(d) # 0
  <2>1. Len(e) # 0
    BY <1>2, <1>4
  <2>2. PICK h : h = AadHeader(Len(d))
    OBVIOUS
  <2>3. PICK k : k = AadHeader(Len(e))
    OBVIOUS
  <2>4. PICK u : u = h \o d
    OBVIOUS
  <2>5. PICK v : v = k \o e
    OBVIOUS
  <2>6. CcmAad(d) = Pad(u)
    BY <1>4, <2>2, <2>4 DEF CcmAad, AadHeader
  <2>7. CcmAad(e) = Pad(v)
    BY <2>1, <2>3, <2>5 DEF CcmAad, AadHeader
  <2>8. IsString(h) /\ IsString(k)
    BY <1>1, <2>2, <2>3, HeaderIs
  <2>9. Joins(u, h, d)
    BY <2>4, <2>8, JoinedStrings
  <2>10. Joins(v, k, e)
    BY <2>5, <2>8, JoinedStrings
  <2>11. PICK z : z = Pad(u)
    OBVIOUS
  <2>12. z = Pad(v)
    BY <2>6, <2>7, <2>11
  <2>13. ASSUME NEW w, NEW g, NEW c, Joins(w, g, c), IsString(g), IsString(c), z = Pad(w)
         PROVE  Begins(z, g)
    <3>1. Len(g) \in Nat /\ Len(c) \in Nat /\ Len(w) = Len(g) + Len(c) /\ IsString(w)
      BY <2>13 DEF IsString, Joins
    <3>2. \A i \in 1 .. Len(g) : i \in 1 .. Len(w)
      BY <3>1
    <3>3. \A i \in 1 .. Len(w) : z[i] = w[i]
      BY <2>13, <3>1, PadString
    <3>4. \A i \in 1 .. Len(g) : w[i] = g[i]
      BY <2>13 DEF Joins
    <3> QED
      BY <3>2, <3>3, <3>4 DEF Begins
  <2>14. Begins(z, h)
    BY <2>8, <2>9, <2>11, <2>13
  <2>15. Begins(z, k)
    BY <2>8, <2>10, <2>12, <2>13
  <2>16. Len(d) = Len(e)
    BY <1>1, <2>2, <2>3, <2>14, <2>15, HeadersTell
  <2>17. h = k
    BY <2>2, <2>3, <2>16
  <2>18. IsString(u) /\ IsString(v) /\ Len(u) = Len(v)
    BY <2>9, <2>10, <2>16, <2>17 DEF Joins
  <2>19. u = v
    BY <2>11, <2>12, <2>18, PadTells
  <2> QED
    BY <2>8, <2>9, <2>10, <2>16, <2>19, JoinTells
<1> QED
  BY <1>3, <1>4

(* The first of three parts.                                               *)
LEMMA FirstTells ==
    ASSUME NEW u, NEW v, NEW z,
           NEW g, NEW x, NEW e, IsString(g), IsString(x), IsString(e),
           NEW h, NEW y, NEW f, IsString(h), IsString(y), IsString(f),
           Joins(u, g, x), Joins(z, u, e), Joins(v, h, y), Joins(z, v, f),
           Len(g) = Len(h)
    PROVE  g = h
<1>1. Len(g) \in Nat /\ Len(x) \in Nat /\ Len(h) \in Nat /\ Len(y) \in Nat
  BY DEF IsString
<1>2. Len(u) = Len(g) + Len(x) /\ Len(v) = Len(h) + Len(y)
  BY DEF Joins
<1>3. \A i \in 1 .. Len(g) : i \in 1 .. Len(u) /\ i \in 1 .. Len(v)
  BY <1>1, <1>2
<1>4. ASSUME NEW i \in 1 .. Len(g) PROVE g[i] = h[i]
  <2>1. z[i] = u[i] /\ z[i] = v[i]
    BY <1>3 DEF Joins
  <2>2. u[i] = g[i] /\ v[i] = h[i]
    BY DEF Joins
  <2> QED
    BY <2>1, <2>2
<1> QED
  BY <1>4, StringEqual

(* What CCM authenticates.                                                 *)
LEMMA CcmContentTells ==
    ASSUME NEW a \in Algs, Family[a] = "CCM", NEW x, NonceOk(a, x),
           NEW d, IsString(d), Len(d) < Radix^LenWidth, NEW p, IsString(p),
           NEW t \in TagLens[a], Fits(a, Len(x), Len(p)),
           NEW e, IsString(e), Len(e) < Radix^LenWidth, NEW q, IsString(q),
           NEW w \in TagLens[a], Fits(a, Len(x), Len(q)),
           CcmFirst(x, d, Len(p), t) \o CcmAad(d) \o Pad(p)
             = CcmFirst(x, e, Len(q), w) \o CcmAad(e) \o Pad(q)
    PROVE  d = e /\ p = q
<1>1. /\ Radix^CcmQ(x) \in Nat \ {0} /\ IsString(x) /\ CcmQ(x) \in Nat /\ Len(x) \in Nat
      /\ Len(p) \in Nat /\ Len(q) \in Nat /\ Len(d) \in Nat /\ Len(e) \in Nat
  BY NonceRoom, NonceLength DEF IsString
<1>2. Len(p) < Radix^CcmQ(x) /\ Len(q) < Radix^CcmQ(x)
  BY <1>1 DEF Fits, CcmQ
<1>3. PICK g : g = CcmFirst(x, d, Len(p), t)
  OBVIOUS
<1>4. PICK h : h = CcmFirst(x, e, Len(q), w)
  OBVIOUS
<1>5. PICK b \in 1 .. 15 : g = CcmHead(x, b, Len(p)) /\ (b >= 8 <=> d # <<>>)
  <2>1. FirstBlock(CcmFirst(x, d, Len(p), t), x, d, Len(p))
    BY CcmFirstIs
  <2> QED
    BY <1>3, <2>1 DEF FirstBlock
<1>6. PICK c \in 1 .. 15 : h = CcmHead(x, c, Len(q)) /\ (c >= 8 <=> e # <<>>)
  <2>1. FirstBlock(CcmFirst(x, e, Len(q), w), x, e, Len(q))
    BY CcmFirstIs
  <2> QED
    BY <1>4, <2>1 DEF FirstBlock
<1>7. ASSUME NEW f, NEW n, NEW s, s = CcmHead(x, f, n)
      PROVE  IsString(s) /\ Len(s) = 1 + Len(x) + CcmQ(x)
  <2>1. PICK v : v = Encode(CcmQ(x), n)
    OBVIOUS
  <2>2. IsString(v) /\ Len(v) = CcmQ(x)
    BY <1>1, <2>1, EncodeString
  <2>3. PICK y : y = Digit(8 * f + (CcmQ(x) - 1))
    OBVIOUS
  <2>4. Assembled(s, y, x, v)
    BY <1>7, <2>1, <2>3 DEF CcmHead, Assembled
  <2> QED
    BY <1>1, <2>2, <2>4, HeadedString DEF Headed
<1>8. IsString(g) /\ IsString(h) /\ Len(g) = Len(h)
  BY <1>5, <1>6, <1>7
<1>9. PICK i : i = CcmAad(d)
  OBVIOUS
<1>10. PICK j : j = CcmAad(e)
  OBVIOUS
<1>11. ASSUME NEW s, IsString(s), NEW v, v = CcmAad(s) PROVE IsString(v)
  <2>1. Len(s) \in Nat
    BY <1>11 DEF IsString
  <2>2. CASE Len(s) = 0
    <3>1. v = <<>>
      BY <1>11, <2>2 DEF CcmAad
    <3>2. Len(<<>>) = 0 /\ <<>> = [m \in 1 .. 0 |-> <<>>[m]]
      OBVIOUS
    <3> QED
      BY <3>1, <3>2 DEF IsString
  <2>3. CASE Len(s) # 0
    <3>1. PICK k : k = AadHeader(Len(s))
      OBVIOUS
    <3>2. IsString(k)
      BY <2>1, <3>1, HeaderIs
    <3>3. PICK u : u = k \o s
      OBVIOUS
    <3>4. IsString(u)
      BY <1>11, <3>2, <3>3, JoinedStrings DEF Joins
    <3>5. v = Pad(u)
      BY <1>11, <2>3, <3>1, <3>3 DEF CcmAad, AadHeader
    <3> QED
      BY <3>4, <3>5, PadString
  <2> QED
    BY <2>2, <2>3
<1>12. IsString(i) /\ IsString(j)
  BY <1>9, <1>10, <1>11
<1>13. PICK k : k = Pad(p)
  OBVIOUS
<1>14. PICK l : l = Pad(q)
  OBVIOUS
<1>15. IsString(k) /\ IsString(l)
  BY <1>13, <1>14, PadString
<1>16. PICK u : u = g \o i
  OBVIOUS
<1>17. PICK v : v = h \o j
  OBVIOUS
<1>18. PICK z : z = u \o k
  OBVIOUS
<1>19. z = v \o l
  BY <1>3, <1>4, <1>9, <1>10, <1>13, <1>14, <1>16, <1>17, <1>18
<1>20. Joins(u, g, i)
  BY <1>8, <1>12, <1>16, JoinedStrings
<1>21. Joins(v, h, j)
  BY <1>8, <1>12, <1>17, JoinedStrings
<1>22. IsString(u) /\ IsString(v)
  BY <1>20, <1>21 DEF Joins
<1>23. Joins(z, u, k)
  BY <1>15, <1>18, <1>22, JoinedStrings
<1>24. Joins(z, v, l)
  BY <1>15, <1>19, <1>22, JoinedStrings
<1>25. g = h
  BY <1>8, <1>12, <1>15, <1>20, <1>21, <1>23, <1>24, FirstTells
<1>26. b = c /\ Len(p) = Len(q)
  <2>1. CcmHead(x, b, Len(p)) = CcmHead(x, c, Len(q))
    BY <1>5, <1>6, <1>25, Zenon
  <2>2. b \in Nat /\ c \in Nat
    OBVIOUS
  <2> QED
    BY <1>1, <1>2, <2>1, <2>2, CcmHeadTells
<1>27. Len(k) = Len(l)
  BY <1>13, <1>14, <1>26, PadString
<1>28. i = j /\ k = l
  BY <1>8, <1>12, <1>15, <1>20, <1>21, <1>23, <1>24, <1>27, ThreeTell
<1>29. p = q
  BY <1>13, <1>14, <1>26, <1>28, PadTells
<1>30. d # <<>> <=> e # <<>>
  BY <1>5, <1>6, <1>26
<1>31. d = e
  BY <1>9, <1>10, <1>28, <1>30, CcmAadTells
<1> QED
  BY <1>29, <1>31

(* What GCM and ChaCha20-Poly1305 authenticate is read from its end.       *)
LEMMA PaddedContentTells ==
    ASSUME NEW d, IsString(d), Len(d) < Radix^LenWidth,
           NEW c, IsString(c), Len(c) < Radix^LenWidth,
           NEW e, IsString(e), Len(e) < Radix^LenWidth,
           NEW b, IsString(b), Len(b) < Radix^LenWidth,
           PaddedContent(d, c) = PaddedContent(e, b)
    PROVE  d = e /\ c = b
<1>1. /\ LenWidth \in Nat
      /\ Len(d) \in Nat /\ Len(c) \in Nat /\ Len(e) \in Nat /\ Len(b) \in Nat
  BY ModeConstants DEF IsString
<1>2. PICK g : g = Pad(d)
  OBVIOUS
<1>3. PICK i : i = Pad(c)
  OBVIOUS
<1>4. PICK k : k = Encode(LenWidth, Len(d))
  OBVIOUS
<1>5. PICK m : m = Encode(LenWidth, Len(c))
  OBVIOUS
<1>6. PICK h : h = Pad(e)
  OBVIOUS
<1>7. PICK j : j = Pad(b)
  OBVIOUS
<1>8. PICK l : l = Encode(LenWidth, Len(e))
  OBVIOUS
<1>9. PICK n : n = Encode(LenWidth, Len(b))
  OBVIOUS
<1>10. IsString(g) /\ IsString(i) /\ IsString(h) /\ IsString(j)
  BY <1>2, <1>3, <1>6, <1>7, PadString
<1>11. /\ IsString(k) /\ IsString(m) /\ IsString(l) /\ IsString(n)
       /\ Len(k) = LenWidth /\ Len(m) = LenWidth /\ Len(l) = LenWidth /\ Len(n) = LenWidth
  BY <1>1, <1>4, <1>5, <1>8, <1>9, EncodeString
<1>12. PICK u : u = g \o i
  OBVIOUS
<1>13. PICK v : v = u \o k
  OBVIOUS
<1>14. PICK r : r = h \o j
  OBVIOUS
<1>15. PICK s : s = r \o l
  OBVIOUS
<1>16. PICK z : z = v \o m
  OBVIOUS
<1>17. z = s \o n
  BY <1>2, <1>3, <1>4, <1>5, <1>6, <1>7, <1>8, <1>9, <1>12, <1>13, <1>14, <1>15, <1>16
     DEF PaddedContent
<1>18. Joins(u, g, i)
  BY <1>10, <1>12, JoinedStrings
<1>19. Joins(r, h, j)
  BY <1>10, <1>14, JoinedStrings
<1>20. IsString(u) /\ IsString(r)
  BY <1>18, <1>19 DEF Joins
<1>21. Joins(v, u, k)
  BY <1>11, <1>13, <1>20, JoinedStrings
<1>22. Joins(s, r, l)
  BY <1>11, <1>15, <1>20, JoinedStrings
<1>23. IsString(v) /\ IsString(s)
  BY <1>21, <1>22 DEF Joins
<1>24. Joins(z, v, m)
  BY <1>11, <1>16, <1>23, JoinedStrings
<1>25. Joins(z, s, n)
  BY <1>11, <1>17, <1>23, JoinedStrings
<1>26. v = s /\ m = n
  BY <1>11, <1>23, <1>24, <1>25, JoinTells
<1>27. Joins(v, r, l)
  BY <1>22, <1>26
<1>28. u = r /\ k = l
  BY <1>11, <1>20, <1>21, <1>27, JoinTells
<1>29. Len(d) = Len(e) /\ Len(c) = Len(b)
  BY <1>1, <1>4, <1>5, <1>8, <1>9, <1>26, <1>28, LengthTells
<1>30. Len(g) = Len(h)
  BY <1>2, <1>6, <1>29, PadString
<1>31. Joins(u, h, j)
  BY <1>19, <1>28
<1>32. g = h /\ i = j
  BY <1>10, <1>18, <1>30, <1>31, JoinTells
<1> QED
  BY <1>2, <1>3, <1>6, <1>7, <1>29, <1>32, PadTells

(* The tag of a message tells the AAD and the message, under one nonce.    *)
LEMMA ContentTells ==
    ASSUME NEW a \in Algs, NEW x, NonceOk(a, x),
           NEW d, IsString(d), Len(d) < Radix^LenWidth,
           NEW p, IsString(p), Len(p) < Radix^LenWidth, Fits(a, Len(x), Len(p)),
           NEW t \in TagLens[a],
           NEW e, IsString(e), Len(e) < Radix^LenWidth,
           NEW q, IsString(q), Len(q) < Radix^LenWidth, Fits(a, Len(x), Len(q)),
           NEW w \in TagLens[a],
           Content(a, x, d, p, Ciphered(a, x, p), t) = Content(a, x, e, q, Ciphered(a, x, q), w)
    PROVE  d = e /\ p = q
<1>1. CASE Family[a] = "CCM"
  <2>1. CcmFirst(x, d, Len(p), t) \o CcmAad(d) \o Pad(p)
          = CcmFirst(x, e, Len(q), w) \o CcmAad(e) \o Pad(q)
    BY <1>1 DEF Content
  <2> QED
    BY <1>1, <2>1, CcmContentTells
<1>2. CASE Family[a] # "CCM"
  <2>1. PICK c : c = Ciphered(a, x, p)
    OBVIOUS
  <2>2. PICK b : b = Ciphered(a, x, q)
    OBVIOUS
  <2>3. /\ IsString(c) /\ Len(c) = Len(p) /\ Ciphered(a, x, c) = p
        /\ IsString(b) /\ Len(b) = Len(q) /\ Ciphered(a, x, b) = q
    BY <2>1, <2>2, CipheredTwice
  <2>4. PaddedContent(d, c) = PaddedContent(e, b)
    BY <1>2, <2>1, <2>2 DEF Content
  <2>5. d = e /\ c = b
    BY <2>3, <2>4, PaddedContentTells
  <2> QED
    BY <2>3, <2>5
<1> QED
  BY <1>1, <1>2

(* What opens was sealed.                                                  *)
LEMMA OpenedWasSealed ==
    ASSUME AInv, NEW r \in Requests, Open(r)
    PROVE  WasSealed(call', sealed)
<1>1. PICK c : c = call'
  OBVIOUS
<1>2. /\ Buffers(r) /\ CallOk(c) /\ c.op = "open" /\ c.ret # "MESSAGE_TOO_LARGE"
      /\ c.req = r /\ c.nonce = NonceIn(mem, r) /\ c.aad = Aad(mem, r)
      /\ c.text = Text(mem, r) /\ c.tag = Slice(mem, r.tag, r.t)
  BY <1>1, OpenStep
<1> SUFFICES ASSUME c.ret = "SUCCESS"
             PROVE  \E s \in sealed :
                       /\ s.alg = c.req.alg /\ s.nonce = c.nonce /\ s.aad = c.aad
                       /\ s.cipher = c.text /\ s.plain = c.result
  BY <1>1, <1>2 DEF WasSealed
<1>3. TagHolds(c) /\ c.result = Message(c)
  BY <1>2 DEF CallOk
<1>4. PICK a : a = r.alg
  OBVIOUS
<1>5. PICK x : x = c.nonce
  OBVIOUS
<1>6. PICK d : d = c.aad
  OBVIOUS
<1>7. PICK q : q = c.text
  OBVIOUS
<1>8. PICK p : p = Ciphered(a, x, q)
  OBVIOUS
<1>9. Clean(mem, sealed)
  BY DEF AInv
<1>10. /\ NonceOk(a, x) /\ Len(x) = r.nn
       /\ IsString(d) /\ Len(d) < Radix^LenWidth
       /\ IsString(q) /\ Len(q) = r.n /\ r.n < Radix^LenWidth
  BY <1>2, <1>4, <1>5, <1>6, <1>7, <1>9, BuffersHold
<1>11. a \in Algs /\ r.t \in TagLens[a] /\ r.t \in Nat \ {0} /\ Inside(r.tag, r.t)
  BY <1>2, <1>4, ModeConstants DEF Buffers
<1>12. IsString(p) /\ Len(p) = r.n /\ Ciphered(a, x, p) = q
  BY <1>8, <1>10, CipheredTwice
<1>13. Message(c) = p
  BY <1>2, <1>4, <1>5, <1>7, <1>8 DEF Message
<1>14. PICK g : g = c.tag
  OBVIOUS
<1>15. Len(g) = r.t /\ g[1] = mem[r.tag]
  <2>1. 1 \in 1 .. r.t /\ r.tag + 1 - 1 = r.tag
    BY <1>11 DEF Inside
  <2> QED
    BY <1>2, <1>11, <1>14, <2>1, SliceString
<1>16. g = Tag(a, x, d, p, q, r.t)
  BY <1>2, <1>3, <1>4, <1>5, <1>6, <1>7, <1>13, <1>14, <1>15 DEF TagHolds
<1>17. PICK m : m = <<"mac", a, Counter(a, x, 0), Content(a, x, d, p, q, r.t), 1>>
  OBVIOUS
<1>18. m \in mem[r.tag]
  <2>1. 1 \in 1 .. r.t
    BY <1>11
  <2>2. g[1] = {m}
    BY <1>11, <1>16, <1>17, <2>1, TagString
  <2> QED
    BY <1>15, <2>2
<1>19. r.tag \in Memory
  <2>1. 1 \in 1 .. r.t /\ r.tag + 1 - 1 = r.tag
    BY <1>11 DEF Inside
  <2> QED
    BY <1>11, <2>1, SliceAddresses
<1>20. m[1] = "mac"
  BY <1>17
<1>21. PICK s \in sealed : MacOf(m, s)
  BY <1>9, <1>18, <1>19, <1>20 DEF Clean, ByteOk
<1>22. SealOk(s)
  BY DEF AInv
<1>23. /\ s.alg = a
       /\ Counter(s.alg, s.nonce, 0) = Counter(a, x, 0)
       /\ Content(s.alg, s.nonce, s.aad, s.plain, s.cipher, Len(s.tag))
            = Content(a, x, d, p, q, r.t)
  <2>1. PICK A : A = Counter(s.alg, s.nonce, 0)
    OBVIOUS
  <2>2. PICK B : B = Content(s.alg, s.nonce, s.aad, s.plain, s.cipher, Len(s.tag))
    OBVIOUS
  <2>3. m = <<"mac", s.alg, A, B, m[5]>>
    BY <1>21, <2>1, <2>2 DEF MacOf
  <2>4. PICK C : C = Counter(a, x, 0)
    OBVIOUS
  <2>5. PICK D : D = Content(a, x, d, p, q, r.t)
    OBVIOUS
  <2>6. m = <<"mac", a, C, D, 1>>
    BY <1>17, <2>4, <2>5
  <2>7. m[2] = s.alg /\ m[3] = A /\ m[4] = B
    BY <2>3
  <2>8. m[2] = a /\ m[3] = C /\ m[4] = D
    BY <2>6
  <2> QED
    BY <2>1, <2>2, <2>4, <2>5, <2>7, <2>8
<1>24. PICK y : y = s.nonce
  OBVIOUS
<1>25. NonceOk(a, y) /\ Counter(a, y, 0) = Counter(a, x, 0)
  BY <1>22, <1>23, <1>24 DEF SealOk
<1>26. ASSUME NEW z, NonceOk(a, z) PROVE PlaceOk(a, z, 0)
  <2>1. CtrMod[a] \in Nat \ {0, 1}
    BY <1>11, ModeConstants
  <2>2. Family[a] = "CCM" => Radix^CcmQ(z) \in Nat \ {0}
    BY <1>11, <1>26, NonceRoom
  <2> QED
    BY <2>1, <2>2 DEF PlaceOk
<1>27. y = x
  BY <1>10, <1>11, <1>25, <1>26, CounterTells
<1>28. /\ IsString(s.aad) /\ Len(s.aad) < Radix^LenWidth
       /\ IsString(s.plain) /\ Len(s.plain) < Radix^LenWidth
       /\ Fits(a, Len(x), Len(s.plain)) /\ Len(s.tag) \in TagLens[a]
       /\ s.cipher = Ciphered(a, x, s.plain)
  BY <1>22, <1>23, <1>24, <1>27 DEF SealOk
<1>29. Fits(a, Len(x), Len(p))
  BY <1>4, <1>10, <1>12 DEF Open, TooLong
<1>30. Content(a, x, s.aad, s.plain, Ciphered(a, x, s.plain), Len(s.tag))
         = Content(a, x, d, p, Ciphered(a, x, p), r.t)
  BY <1>12, <1>23, <1>24, <1>27, <1>28
<1>31. Len(p) < Radix^LenWidth
  BY <1>10, <1>12
<1>32. s.aad = d /\ s.plain = p
  <2>1. PICK f : f = s.aad
    OBVIOUS
  <2>2. PICK v : v = s.plain
    OBVIOUS
  <2>3. PICK w : w = Len(s.tag)
    OBVIOUS
  <2>4. /\ IsString(f) /\ Len(f) < Radix^LenWidth
        /\ IsString(v) /\ Len(v) < Radix^LenWidth
        /\ Fits(a, Len(x), Len(v)) /\ w \in TagLens[a]
        /\ Content(a, x, f, v, Ciphered(a, x, v), w) = Content(a, x, d, p, Ciphered(a, x, p), r.t)
    BY <1>28, <1>30, <2>1, <2>2, <2>3
  <2>5. f = d /\ v = p
    BY <1>10, <1>11, <1>12, <1>29, <1>31, <2>4, ContentTells
  <2> QED
    BY <2>1, <2>2, <2>5
<1>33. s.cipher = q
  BY <1>12, <1>28, <1>32
<1> QED
  BY <1>2, <1>3, <1>4, <1>5, <1>6, <1>7, <1>13, <1>23, <1>24, <1>27, <1>32, <1>33

(* A call that opens answers with a message that was sealed with the same  *)
(* nonce and AAD, or with zeros, for every length its mode allows.         *)
THEOREM OpenedWasSealedOrNothing == Spec => []OpenedOrNothing
<1>1. Init => WasSealed(call, sealed)
  BY DEF Init, WasSealed, Refused
<1>2. AInv /\ WasSealed(call, sealed) /\ [Next]_vars => WasSealed(call, sealed)'
  <2> SUFFICES ASSUME AInv, WasSealed(call, sealed), [Next]_vars
               PROVE  WasSealed(call', sealed')
    OBVIOUS
  <2>1. CASE UNCHANGED vars
    BY <2>1 DEF vars
  <2>2. CASE Tamper
    BY <2>2 DEF Tamper, Refused, WasSealed
  <2>3. CASE Call
    <3>1. PICK r \in Requests :
             \/ Seal(r) \/ Open(r)
             \/ \E op \in {"seal", "open"} : Refuse(op, r) \/ Overlong(op, r)
      BY <2>3 DEF Call
    <3>2. CASE Seal(r)
      BY <3>2, SealStep DEF WasSealed
    <3>3. CASE Open(r)
      BY <3>3, OpenedWasSealed DEF Open
    <3>4. ASSUME NEW op \in {"seal", "open"}, Refuse(op, r) PROVE WasSealed(call', sealed')
      BY <3>4 DEF Refuse, Refused, WasSealed
    <3>5. ASSUME NEW op \in {"seal", "open"}, Overlong(op, r)
          PROVE  WasSealed(call', sealed')
      BY <3>5, OverlongStep DEF WasSealed
    <3> QED
      BY <3>1, <3>2, <3>3, <3>4, <3>5
  <2> QED
    BY <2>1, <2>2, <2>3 DEF Next
<1>3. AInv /\ WasSealed(call, sealed) => OpenedOrNothing
  <2> SUFFICES ASSUME AInv, WasSealed(call, sealed) PROVE TypeOK /\ Authentic /\ FailureClears
    BY DEF OpenedOrNothing
  <2>1. TypeOK
    BY DEF AInv, CallOk, IsMemory, TypeOK, Completed
  <2>2. Authentic
    BY DEF WasSealed, Authentic, Completed, Matches
  <2>3. FailureClears
    BY DEF AInv, CallOk, FailureClears, Completed
  <2> QED
    BY <2>1, <2>2, <2>3
<1> QED
  BY <1>1, <1>2, <1>3, CallsSafe, PTL DEF Spec
=============================================================================
