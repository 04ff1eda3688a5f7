----------------------------- MODULE Bignum_proofs -----------------------------
(*****************************************************************************)
(* The registers of src/src/Util/Bignum, for every limb size, every set of   *)
(* registers and every capacity: whichever calls are made in whichever       *)
(* order, whatever they alias and whichever of their allocations fail, each  *)
(* leaves the exact result or nothing at all (BignumSteps), with zeros above *)
(* the length of every register (RegistersAreExact).                         *)
(*                                                                           *)
(* The invariant, BigInv, says that the limbs of a register are limbs, that  *)
(* those from its length on are zero, and that its topmost one is not.  A    *)
(* call is split off into the record that names it (c), what it was given    *)
(* (Given), and what it stored (Holds); DoneRule and FailedRule then turn it *)
(* into a step of BignumSpec.                                                *)
(*                                                                           *)
(* Long division comes last: why one add-back is enough for every digit and  *)
(* every limb size (FirstEstimate, CorrectedEstimate, FinalEstimate), its    *)
(* invariant (DivInv), and the exact remainder (DivisionRemainderHolds).     *)
(*****************************************************************************)
EXTENDS Limbs_proofs

-----------------------------------------------------------------------------
(* Registers: their limbs, their length, their value.                        *)

\* A register as the calls may leave it: zeros above the length.
Sized(x) ==
    /\ x = [limbs |-> x.limbs, length |-> x.length]
    /\ x.limbs \in Seq(Limb) /\ Len(x.limbs) <= BignumMaxLimbs
    /\ x.length \in Nat /\ x.length <= Len(x.limbs)
    /\ \A i \in Nat : i > x.length /\ i <= Len(x.limbs) => x.limbs[i] = 0

\* One whose length is exact, and the number it stands for.
Whole(x) == Sized(x) /\ (x.length > 0 => x.limbs[x.length] # 0)

\* A register that other calls may read holds v.
Holds(x, v) == Whole(x) /\ ValueOf(x) = v

(* The limbs above the length count for nothing.                           *)
LEMMA NumberRule ==
    ASSUME NEW x, Sized(x)
    PROVE  /\ SubSeq(x.limbs, 1, x.length) \in Seq(Limb) /\ Len(SubSeq(x.limbs, 1, x.length)) = x.length
           /\ ValueOf(x) \in Nat /\ ValueOf(x) < Weight(x.length)
           /\ ValueOf(x) = WordsValue(x.limbs)
<1>1. PICK w \in Seq(Limb) : w = x.limbs
  BY DEF Sized
<1>2. PICK n \in Nat : n = x.length /\ n <= Len(w) /\ \A i \in Nat : i > n /\ i <= Len(w) => w[i] = 0
  BY <1>1 DEF Sized
<1>3. n \in 0 .. Len(w)
  BY <1>1, <1>2
<1>4. PICK a \in Seq(Limb), b \in Seq(Limb) :
        /\ a = SubSeq(w, 1, n) /\ b = SubSeq(w, n + 1, Len(w))
        /\ Len(a) = n /\ Len(b) = Len(w) - n
        /\ WordsValue(w) = WordsValue(a) + Weight(n) * WordsValue(b)
  BY <1>3, CutWords
<1>5. WordsValue(b) = 0
  <2>1. \A i \in Nat : i > 0 /\ i <= Len(b) => b[i] = 0
    <3> TAKE i \in Nat
    <3> HAVE i > 0 /\ i <= Len(b)
    <3>1. PICK m \in Nat : m = Len(w)
      BY <1>1
    <3>2. i \in 1 .. (m - (n + 1)) + 1 /\ n + i <= m
      BY <1>2, <1>4, <3>1
    <3>3. b[i] = w[n + i]
      <4>1. b[i] = w[(n + 1) + i - 1]
        BY <1>4, <3>1, <3>2
      <4>2. (n + 1) + i - 1 = n + i
        OBVIOUS
      <4> QED BY <4>1, <4>2
    <3> QED BY SMTT(20), <1>2, <3>1, <3>2, <3>3
  <2> QED BY <2>1, AllZero
<1>6. WordsValue(a) \in Nat /\ WordsValue(a) < Weight(n)
  BY <1>4, WordsBound
<1>7. Weight(n) * 0 = 0
  BY WeightRule
<1>8. ValueOf(x) = WordsValue(a)
  BY <1>1, <1>2, <1>4 DEF ValueOf
<1> QED BY <1>1, <1>2, <1>4, <1>5, <1>6, <1>7, <1>8

(* A length that counts zeros on top is cut down.                          *)
LEMMA NormalizedHolds ==
    ASSUME NEW x, Sized(x)
    PROVE  Holds(Normalized(x), ValueOf(x))
<1>1. PICK w \in Seq(Limb) : w = x.limbs
  BY DEF Sized
<1>2. PICK n \in Nat : n = x.length /\ n <= Len(w) /\ \A i \in Nat : i > n /\ i <= Len(w) => w[i] = 0
  BY <1>1 DEF Sized
<1>3. PICK a \in Seq(Limb) : a = SubSeq(w, 1, n) /\ Len(a) = n /\ WordsValue(a) = ValueOf(x)
  BY <1>1, <1>2, NumberRule DEF ValueOf
<1>4. PICK s \in Nat : /\ s = Significant(a) /\ s <= n /\ (s > 0 => a[s] # 0)
                       /\ \A i \in 1 .. n : i > s => a[i] = 0
                       /\ WordsValue(SubSeq(a, 1, s)) = WordsValue(a)
  <2>1. Significant(a) \in 0 .. n
    BY <1>3, SignificantRule
  <2>2. Significant(a) \in Nat /\ Significant(a) <= n
    BY <2>1
  <2>3. \A i \in 1 .. Len(a) : i > Significant(a) => a[i] = 0
    BY SignificantRule
  <2>4. /\ Significant(a) > 0 => a[Significant(a)] # 0
        /\ WordsValue(SubSeq(a, 1, Significant(a))) = WordsValue(a)
    BY SignificantRule
  <2> QED BY <1>3, <2>2, <2>3, <2>4
<1>5. \A i \in 1 .. n : a[i] = w[i]
  BY <1>1, <1>2, <1>3
<1>6. Normalized(x) = [limbs |-> w, length |-> s]
  <2>1. x = [limbs |-> w, length |-> n]
    BY <1>1, <1>2 DEF Sized
  <2>2. Normalized(x) = [x EXCEPT !.length = Significant(SubSeq(w, 1, n))]
    BY <1>1, <1>2 DEF Normalized
  <2> QED BY <1>3, <1>4, <2>1, <2>2
<1>7. \A i \in Nat : i > s /\ i <= Len(w) => w[i] = 0
  <2> TAKE i \in Nat
  <2> HAVE i > s /\ i <= Len(w)
  <2>1. CASE i <= n
    <3>1. i \in 1 .. n
      BY <1>4, <2>1
    <3> QED BY <1>4, <1>5, <3>1
  <2>2. CASE i > n
    BY <1>2, <2>2
  <2> QED BY <1>2, <2>1, <2>2
<1>8. s <= Len(w) /\ Len(w) <= BignumMaxLimbs
  BY <1>1, <1>2, <1>4 DEF Sized
<1>9. s > 0 => w[s] # 0
  <2> HAVE s > 0
  <2>1. s \in 1 .. n
    BY <1>4
  <2> QED BY <1>4, <1>5, <2>1
<1>10. SubSeq(a, 1, s) = SubSeq(w, 1, s)
  <2>1. s \in 0 .. Len(a) /\ s \in 0 .. Len(w)
    BY <1>2, <1>3, <1>4
  <2>2. \A i \in 1 .. s : a[i] = w[i]
    BY <1>4, <1>5
  <2> QED BY <1>3, <2>1, <2>2
<1>11. ValueOf(Normalized(x)) = ValueOf(x)
  <2>1. ValueOf(Normalized(x)) = WordsValue(SubSeq(w, 1, s))
    BY <1>6 DEF ValueOf
  <2> QED BY <1>3, <1>4, <1>10, <2>1
<1>12. Whole(Normalized(x))
  BY <1>6, <1>7, <1>8, <1>9 DEF Whole, Sized
<1> QED BY <1>11, <1>12 DEF Holds

\* words written over an array that has zeros above them and above place old.
Overlaid(y, old, words) ==
    /\ y = [limbs |-> y.limbs, length |-> y.length]
    /\ words \in Seq(Limb) /\ y.limbs \in Seq(Limb) /\ Len(y.limbs) <= BignumMaxLimbs
    /\ y.length = Len(words) /\ Len(words) <= Len(y.limbs)
    /\ \A i \in Nat : i > 0 /\ i <= Len(words) => y.limbs[i] = words[i]
    /\ \A i \in Nat : i > Len(words) /\ i > old /\ i <= Len(y.limbs) => y.limbs[i] = 0

\* What bignum_reserve leaves: the limbs there were, and zeros behind them.
LEMMA ReservedRule ==
    ASSUME NEW x, Sized(x), NEW n \in Nat, n <= BignumMaxLimbs
    PROVE  \E w \in Seq(Limb) :
             /\ Reserved(x, n) = [limbs |-> w, length |-> x.length]
             /\ Len(w) >= n /\ Len(w) >= Len(x.limbs) /\ Len(w) <= BignumMaxLimbs
             /\ \A i \in Nat : i > 0 /\ i <= Len(x.limbs) => w[i] = x.limbs[i]
             /\ \A i \in Nat : i > Len(x.limbs) /\ i <= Len(w) => w[i] = 0
<1>1. PICK a \in Seq(Limb) : a = x.limbs /\ Len(a) <= BignumMaxLimbs /\ x = [limbs |-> a, length |-> x.length]
  BY DEF Sized
<1>2. PICK m \in Nat : m = Len(a)
  BY <1>1
<1>3. Reserved(x, n) = [limbs |-> a \o Zeros(n - m), length |-> x.length]
  <2>1. Reserved(x, n) = [x EXCEPT !.limbs = x.limbs \o Zeros(n - Len(x.limbs))]
    BY DEF Reserved
  <2>2. \A l, t : [[limbs |-> a, length |-> l] EXCEPT !.limbs = t] = [limbs |-> t, length |-> l]
    OBVIOUS
  <2>3. [x EXCEPT !.limbs = x.limbs \o Zeros(n - Len(x.limbs))]
          = [[limbs |-> a, length |-> x.length] EXCEPT !.limbs = a \o Zeros(n - m)]
    BY <1>1, <1>2
  <2> QED BY <2>1, <2>2, <2>3
<1>n. \A i \in Nat : i > m /\ i <= n => i - m \in 1 .. n - m
  BY <1>2
<1>4. CASE n <= m
  <2>1. Zeros(n - m) = <<>>
    <3>1. [i \in 1 .. n - m |-> 0] = <<>>
      BY <1>2, <1>4
    <3> QED BY <3>1 DEF Zeros
  <2>2. a \o <<>> = a
    OBVIOUS
  <2>3. Reserved(x, n) = [limbs |-> a, length |-> x.length]
    BY <1>3, <2>1, <2>2
  <2>4. \A i \in Nat : ~ (i > Len(a) /\ i <= Len(a))
    BY <1>2
  <2> WITNESS a \in Seq(Limb)
  <2> QED BY <1>1, <1>2, <1>4, <2>3, <2>4
<1>5. CASE n > m
  <2>1. PICK k \in Nat : k = n - m
    BY <1>2, <1>5
  <2>2. PICK z \in Seq(Limb) : z = Zeros(k) /\ Len(z) = k /\ \A i \in 1 .. k : z[i] = 0
    BY ZerosRule
  <2>3. PICK w \in Seq(Limb) : w = a \o z /\ Len(w) = n
    <3>1. a \o z \in Seq(Limb) /\ Len(a \o z) = m + k
      BY <1>2, <2>2
    <3>2. m + k = n
      BY <1>2, <2>1
    <3> QED BY <3>1, <3>2
  <2>4. \A i \in Nat : i > 0 /\ i <= m => w[i] = a[i]
    BY <1>2, <2>3
  <2>5. \A i \in Nat : i > m /\ i <= n => w[i] = 0
    <3> TAKE i \in Nat
    <3> HAVE i > m /\ i <= n
    <3>1. i - m \in 1 .. k
      BY <1>2, <2>1
    <3>2. w[i] = z[i - m]
      BY <1>2, <2>1, <2>2, <2>3, <3>1
    <3> QED BY <2>2, <3>1, <3>2
  <2>6. Reserved(x, n) = [limbs |-> w, length |-> x.length]
    BY <1>3, <2>1, <2>2, <2>3
  <2> WITNESS w \in Seq(Limb)
  <2> QED BY <1>1, <1>2, <1>5, <2>3, <2>4, <2>5, <2>6
<1> QED BY <1>2, <1>4, <1>5

(* Limbs stored over those of a register.                                  *)
LEMMA StoredRule ==
    ASSUME NEW x, Sized(x), NEW words \in Seq(Limb),
           NEW room \in Nat, Len(words) <= room, room <= BignumMaxLimbs
    PROVE  Overlaid(Stored(Reserved(x, room), words), x.length, words)
<1>1. PICK n \in Nat : n = Len(words) /\ n <= room
  OBVIOUS
<1>2. PICK w \in Seq(Limb) :
             /\ Reserved(x, room) = [limbs |-> w, length |-> x.length]
             /\ Len(w) >= n /\ Len(w) >= Len(x.limbs) /\ Len(w) <= BignumMaxLimbs
             /\ \A i \in Nat : i > 0 /\ i <= Len(x.limbs) => w[i] = x.limbs[i]
             /\ \A i \in Nat : i > Len(x.limbs) /\ i <= Len(w) => w[i] = 0
  <2>1. PICK w \in Seq(Limb) :
             /\ Reserved(x, room) = [limbs |-> w, length |-> x.length]
             /\ Len(w) >= room /\ Len(w) >= Len(x.limbs) /\ Len(w) <= BignumMaxLimbs
             /\ \A i \in Nat : i > 0 /\ i <= Len(x.limbs) => w[i] = x.limbs[i]
             /\ \A i \in Nat : i > Len(x.limbs) /\ i <= Len(w) => w[i] = 0
    BY ReservedRule
  <2>2. Len(w) >= n
    BY <1>1, <2>1
  <2> QED BY <2>1, <2>2
<1>3. PICK b \in Seq(Limb) : b = SubSeq(w, n + 1, Len(w)) /\ Len(b) = Len(w) - n
  <2>1. n \in 0 .. Len(w)
    BY <1>2
  <2> QED BY <2>1, CutWords
<1>4. PICK y \in Seq(Limb) : y = words \o b /\ Len(y) = Len(w)
  <2>1. words \o b \in Seq(Limb) /\ Len(words \o b) = n + Len(b)
    BY <1>1
  <2>2. PICK m \in Nat, h \in Nat : m = Len(w) /\ h = Len(b) /\ h = m - n
    BY <1>3
  <2>3. n + h = m
    BY <2>2
  <2>4. Len(words \o b) = Len(w)
    BY <2>1, <2>2, <2>3
  <2> QED BY <2>1, <2>4
<1>5. Stored(Reserved(x, room), words) = [limbs |-> y, length |-> n]
  BY <1>1, <1>2, <1>3, <1>4 DEF Stored
<1>6. \A i \in Nat : i > 0 /\ i <= n => y[i] = words[i]
  BY <1>1, <1>4
<1>7. \A i \in Nat : i > n /\ i <= Len(y) => y[i] = w[i]
  <2> TAKE i \in Nat
  <2> HAVE i > n /\ i <= Len(y)
  <2>1. PICK m \in Nat : m = Len(w)
    OBVIOUS
  <2>2. PICK j \in Nat : i = n + j /\ j > 0 /\ j <= m - n
    <3>1. i - n \in Nat /\ i = n + (i - n) /\ i - n > 0 /\ i - n <= m - n
      BY <1>4, <2>1
    <3> QED BY <3>1
  <2>3. y[i] = b[j]
    BY <1>1, <1>3, <1>4, <2>1, <2>2
  <2>4. b[j] = w[n + j]
    <3>1. j \in 1 .. (m - (n + 1)) + 1
      BY <2>1, <2>2
    <3>2. b[j] = w[(n + 1) + j - 1]
      BY <1>3, <2>1, <3>1
    <3>3. (n + 1) + j - 1 = n + j
      OBVIOUS
    <3> QED BY <3>2, <3>3
  <2> QED BY <2>2, <2>3, <2>4
<1>8. \A i \in Nat : i > x.length /\ i <= Len(w) => w[i] = 0
  <2> TAKE i \in Nat
  <2> HAVE i > x.length /\ i <= Len(w)
  <2>1. CASE i <= Len(x.limbs)
    <3>1. x.limbs[i] = 0 /\ i > 0
      BY <2>1 DEF Sized
    <3> QED BY <1>2, <2>1, <3>1
  <2>2. CASE i > Len(x.limbs)
    BY <1>2, <2>2
  <2>3. Len(x.limbs) \in Nat
    BY DEF Sized
  <2> QED BY <2>1, <2>2, <2>3
<1>9. \A i \in Nat : i > n /\ i > x.length /\ i <= Len(y) => y[i] = 0
  BY <1>4, <1>7, <1>8
<1>10. PICK t : t = [limbs |-> y, length |-> n]
  OBVIOUS
<1>11. /\ t = [limbs |-> t.limbs, length |-> t.length] /\ t.limbs = y /\ t.length = n
       /\ Len(y) <= BignumMaxLimbs /\ n <= Len(y)
  BY <1>2, <1>4, <1>10
<1>12. Overlaid(t, x.length, words)
  BY <1>1, <1>6, <1>9, <1>11 DEF Overlaid
<1> QED BY <1>5, <1>10, <1>12

(* What such a register holds once what is left of its old value above the *)
(* new one is cleared.                                                     *)
LEMMA OverlaidHolds ==
    ASSUME NEW y, NEW old \in Nat, NEW words, Overlaid(y, old, words)
    PROVE  /\ Holds(Cleared(Normalized(y), old), WordsValue(words))
           /\ (Len(words) > 0 => words[Len(words)] # 0)
                => Holds(Cleared(y, old), WordsValue(words))
<1>1. /\ words \in Seq(Limb) /\ y.limbs \in Seq(Limb) /\ Len(y.limbs) <= BignumMaxLimbs
      /\ y.length = Len(words) /\ Len(words) <= Len(y.limbs)
      /\ y = [limbs |-> y.limbs, length |-> y.length]
  BY DEF Overlaid
<1>a. \A i \in Nat : i > 0 /\ i <= Len(words) => y.limbs[i] = words[i]
  BY DEF Overlaid
<1>b. \A i \in Nat : i > Len(words) /\ i > old /\ i <= Len(y.limbs) => y.limbs[i] = 0
  BY DEF Overlaid
<1>2. PICK n \in Nat, w \in Seq(Limb) : n = Len(words) /\ w = y.limbs /\ n <= Len(w)
  BY <1>1
<1>3. \A i \in Nat : i > 0 /\ i <= n => w[i] = words[i]
  BY <1>a, <1>2
<1>4. \A i \in Nat : i > n /\ i > old /\ i <= Len(w) => w[i] = 0
  BY <1>b, <1>2
<1>5. PICK m \in Nat : m = Len(w) /\ DOMAIN w = 1 .. m
  OBVIOUS
<1> DEFINE v == [i \in 1 .. m |-> IF n < i /\ i <= old THEN 0 ELSE w[i]]
           z == [limbs |-> v, length |-> n]
<1>6. v \in Seq(Limb) /\ Len(v) = m
  <2>1. 0 \in Limb
    BY BaseRule DEF Limb
  <2>2. \A i \in 1 .. m : w[i] \in Limb
    BY <1>5
  <2> QED BY <2>1, <2>2
<1>7. Cleared(y, old) = z
  <2>1. y = [limbs |-> w, length |-> n]
    BY <1>1, <1>2
  <2>2. Cleared(y, old) = [y EXCEPT !.limbs = [i \in DOMAIN y.limbs |->
                             IF y.length < i /\ i <= old THEN 0 ELSE y.limbs[i]]]
    BY DEF Cleared
  <2>3. [i \in DOMAIN y.limbs |-> IF y.length < i /\ i <= old THEN 0 ELSE y.limbs[i]] = v
    BY <1>1, <1>2, <1>5
  <2> HIDE DEF v
  <2>4. Cleared(y, old) = [y EXCEPT !.limbs = v]
    BY <2>2, <2>3
  <2> QED BY <2>1, <2>4
<1>8. \A i \in Nat : i > n /\ i <= m => v[i] = 0
  BY <1>4, <1>5
<1>9. Sized(z)
  <2>1. m <= BignumMaxLimbs /\ n <= m
    BY <1>1, <1>2, <1>5
  <2>2. z.limbs = v /\ z.length = n
    OBVIOUS
  <2> HIDE DEF v
  <2> QED BY <1>6, <1>8, <2>1, <2>2 DEF Sized
<1>10. SubSeq(v, 1, n) = words /\ SubSeq(w, 1, n) = words
  <2>1. \A i \in 1 .. n : v[i] = words[i]
    BY <1>2, <1>3, <1>5
  <2>2. \A i \in 1 .. n : w[i] = words[i]
    BY <1>3
  <2>3. n \in 0 .. Len(v) /\ n \in 0 .. Len(w)
    BY <1>2, <1>5, <1>6
  <2> HIDE DEF v
  <2>4. SubSeq(v, 1, n) = [i \in 1 .. n |-> v[i]] /\ SubSeq(w, 1, n) = [i \in 1 .. n |-> w[i]]
    BY <1>2, <1>6, <2>3
  <2>5. words = [i \in 1 .. n |-> words[i]]
    BY <1>1, <1>2
  <2> QED BY <2>1, <2>2, <2>4, <2>5
<1>11. ValueOf(z) = WordsValue(words)
  BY <1>10 DEF ValueOf
<1>12. PICK s \in Nat : /\ s = Significant(words) /\ s <= n /\ (s > 0 => words[s] # 0)
                        /\ \A i \in 1 .. n : i > s => words[i] = 0
  <2>1. Significant(words) \in 0 .. Len(words) /\ words \in Seq(Limb)
    BY <1>1, SignificantRule
  <2>2. Significant(words) \in Nat /\ Significant(words) <= n
    BY <1>2, <2>1
  <2>3. \A i \in 1 .. Len(words) : i > Significant(words) => words[i] = 0
    BY <2>1, SignificantRule
  <2>4. Significant(words) > 0 => words[Significant(words)] # 0
    BY <2>1, SignificantRule
  <2> QED BY <1>2, <2>2, <2>3, <2>4
<1>13. Normalized(y) = [limbs |-> w, length |-> s]
  <2>1. y = [limbs |-> w, length |-> n]
    BY <1>1, <1>2
  <2>2. Normalized(y) = [y EXCEPT !.length = Significant(SubSeq(y.limbs, 1, y.length))]
    BY DEF Normalized
  <2>3. Significant(SubSeq(y.limbs, 1, y.length)) = s
    BY <1>1, <1>2, <1>10, <1>12
  <2>4. Normalized(y) = [y EXCEPT !.length = s]
    BY <2>2, <2>3
  <2> QED BY <2>1, <2>4
<1>14. Normalized(z) = [limbs |-> v, length |-> s]
  <2>1. Normalized(z) = [z EXCEPT !.length = Significant(SubSeq(z.limbs, 1, z.length))]
    BY DEF Normalized
  <2>2. Significant(SubSeq(z.limbs, 1, z.length)) = s
    BY <1>10, <1>12
  <2> HIDE DEF v
  <2>3. Normalized(z) = [z EXCEPT !.length = s]
    BY <2>1, <2>2
  <2> QED BY <2>3
<1>15. Cleared(Normalized(y), old) = Normalized(z)
  <2>1. Cleared(Normalized(y), old)
          = [limbs |-> [i \in 1 .. m |-> IF s < i /\ i <= old THEN 0 ELSE w[i]], length |-> s]
    BY <1>5, <1>13 DEF Cleared
  <2>2. ASSUME NEW i \in 1 .. m PROVE (IF s < i /\ i <= old THEN 0 ELSE w[i]) = v[i]
    <3>1. CASE i <= n
      <4>1. i \in 1 .. n /\ v[i] = w[i] /\ w[i] = words[i]
        BY <1>3, <3>1
      <4>2. i > s => words[i] = 0
        BY <1>12, <4>1
      <4> QED BY <4>1, <4>2
    <3>2. CASE i > n
      BY <1>12, <3>2
    <3> QED BY <3>1, <3>2
  <2> QED BY <1>14, <2>1, <2>2
<1>16. Holds(Normalized(z), WordsValue(words))
  <2> HIDE DEF z
  <2> QED BY <1>9, <1>11, NormalizedHolds
<1>17. ASSUME Len(words) > 0 => words[Len(words)] # 0 PROVE Holds(z, WordsValue(words))
  <2>1. n > 0 => v[n] # 0
    BY <1>2, <1>3, <1>5, <1>17
  <2>2. z.limbs = v /\ z.length = n
    OBVIOUS
  <2> HIDE DEF z, v
  <2> QED BY <1>9, <1>11, <2>1, <2>2 DEF Holds, Whole
<1> HIDE DEF z
<1> QED BY <1>7, <1>15, <1>16, <1>17

(* Limbs stored in a register that exists.                                 *)
LEMMA StoredInRoom ==
    ASSUME NEW x, Sized(x), NEW words \in Seq(Limb),
           NEW room \in Nat, Len(words) <= room, room <= BignumMaxLimbs
    PROVE  /\ Holds(Cleared(Normalized(Stored(Reserved(x, room), words)), x.length), WordsValue(words))
           /\ (Len(words) > 0 => words[Len(words)] # 0)
                => Holds(Cleared(Stored(Reserved(x, room), words), x.length), WordsValue(words))
           /\ (Len(words) > 0 => words[Len(words)] # 0) /\ x.length <= Len(words)
                => Holds(Stored(Reserved(x, room), words), WordsValue(words))
<1>1. PICK y : y = Stored(Reserved(x, room), words) /\ Overlaid(y, x.length, words)
  BY StoredRule
<1>2. x.length \in Nat
  BY DEF Sized
<1>3. /\ Holds(Cleared(Normalized(y), x.length), WordsValue(words))
      /\ (Len(words) > 0 => words[Len(words)] # 0) => Holds(Cleared(y, x.length), WordsValue(words))
  BY <1>1, <1>2, OverlaidHolds
<1>4. ASSUME x.length <= Len(words) PROVE Cleared(y, x.length) = y
  <2>1. /\ y = [limbs |-> y.limbs, length |-> y.length]
        /\ y.limbs \in Seq(Limb) /\ y.length = Len(words)
    BY <1>1 DEF Overlaid
  <2>2. \A i \in Nat : ~(y.length < i /\ i <= x.length)
    BY <1>2, <1>4, <2>1
  <2>3. [i \in DOMAIN y.limbs |-> IF y.length < i /\ i <= x.length THEN 0 ELSE y.limbs[i]] = y.limbs
    <3>1. PICK m \in Nat, w \in Seq(Limb) : w = y.limbs /\ DOMAIN w = 1 .. m
      BY <2>1
    <3>2. \A i \in 1 .. m : ~(y.length < i /\ i <= x.length)
      BY <2>2
    <3>3. w = [i \in 1 .. m |-> w[i]]
      BY <3>1
    <3> QED BY <3>1, <3>2, <3>3
  <2>4. Cleared(y, x.length) = [y EXCEPT !.limbs = y.limbs]
    BY <2>3 DEF Cleared
  <2> QED BY <2>1, <2>4
<1> QED BY <1>1, <1>3, <1>4

\* Words stored in a register with room for them are its value, normalized or
\* not, its stale limbs cleared or not there.
LEMMA StoredHolds ==
    ASSUME NEW x, Sized(x), NEW words \in Seq(Limb), Len(words) <= BignumMaxLimbs
    PROVE  /\ Holds(Cleared(Normalized(Stored(Reserved(x, Len(words)), words)), x.length), WordsValue(words))
           /\ (Len(words) > 0 => words[Len(words)] # 0)
                => Holds(Cleared(Stored(Reserved(x, Len(words)), words), x.length), WordsValue(words))
           /\ (Len(words) > 0 => words[Len(words)] # 0) /\ x.length <= Len(words)
                => Holds(Stored(Reserved(x, Len(words)), words), WordsValue(words))
<1>1. PICK room \in Nat : room = Len(words)
  OBVIOUS
<1>2. room <= BignumMaxLimbs /\ Len(words) <= room
  BY <1>1
<1> QED BY <1>1, <1>2, StoredInRoom

(* A number in an array of its own.                                        *)
LEMMA FreshHolds ==
    ASSUME NEW words \in Seq(Limb), Len(words) <= BignumMaxLimbs
    PROVE  Holds(Fresh(words), WordsValue(words))
<1>1. PICK x : x = [limbs |-> words, length |-> Len(words)]
  OBVIOUS
<1>2. x.limbs = words /\ x.length = Len(words) /\ x = [limbs |-> x.limbs, length |-> x.length]
  BY <1>1
<1>3. \A i \in Nat : ~(i > Len(words) /\ i <= Len(words))
  OBVIOUS
<1>4. Sized(x)
  BY <1>2, <1>3 DEF Sized
<1>5. ValueOf(x) = WordsValue(words)
  <2>1. SubSeq(words, 1, Len(words)) = words
    OBVIOUS
  <2> QED BY <1>2, <2>1 DEF ValueOf
<1>6. Fresh(words) = Normalized(x)
  BY <1>1 DEF Fresh
<1> QED BY <1>4, <1>5, <1>6, NormalizedHolds

\* A register without limbs holds zero.
LEMMA EmptyHolds == Holds(Empty, 0)
<1>1. <<>> \in Seq(Limb) /\ Len(<<>>) = 0 /\ SubSeq(<<>>, 1, 0) = <<>>
  OBVIOUS
<1>2. Empty.limbs = <<>> /\ Empty.length = 0 /\ Empty = [limbs |-> Empty.limbs, length |-> Empty.length]
  BY DEF Empty
<1>3. 0 <= BignumMaxLimbs
  BY BignumAssumption
<1>4. Sized(Empty)
  BY <1>1, <1>2, <1>3 DEF Sized
<1>5. ValueOf(Empty) = 0
  BY <1>1, <1>2, OneLimb DEF ValueOf
<1> QED BY <1>2, <1>4, <1>5 DEF Holds, Whole

-----------------------------------------------------------------------------
(* Comparison.                                                               *)

\* The number a register stands for, as limbs.
Limbs(a, x) ==
    /\ a \in Seq(Limb) /\ Len(a) = x.length /\ ValueOf(x) = WordsValue(a)
    /\ \A i \in Nat : i > 0 /\ i <= Len(a) => a[i] = x.limbs[i]
    /\ Len(a) > 0 => a[Len(a)] # 0

\* The significant limbs of a register.
LEMMA WholeLimbs ==
    ASSUME NEW x, Whole(x)
    PROVE  \E a : Limbs(a, x) /\ a = SubSeq(x.limbs, 1, x.length)
<1>1. Sized(x) /\ (x.length > 0 => x.limbs[x.length] # 0)
  BY DEF Whole
<1>2. PICK w \in Seq(Limb), n \in Nat : w = x.limbs /\ n = x.length /\ n <= Len(w)
  BY <1>1 DEF Sized
<1>3. PICK a \in Seq(Limb) : a = SubSeq(w, 1, n) /\ Len(a) = n /\ ValueOf(x) = WordsValue(a)
  BY <1>1, <1>2, NumberRule DEF ValueOf
<1>4. \A i \in Nat : i > 0 /\ i <= n => a[i] = w[i]
  BY <1>2, <1>3
<1>5. n > 0 => a[n] # 0
  BY <1>1, <1>2, <1>4
<1>6. Limbs(a, x)
  BY <1>2, <1>3, <1>4, <1>5 DEF Limbs
<1> QED BY <1>2, <1>3, <1>6

(* Comparison by length, then by the highest limb that differs.            *)
LEMMA CompareRule ==
    ASSUME NEW x, Whole(x), NEW y, Whole(y)
    PROVE  /\ Compare(x, y) < 0 <=> ValueOf(x) < ValueOf(y)
           /\ Compare(x, y) \in Int
<1>1. PICK a : Limbs(a, x)
  BY WholeLimbs
<1>2. PICK b : Limbs(b, y)
  BY WholeLimbs
<1>3. a \in Seq(Limb) /\ Len(a) = x.length /\ ValueOf(x) = WordsValue(a) /\ (Len(a) > 0 => a[Len(a)] # 0)
  BY <1>1 DEF Limbs
<1>4. b \in Seq(Limb) /\ Len(b) = y.length /\ ValueOf(y) = WordsValue(b) /\ (Len(b) > 0 => b[Len(b)] # 0)
  BY <1>2 DEF Limbs
<1>5. WordsValue(a) \in Nat /\ WordsValue(b) \in Nat
  BY <1>3, <1>4, WordsBound
<1>6. CASE x.length < y.length
  <2>1. Compare(x, y) = x.length - y.length
    BY <1>3, <1>4, <1>6 DEF Compare
  <2>2. WordsValue(a) < WordsValue(b)
    BY <1>3, <1>4, <1>6, LongerIsLarger
  <2> QED BY <1>3, <1>4, <1>6, <2>1, <2>2
<1>7. CASE y.length < x.length
  <2>1. Compare(x, y) = x.length - y.length
    BY <1>3, <1>4, <1>7 DEF Compare
  <2>2. WordsValue(b) < WordsValue(a)
    BY <1>3, <1>4, <1>7, LongerIsLarger
  <2> QED BY <1>3, <1>4, <1>5, <1>7, <2>1, <2>2
<1>8. CASE x.length = y.length
  <2>1. PICK n \in Nat : n = x.length /\ n = Len(a) /\ n = Len(b)
    BY <1>3, <1>4, <1>8
  <2>2. \A i \in 1 .. n : a[i] = x.limbs[i] /\ b[i] = y.limbs[i]
    <3>1. \A i \in Nat : i > 0 /\ i <= Len(a) => a[i] = x.limbs[i]
      BY <1>1 DEF Limbs
    <3>2. \A i \in Nat : i > 0 /\ i <= Len(b) => b[i] = y.limbs[i]
      BY <1>2 DEF Limbs
    <3> QED BY <2>1, <3>1, <3>2
  <2> DEFINE D == {i \in 1 .. n : x.limbs[i] # y.limbs[i]}
  <2>3. Compare(x, y) = IF D = {} THEN 0 ELSE x.limbs[Max(D)] - y.limbs[Max(D)]
    BY <1>8, <2>1 DEF Compare
  <2>4. CASE D = {}
    <3>1. \A i \in 1 .. n : a[i] = b[i]
      BY <2>2, <2>4
    <3>2. a = b
      BY <1>3, <1>4, <2>1, <3>1
    <3> QED BY <1>3, <1>4, <1>5, <2>3, <2>4, <3>2
  <2>5. CASE D # {}
    <3>1. D \subseteq 0 .. n
      OBVIOUS
    <3>2. PICK k : k = Max(D) /\ k \in D /\ \A j \in D : j <= k
      BY <2>1, <2>5, <3>1, LargestOf
    <3>3. k \in 1 .. n /\ a[k] # b[k] /\ Compare(x, y) = a[k] - b[k]
      <4> HIDE DEF D
      <4>1. Compare(x, y) = x.limbs[k] - y.limbs[k]
        BY <2>3, <2>5, <3>2
      <4>2. k \in 1 .. n /\ x.limbs[k] # y.limbs[k]
        BY <3>2 DEF D
      <4> QED BY <2>2, <4>1, <4>2
    <3>4. \A i \in Nat : i > k /\ i <= n => a[i] = b[i]
      <4> TAKE i \in Nat
      <4> HAVE i > k /\ i <= n
      <4>1. i \in 1 .. n /\ i \notin D
        BY <3>2, <3>3
      <4> QED BY <2>2, <4>1
    <3>5. PICK m \in Nat, l \in Nat : k = m + 1 /\ n = (m + 1) + l
      <4>1. k - 1 \in Nat /\ n - k \in Nat /\ k = (k - 1) + 1 /\ n = ((k - 1) + 1) + (n - k)
        BY <3>3
      <4> QED BY <4>1
    <3>6. a[k] \in Int /\ b[k] \in Int
      <4>1. a \in Seq(Int) /\ b \in Seq(Int)
        BY <1>3, <1>4, LimbsAreIntegers
      <4>2. k \in 1 .. Len(a) /\ k \in 1 .. Len(b)
        BY <2>1, <3>3
      <4> QED BY <4>1, <4>2
    <3>7. CASE a[k] < b[k]
      <4>1. WordsValue(a) < WordsValue(b)
        BY <1>3, <1>4, <2>1, <3>4, <3>5, <3>7, WordsOrder
      <4> QED BY <1>3, <1>4, <3>3, <3>6, <3>7, <4>1
    <3>8. CASE b[k] < a[k]
      <4>1. WordsValue(b) < WordsValue(a)
        BY <1>3, <1>4, <2>1, <3>4, <3>5, <3>8, WordsOrder
      <4> QED BY <1>3, <1>4, <1>5, <3>3, <3>6, <3>8, <4>1
    <3> QED BY <3>3, <3>6, <3>7, <3>8
  <2> QED BY <2>4, <2>5
<1> QED BY <1>3, <1>4, <1>6, <1>7, <1>8

-----------------------------------------------------------------------------
(* The invariant, and what a call does to it.                                *)

\* Every register is a number, and its length is exact unless it is spoiled.
BigInv ==
    /\ num = [r \in Registers |-> num[r]]
    /\ \A r \in Registers : Sized(num[r]) /\ (r \notin spoiled => Whole(num[r]))

\* A step that keeps this and is one of the abstract calls.
Stepped == BigInv' /\ Abstract!Next

\* Registers start without limbs, which is the value zero.
LEMMA BignumStarts == BignumInit => BigInv /\ Abstract!Init
<1> SUFFICES ASSUME BignumInit PROVE BigInv /\ Abstract!Init
  OBVIOUS
<1>1. num = [r \in Registers |-> Empty] /\ call = [made |-> [op |-> "none"], ok |-> FALSE]
  BY DEF BignumInit
<1>2. Sized(Empty) /\ Whole(Empty) /\ ValueOf(Empty) = 0
  BY EmptyHolds DEF Holds, Whole
<1>3. \A r \in Registers : num[r] = Empty
  BY <1>1
<1>4. BigInv
  BY <1>1, <1>2, <1>3 DEF BigInv
<1>5. value = [r \in Registers |-> 0]
  BY <1>2, <1>3 DEF value
<1> QED BY <1>1, <1>4, <1>5 DEF Abstract!Init

\* What a call leaves in its output register is whole unless the register is
\* lost, and no other register changes.
LEMMA EndsRule ==
    ASSUME BigInv, NEW c, NEW o \in Registers, c.out = o, NEW x, Sized(x), NEW ok, NEW lost,
           o \in lost \/ Whole(x), Ends(c, x, ok, lost)
    PROVE  /\ BigInv' /\ value' = [value EXCEPT ![o] = ValueOf(x)]
           /\ call' = [made |-> c, ok |-> ok]
<1>1. /\ num' = [num EXCEPT ![o] = x] /\ spoiled' = (spoiled \ {o}) \cup lost
      /\ call' = [made |-> c, ok |-> ok]
  BY DEF Ends
<1>2. num = [r \in Registers |-> num[r]]
  BY DEF BigInv
<1>3. /\ num' = [r \in Registers |-> num'[r]] /\ num'[o] = x
      /\ \A r \in Registers : r # o => num'[r] = num[r]
  BY <1>1, <1>2
<1>4. \A r \in Registers : Sized(num'[r]) /\ (r \notin spoiled' => Whole(num'[r]))
  <2> TAKE r \in Registers
  <2>1. CASE r = o
    BY <1>1, <1>3, <2>1
  <2>2. CASE r # o
    <3>1. Sized(num[r]) /\ (r \notin spoiled => Whole(num[r]))
      BY DEF BigInv
    <3> QED BY <1>1, <1>3, <2>2, <3>1
  <2> QED BY <2>1, <2>2
<1>5. BigInv'
  BY <1>3, <1>4 DEF BigInv
<1>6. value' = [value EXCEPT ![o] = ValueOf(x)]
  <2>1. value' = [r \in Registers |-> ValueOf(num'[r])] /\ value = [r \in Registers |-> ValueOf(num[r])]
    BY DEF value
  <2>2. \A r \in Registers : ValueOf(num'[r]) = IF r = o THEN ValueOf(x) ELSE ValueOf(num[r])
    BY <1>3
  <2>3. value' = [r \in Registers |-> IF r = o THEN ValueOf(x) ELSE ValueOf(num[r])]
    BY <2>1, <2>2
  <2> QED BY <2>1, <2>3
<1> QED BY <1>1, <1>5, <1>6

\* A call whose result is computed from its operands.
Computes(c) == c.op \notin {"range", "draw", "export"}

\* A call that leaves the exact result in its output is a step of the
\* specification.
LEMMA DoneRule ==
    ASSUME BigInv, NEW c, NEW o \in Registers, c.out = o, Computes(c), NEW x, NEW v,
           Holds(x, v), v = Abstract!Exact(c), Done(c, x)
    PROVE  Stepped
<1>1. Sized(x) /\ Whole(x) /\ ValueOf(x) = v
  BY DEF Holds, Whole
<1>2. Ends(c, x, TRUE, {})
  BY DEF Done
<1>3. BigInv' /\ value' = [value EXCEPT ![o] = v] /\ call' = [made |-> c, ok |-> TRUE]
  <2>1. PICK ok, lost : ok = TRUE /\ lost = {}
    OBVIOUS
  <2>2. Ends(c, x, ok, lost) /\ (o \in lost \/ Whole(x))
    BY <1>1, <1>2, <2>1
  <2>3. BigInv' /\ value' = [value EXCEPT ![o] = ValueOf(x)] /\ call' = [made |-> c, ok |-> ok]
    BY <1>1, <2>2, EndsRule
  <2> QED BY <1>1, <2>1, <2>3
<1>4. call'.ok = TRUE /\ call'.made = c
  BY <1>3
<1>5. Abstract!Succeed(c)
  <2>1. value' = [value EXCEPT ![c.out] = Abstract!Exact(c)]
    BY <1>3
  <2> QED BY <2>1 DEF Abstract!Succeed, Computes
<1>6. Abstract!Next
  BY <1>4, <1>5 DEF Abstract!Next
<1> QED BY <1>3, <1>6 DEF Stepped

\* A call that fails and changes nothing is one too.
LEMMA FailedRule ==
    ASSUME BigInv, NEW c, NEW o \in Registers \ spoiled, c.out = o, Failed(c)
    PROVE  Stepped
<1>1. Sized(num[o]) /\ Whole(num[o])
  BY DEF BigInv
<1>2. Ends(c, num[o], FALSE, {})
  BY DEF Failed
<1>3. BigInv' /\ value' = [value EXCEPT ![o] = ValueOf(num[o])] /\ call' = [made |-> c, ok |-> FALSE]
  BY ZenonT(40), <1>1, <1>2, EndsRule
<1>4. value = [r \in Registers |-> ValueOf(num[r])]
  BY DEF value
<1>5. \A r \in Registers : value'[r] = value[r]
  BY <1>3, <1>4
<1>6. call'.ok = FALSE /\ call'.made = c
  BY <1>3
<1>7. Abstract!Next
  BY <1>5, <1>6 DEF Abstract!Next, Abstract!Fail
<1> QED BY <1>3, <1>7 DEF Stepped

\* So is a call whose allocation fails.
LEMMA FailuresRule ==
    ASSUME BigInv, NEW c, NEW o \in Registers \ spoiled, c.out = o, NEW n,
           AllocationFails(c, n) \/ Grows(c, n)
    PROVE  Stepped
<1>1. Failed(c)
  BY DEF AllocationFails, Grows
<1> QED BY <1>1, FailedRule

\* An operand as limbs and as a number.
Given(a, w, v) ==
    /\ w = Digits(a) /\ w \in Seq(Limb) /\ Len(w) = LengthOf(a) /\ Len(w) <= BignumMaxLimbs
    /\ v = value[a] /\ v \in Nat /\ v = WordsValue(w) /\ v = ValueOf(num[a])
    /\ (Len(w) > 0 => w[Len(w)] # 0)
    /\ Whole(num[a]) /\ Sized(num[a])

\* Every register that is not lost is an operand.
LEMMA GivenRule ==
    ASSUME BigInv, NEW a \in Registers \ spoiled
    PROVE  \E w, v : Given(a, w, v)
<1>1. Whole(num[a]) /\ Sized(num[a])
  BY DEF BigInv
<1>2. PICK w : Limbs(w, num[a]) /\ w = SubSeq(num[a].limbs, 1, num[a].length)
  BY <1>1, WholeLimbs
<1>3. /\ w \in Seq(Limb) /\ Len(w) = LengthOf(a) /\ w = Digits(a)
      /\ ValueOf(num[a]) = WordsValue(w) /\ (Len(w) > 0 => w[Len(w)] # 0)
  BY <1>2 DEF Limbs, LengthOf, Digits
<1>4. LengthOf(a) <= BignumMaxLimbs
  <2>1. /\ num[a].length \in Nat /\ num[a].length <= Len(num[a].limbs)
        /\ Len(num[a].limbs) <= BignumMaxLimbs /\ num[a].limbs \in Seq(Limb)
    BY <1>1 DEF Sized
  <2>2. Len(num[a].limbs) \in Nat /\ BignumMaxLimbs \in Nat
    BY <2>1, BignumAssumption
  <2> QED BY <2>1, <2>2 DEF LengthOf
<1>5. value[a] = ValueOf(num[a])
  BY DEF value
<1>6. WordsValue(w) \in Nat
  BY <1>3, WordsBound
<1>7. Given(a, w, value[a])
  BY <1>1, <1>3, <1>4, <1>5, <1>6 DEF Given
<1> QED BY <1>7

-----------------------------------------------------------------------------
(* Products, copies and remainders.                                          *)

\* What each call is to compute.
LEMMA OperandsExact ==
    ASSUME NEW o, NEW a, NEW b, NEW k
    PROVE  /\ Abstract!Exact(Operands("add", o, a, b, k)) = value[a] + value[b]
           /\ Abstract!Exact(Operands("sub", o, a, b, k)) = value[a] - value[b]
           /\ Abstract!Exact(Operands("mul", o, a, b, k)) = value[a] * value[b]
           /\ Abstract!Exact(Operands("square", o, a, b, k)) = value[a] * value[a]
           /\ Abstract!Exact(Operands("mod", o, a, b, k)) = value[a] % value[b]
           /\ Abstract!Exact(Operands("mulmod", o, a, b, k)) = (value[a] * value[k]) % value[b]
           /\ Abstract!Exact(Operands("copy", o, a, b, k)) = value[a]
           /\ Abstract!Exact(Operands("shift", o, a, b, k)) = 2 * value[a]
           /\ Abstract!Exact(Operands("addu32", o, a, b, k)) = value[a] + k
           /\ Abstract!Exact(Operands("subu32", o, a, b, k)) = value[a] - k
           /\ Abstract!Exact(Operands("mulu32", o, a, b, k)) = value[a] * k
           /\ Abstract!Exact(Operands("divu32", o, a, b, k)) = value[a] \div k
           /\ Abstract!Exact(Operands("set", o, a, b, k)) = k
           /\ Abstract!Exact(Operands("fixedcopy", o, a, b, k)) = value[a] % k
           /\ Abstract!Exact(Operands("fixedsub", o, a, b, k)) = (value[a] % k) - (value[b] % k)
           /\ Abstract!Exact(Operands("free", o, a, b, k)) = 0
BY DEF Abstract!Exact, Operands

\* The fields of the record of a call.
LEMMA OperandsShape ==
    ASSUME NEW op, NEW o, NEW a, NEW b, NEW k, op \notin {"range", "draw", "export"}
    PROVE  /\ Computes(Operands(op, o, a, b, k))
           /\ Operands(op, o, a, b, k).out = o /\ Operands(op, o, a, b, k).a = a
           /\ Operands(op, o, a, b, k).b = b /\ Operands(op, o, a, b, k).op = op
BY DEF Operands, Computes

(* A product in place or in an array of its own.                           *)
LEMMA ProductRule ==
    ASSUME BigInv, NEW c, NEW o \in Registers \ spoiled, c.out = o, Computes(c),
           NEW words \in Seq(Limb), Len(words) <= BignumMaxLimbs,
           WordsValue(words) = Abstract!Exact(c), Product(c, words)
    PROVE  Stepped
<1>1. CASE Done(c, Fresh(words))
  BY <1>1, FreshHolds, DoneRule
<1>2. CASE Done(c, ProductInto(num[o], words))
  <2>1. Sized(num[o])
    BY DEF BigInv
  <2>2. Holds(ProductInto(num[o], words), WordsValue(words))
    BY <2>1, StoredHolds DEF ProductInto
  <2> QED BY <1>2, <2>2, DoneRule
<1>3. CASE AllocationFails(c, Len(words)) \/ Grows(c, Len(words))
  BY <1>3, FailuresRule
<1> QED BY <1>1, <1>2, <1>3 DEF Product

(* crypto_bignum_mul.                                                      *)
LEMMA MulIsExact ==
    ASSUME BigInv, NEW o \in Registers \ spoiled, NEW a \in Registers \ spoiled,
           NEW b \in Registers \ spoiled, Mul(o, a, b)
    PROVE  Stepped
<1>1. PICK w, v : Given(a, w, v)
  BY GivenRule
<1>2. PICK y, z : Given(b, y, z)
  BY GivenRule
<1>3. PICK c : c = Operands("mul", o, a, b, 0)
  OBVIOUS
<1>4. c.out = o /\ Computes(c) /\ Abstract!Exact(c) = v * z
  <2>1. v = value[a] /\ z = value[b]
    BY <1>1, <1>2 DEF Given
  <2>2. Abstract!Exact(c) = value[a] * value[b]
    BY <1>3, OperandsExact
  <2> QED BY <1>3, <2>1, <2>2, OperandsShape
<1>5. /\ w \in Seq(Limb) /\ y \in Seq(Limb) /\ v = WordsValue(w) /\ z = WordsValue(y)
      /\ w = Digits(a) /\ y = Digits(b) /\ Len(w) = LengthOf(a) /\ Len(y) = LengthOf(b)
  BY <1>1, <1>2 DEF Given
<1>6. Len(w) + Len(y) <= BignumMaxLimbs
  BY <1>5 DEF Mul
<1>7. CASE (LengthOf(a) = 0 \/ LengthOf(b) = 0) /\ Product(c, <<>>)
  <2>1. <<>> \in Seq(Limb) /\ WordsValue(<<>>) = 0 /\ Len(<<>>) <= BignumMaxLimbs
    <3>1. Len(<<>>) = 0
      OBVIOUS
    <3> QED BY <3>1, OneLimb, BignumAssumption
  <2>2. v * z = 0
    <3>1. w = <<>> \/ y = <<>>
      BY <1>5, <1>7
    <3>2. v = 0 \/ z = 0
      BY <1>5, <2>1, <3>1
    <3>3. v \in Nat /\ z \in Nat
      BY <1>1, <1>2 DEF Given
    <3> QED BY <3>2, <3>3
  <2> QED BY <1>4, <1>7, <2>1, <2>2, ProductRule
<1>8. CASE LengthOf(a) = LengthOf(b) /\ Product(c, KaratsubaWords(w, y))
  BY <1>4, <1>5, <1>6, <1>8, KaratsubaExact, ProductRule
<1>9. CASE Product(c, MulWords(w, y))
  BY <1>4, <1>5, <1>6, <1>9, ProductOfWords, ProductRule
<1> QED BY <1>3, <1>5, <1>7, <1>8, <1>9 DEF Mul

(* crypto_bignum_square.                                                   *)
LEMMA SquareIsExact ==
    ASSUME BigInv, NEW o \in Registers \ spoiled, NEW a \in Registers \ spoiled, Square(o, a)
    PROVE  Stepped
<1>1. PICK w, v : Given(a, w, v)
  BY GivenRule
<1>2. PICK c : c = Operands("square", o, a, a, 0)
  OBVIOUS
<1>3. c.out = o /\ Computes(c) /\ Abstract!Exact(c) = v * v
  <2>1. v = value[a]
    BY <1>1 DEF Given
  <2>2. Abstract!Exact(c) = value[a] * value[a]
    BY <1>2, OperandsExact
  <2> QED BY <1>2, <2>1, <2>2, OperandsShape
<1>4. w \in Seq(Limb) /\ v = WordsValue(w) /\ w = Digits(a) /\ Len(w) = LengthOf(a)
  BY <1>1 DEF Given
<1>5. 2 * Len(w) <= BignumMaxLimbs /\ Product(c, SquareWords(w))
  BY <1>2, <1>4 DEF Square
<1> QED BY <1>3, <1>4, <1>5, SquareExact, ProductRule

(* crypto_bignum_set_zero and crypto_bignum_free.                          *)
LEMMA FreeIsExact ==
    ASSUME BigInv, NEW o \in Registers, BignumFree(o)
    PROVE  Stepped
<1>1. PICK c : c = Operands("free", o, o, o, 0)
  OBVIOUS
<1>2. c.out = o /\ Computes(c) /\ Abstract!Exact(c) = 0
  BY <1>1, OperandsExact, OperandsShape
<1>3. Done(c, Empty)
  BY <1>1 DEF BignumFree
<1> QED BY <1>2, <1>3, EmptyHolds, DoneRule

\* The copy that a call makes of another register.
CopyOf(o, w) == Cleared(Stored(Reserved(num[o], Len(w)), w), LengthOf(o))

\* What bignum_copy leaves holds the value of its operand.
LEMMA CopyHolds ==
    ASSUME BigInv, NEW o \in Registers, NEW a, NEW w, NEW v, Given(a, w, v)
    PROVE  Holds(CopyOf(o, w), v)
<1>1. /\ w \in Seq(Limb) /\ Len(w) <= BignumMaxLimbs /\ (Len(w) > 0 => w[Len(w)] # 0)
      /\ v = WordsValue(w)
  BY DEF Given
<1>2. Sized(num[o])
  BY DEF BigInv
<1> QED BY <1>1, <1>2, StoredHolds DEF CopyOf, LengthOf

(* crypto_bignum_copy.                                                     *)
LEMMA CopyIsExact ==
    ASSUME BigInv, NEW o \in Registers \ spoiled, NEW a \in Registers \ spoiled, BignumCopy(o, a)
    PROVE  Stepped
<1>1. PICK w, v : Given(a, w, v)
  BY GivenRule
<1>2. PICK c : c = Operands("copy", o, a, a, 0)
  OBVIOUS
<1>3. c.out = o /\ Computes(c) /\ Abstract!Exact(c) = v
  <2>1. v = value[a]
    BY <1>1 DEF Given
  <2>2. Abstract!Exact(c) = value[a]
    BY <1>2, OperandsExact
  <2> QED BY <1>2, <2>1, <2>2, OperandsShape
<1>4. CASE o = a
  <2>1. Holds(num[a], v)
    BY <1>1 DEF Given, Holds
  <2>2. Done(c, num[a])
    BY <1>2, <1>4 DEF BignumCopy
  <2> QED BY <1>3, <2>1, <2>2, DoneRule
<1>5. CASE Done(c, CopyOf(o, w))
  BY <1>1, <1>3, <1>5, CopyHolds, DoneRule
<1>6. CASE Grows(c, LengthOf(a))
  BY <1>3, <1>6, FailuresRule
<1>7. w = Digits(a) /\ Len(w) = LengthOf(a)
  BY <1>1 DEF Given
<1> QED BY <1>2, <1>4, <1>5, <1>6, <1>7 DEF BignumCopy, CopyOf

(* A number copied into a register.                                        *)
LEMMA CopiedHolds ==
    ASSUME BigInv, NEW o \in Registers, NEW x, Whole(x)
    PROVE  Holds(Cleared(Stored(Reserved(num[o], x.length), SubSeq(x.limbs, 1, x.length)), LengthOf(o)),
                 ValueOf(x))
<1>1. PICK a : Limbs(a, x) /\ a = SubSeq(x.limbs, 1, x.length)
  BY WholeLimbs
<1>2. /\ a \in Seq(Limb) /\ Len(a) = x.length /\ ValueOf(x) = WordsValue(a)
      /\ (Len(a) > 0 => a[Len(a)] # 0)
  BY <1>1 DEF Limbs
<1>3. Len(a) <= BignumMaxLimbs
  <2>1. /\ x.length \in Nat /\ x.length <= Len(x.limbs)
        /\ Len(x.limbs) <= BignumMaxLimbs /\ x.limbs \in Seq(Limb)
    BY DEF Sized, Whole
  <2>2. Len(x.limbs) \in Nat /\ BignumMaxLimbs \in Nat
    BY <2>1, BignumAssumption
  <2> QED BY <1>2, <2>1, <2>2
<1>4. Sized(num[o])
  BY DEF BigInv
<1>5. Holds(Cleared(Stored(Reserved(num[o], Len(a)), a), num[o].length), WordsValue(a))
  BY <1>2, <1>3, <1>4, StoredHolds
<1> QED BY <1>1, <1>2, <1>5 DEF LengthOf

(* What is left of a number modulo another.                                *)
LEMMA RemainderHolds ==
    ASSUME NEW x, Whole(x), NEW m, Whole(m), m.length > 0
    PROVE  /\ ValueOf(m) > 0 /\ ValueOf(m) \in Nat /\ ValueOf(x) \in Nat
           /\ Holds(BignumRemainder(x, m), ValueOf(x) % ValueOf(m))
<1>1. PICK a : Limbs(a, m)
  BY WholeLimbs
<1>2. /\ a \in Seq(Limb) /\ Len(a) = m.length /\ ValueOf(m) = WordsValue(a)
      /\ (Len(a) > 0 => a[Len(a)] # 0)
  BY <1>1 DEF Limbs
<1>3. PICK k \in Nat : Len(a) = k + 1
  <2>1. Len(a) - 1 \in Nat /\ Len(a) = (Len(a) - 1) + 1
    BY <1>2
  <2> QED BY <2>1
<1>4. WordsValue(a) >= Weight(k) /\ Weight(k) \in Nat \ {0}
  BY <1>2, <1>3, TopLimb, WeightRule
<1>5. WordsValue(a) \in Nat /\ WordsValue(a) < Weight(k + 1)
  BY <1>2, <1>3, WordsBound
<1>6. ValueOf(x) \in Nat
  BY NumberRule DEF Whole
<1>7. PICK d \in Nat : d = ValueOf(m) /\ d > 0 /\ d < Weight(k + 1)
  BY <1>2, <1>4, <1>5
<1>8. PICK r \in Nat : r = ValueOf(x) % d /\ r < Weight(k + 1)
  <2>1. Weight(k + 1) \in Nat
    <3>1. \A i \in Nat : Weight(i) \in Nat
      BY WeightRule
    <3> QED BY <3>1
  <2>2. ValueOf(x) % d \in 0 .. d - 1
    BY <1>6, <1>7
  <2> QED BY <1>7, <2>1, <2>2
<1>9. /\ WordsOf(r, k + 1) \in Seq(Limb) /\ Len(WordsOf(r, k + 1)) = k + 1
      /\ WordsValue(WordsOf(r, k + 1)) = r
  BY <1>8, WordsOfRule
<1>10. k + 1 <= BignumMaxLimbs
  <2>1. /\ m.length \in Nat /\ m.length <= Len(m.limbs)
        /\ Len(m.limbs) <= BignumMaxLimbs /\ m.limbs \in Seq(Limb)
    BY DEF Sized, Whole
  <2>2. Len(m.limbs) \in Nat /\ BignumMaxLimbs \in Nat
    BY <2>1, BignumAssumption
  <2> QED BY <1>2, <1>3, <2>1, <2>2
<1>11. Holds(Fresh(WordsOf(r, k + 1)), r)
  BY <1>9, <1>10, FreshHolds
<1>12. BignumRemainder(x, m) = Fresh(WordsOf(r, k + 1))
  BY <1>2, <1>3, <1>7, <1>8 DEF BignumRemainder
<1> QED BY <1>6, <1>7, <1>8, <1>11, <1>12

(* crypto_bignum_mod, on a number that may be a temporary.                 *)
LEMMA ReduceRule ==
    ASSUME BigInv, NEW c, NEW o \in Registers \ spoiled, c.out = o, Computes(c),
           NEW x, Whole(x), NEW m, Whole(m),
           Abstract!Exact(c) = ValueOf(x) % ValueOf(m), Reduce(c, x, m)
    PROVE  Stepped
<1>1. m.length \in Nat
  BY DEF Whole, Sized
<1> DEFINE copied(y) == \/ Done(c, Cleared(Stored(Reserved(num[c.out], y.length),
                                                 SubSeq(y.limbs, 1, y.length)), LengthOf(c.out)))
                        \/ Grows(c, y.length)
           apart(y) == Done(c, y) \/ AllocationFails(c, m.length)
           rest == BignumRemainder(x, m)
<1>d. \/ m.length = 0 /\ Failed(c)
      \/ m.length > 0 /\ Compare(x, m) < 0 /\ copied(x)
      \/ m.length = 1 /\ Compare(x, m) >= 0 /\ copied(rest)
      \/ m.length > 1 /\ Compare(x, m) >= 0 /\ apart(rest)
  BY DEF Reduce
<1> HIDE DEF rest
<1>2. CASE m.length = 0 /\ Failed(c)
  BY <1>2, FailedRule
<1>3. CASE m.length > 0 /\ Compare(x, m) < 0 /\ copied(x)
  <2>1. CASE Done(c, Cleared(Stored(Reserved(num[o], x.length), SubSeq(x.limbs, 1, x.length)), LengthOf(o)))
    <3>1. ValueOf(x) < ValueOf(m)
      BY <1>3, CompareRule
    <3>2. ValueOf(x) \in Nat /\ ValueOf(m) \in Nat
      BY <1>3, RemainderHolds
    <3>3. ValueOf(x) % ValueOf(m) = ValueOf(x)
      BY <3>1, <3>2
    <3>4. Holds(Cleared(Stored(Reserved(num[o], x.length), SubSeq(x.limbs, 1, x.length)), LengthOf(o)), ValueOf(x))
      BY CopiedHolds
    <3> QED BY <2>1, <3>3, <3>4, DoneRule
  <2>2. CASE Grows(c, x.length)
    BY <2>2, FailuresRule
  <2> QED BY <1>3, <2>1, <2>2
<1>4. CASE m.length > 0 /\ (copied(rest) \/ apart(rest))
  <2>1. PICK y : y = rest /\ Holds(y, ValueOf(x) % ValueOf(m))
    BY <1>4, RemainderHolds DEF rest
  <2>2. Whole(y) /\ ValueOf(y) = ValueOf(x) % ValueOf(m)
    BY <2>1 DEF Holds
  <2>3. CASE Done(c, Cleared(Stored(Reserved(num[o], y.length), SubSeq(y.limbs, 1, y.length)), LengthOf(o)))
    <3>1. Holds(Cleared(Stored(Reserved(num[o], y.length), SubSeq(y.limbs, 1, y.length)), LengthOf(o)), ValueOf(y))
      BY <2>2, CopiedHolds
    <3> QED BY <2>2, <2>3, <3>1, DoneRule
  <2>4. CASE Done(c, y)
    BY <2>1, <2>4, DoneRule
  <2>5. CASE Grows(c, y.length) \/ AllocationFails(c, m.length)
    BY <2>5, FailuresRule
  <2> QED BY <1>4, <2>1, <2>3, <2>4, <2>5
<1>5. m.length = 1 \/ m.length > 1 => m.length > 0
  BY <1>1
<1> QED BY <1>2, <1>3, <1>4, <1>5, <1>d

(* crypto_bignum_mod on registers.                                         *)
LEMMA ModIsExact ==
    ASSUME BigInv, NEW o \in Registers \ spoiled, NEW a \in Registers \ spoiled,
           NEW m \in Registers \ spoiled, Mod(o, a, m)
    PROVE  Stepped
<1>1. Whole(num[a]) /\ Whole(num[m])
  BY DEF BigInv
<1>2. PICK c : c = Operands("mod", o, a, m, 0)
  OBVIOUS
<1>3. c.out = o /\ Computes(c) /\ Abstract!Exact(c) = ValueOf(num[a]) % ValueOf(num[m])
  <2>1. Abstract!Exact(c) = value[a] % value[m]
    BY <1>2, OperandsExact
  <2>2. value[a] = ValueOf(num[a]) /\ value[m] = ValueOf(num[m])
    BY DEF value
  <2> QED BY <1>2, <2>1, <2>2, OperandsShape
<1>4. Reduce(c, num[a], num[m])
  BY <1>2 DEF Mod
<1> QED BY <1>1, <1>3, <1>4, ReduceRule

(* crypto_bignum_mod_mul and crypto_bignum_mod_square.                     *)
LEMMA ModMulIsExact ==
    ASSUME BigInv, NEW o \in Registers \ spoiled, NEW a \in Registers \ spoiled,
           NEW b \in Registers \ spoiled, NEW m \in Registers \ spoiled, ModMul(o, a, b, m)
    PROVE  Stepped
<1>1. PICK w, v : Given(a, w, v)
  BY GivenRule
<1>2. PICK y, z : Given(b, y, z)
  BY GivenRule
<1>3. Whole(num[m])
  BY DEF BigInv
<1>4. PICK c : c = Operands("mulmod", o, a, m, b)
  OBVIOUS
<1>5. c.out = o /\ Computes(c) /\ Abstract!Exact(c) = (v * z) % ValueOf(num[m])
  <2>1. Abstract!Exact(c) = (value[a] * value[b]) % value[m]
    BY <1>4, OperandsExact
  <2>2. value[a] = v /\ value[b] = z /\ value[m] = ValueOf(num[m])
    BY <1>1, <1>2 DEF value, Given
  <2> QED BY <1>4, <2>1, <2>2, OperandsShape
<1>6. /\ w \in Seq(Limb) /\ y \in Seq(Limb) /\ v = WordsValue(w) /\ z = WordsValue(y)
      /\ w = Digits(a) /\ y = Digits(b) /\ Len(w) = LengthOf(a) /\ Len(y) = LengthOf(b)
  BY <1>1, <1>2 DEF Given
<1>7. PICK p \in Seq(Limb) : /\ p = IF a = b THEN SquareWords(w) ELSE MulWords(w, y)
                             /\ Len(p) = Len(w) + Len(y) /\ WordsValue(p) = v * z
  <2>1. CASE a = b
    <3>1. 2 * Len(w) = Len(w) + Len(w) /\ y = w
      BY <1>6, <2>1
    <3> QED BY <1>6, <2>1, <3>1, SquareExact
  <2>2. CASE a # b
    BY <1>6, <2>2, ProductOfWords
  <2> QED BY <2>1, <2>2
<1>8. Len(p) <= BignumMaxLimbs
  BY <1>6, <1>7 DEF ModMul
<1>9. PICK x : x = Fresh(p) /\ Whole(x) /\ ValueOf(x) = v * z
  BY <1>7, <1>8, FreshHolds DEF Holds
<1>10. CASE Reduce(c, x, num[m])
  BY <1>3, <1>5, <1>9, <1>10, ReduceRule
<1>11. CASE AllocationFails(c, LengthOf(a) + LengthOf(b))
  BY <1>5, <1>11, FailuresRule
<1> QED BY <1>4, <1>6, <1>7, <1>9, <1>10, <1>11 DEF ModMul

-----------------------------------------------------------------------------
(* Words, shifts and sums of a word.                                         *)

(* crypto_bignum_set_u32 and crypto_bignum_set_u64.                        *)
LEMMA SetIsExact ==
    ASSUME BigInv, NEW o \in Registers \ spoiled, NEW v \in Words32, SetU64(o, v)
    PROVE  Stepped
<1>1. v \in Nat /\ v < Base * Base /\ Base \in Nat
  BY BignumAssumption, BaseRule
<1>2. PICK n \in Nat : n = IF v = 0 THEN 0 ELSE IF v < Base THEN 1 ELSE 2
  OBVIOUS
<1>3. PICK c : c = Operands("set", o, o, o, v)
  OBVIOUS
<1>4. c.out = o /\ Computes(c) /\ Abstract!Exact(c) = v
  BY <1>3, OperandsExact, OperandsShape
<1>5. Weight(0) = 1 /\ Weight(1) = Base /\ Weight(2) = Base * Base
  <2>1. \A k \in Nat : Weight(k + 1) = Base * Weight(k)
    BY WeightRule
  <2>2. Weight(1 + 1) = Base * Weight(1)
    BY <2>1
  <2>3. 1 + 1 = 2
    OBVIOUS
  <2> QED BY <2>2, <2>3, WeightRule
<1>6. v < Weight(n)
  <2>1. CASE v = 0
    BY <1>2, <1>5, <2>1
  <2>2. CASE v # 0 /\ v < Base
    BY <1>2, <1>5, <2>2
  <2>3. CASE v # 0 /\ ~(v < Base)
    BY <1>1, <1>2, <1>5, <2>3
  <2> QED BY <2>1, <2>2, <2>3
<1>7. PICK w \in Seq(Limb) : w = WordsOf(v, n) /\ Len(w) = n /\ WordsValue(w) = v
  BY <1>1, <1>2, <1>6, WordsOfRule
<1>8. Len(w) > 0 => w[Len(w)] # 0
  <2> HAVE Len(w) > 0
  <2>1. PICK k \in Nat : n = k + 1 /\ v >= Weight(k)
    <3>1. CASE n = 1
      <4>1. v >= Weight(0)
        BY <1>1, <1>2, <1>5, <3>1
      <4> QED BY <3>1, <4>1
    <3>2. CASE n = 2
      <4>1. v >= Weight(1)
        BY <1>1, <1>2, <1>5, <3>2
      <4> QED BY <3>2, <4>1
    <3> QED BY <1>2, <1>7, <3>1, <3>2
  <2> QED BY <1>7, <2>1, TopLimb
<1>9. Len(w) <= BignumMaxLimbs /\ Sized(num[o])
  <2>1. n <= 2
    BY <1>2
  <2> QED BY <1>7, <2>1, BignumAssumption DEF BigInv
<1>10. CASE Done(c, Cleared(Stored(Reserved(num[o], n), w), LengthOf(o)))
  <2>1. Holds(Cleared(Stored(Reserved(num[o], Len(w)), w), num[o].length), WordsValue(w))
    BY <1>8, <1>9, StoredHolds
  <2> QED BY <1>4, <1>7, <1>10, <2>1, DoneRule DEF LengthOf
<1>11. CASE Grows(c, n)
  BY <1>4, <1>11, FailuresRule
<1> QED BY <1>2, <1>3, <1>7, <1>10, <1>11 DEF SetU64

(* crypto_bignum_shift_left_one.                                           *)
LEMMA ShiftIsExact ==
    ASSUME BigInv, NEW o \in Registers \ spoiled, ShiftLeftOne(o)
    PROVE  Stepped
<1>1. PICK w, v : Given(o, w, v)
  BY GivenRule
<1>2. PICK c : c = Operands("shift", o, o, o, 0)
  OBVIOUS
<1>3. c.out = o /\ Computes(c) /\ Abstract!Exact(c) = 2 * v
  <2>1. v = value[o]
    BY <1>1 DEF Given
  <2>2. Abstract!Exact(c) = 2 * value[o]
    BY <1>2, OperandsExact
  <2> QED BY <1>2, <2>1, <2>2, OperandsShape
<1>4. /\ w \in Seq(Limb) /\ w = Digits(o) /\ Len(w) = LengthOf(o) /\ v = WordsValue(w) /\ v \in Nat
      /\ (Len(w) > 0 => w[Len(w)] # 0)
  BY <1>1 DEF Given
<1>5. PICK n \in Nat : n = Len(w) /\ n + 1 <= BignumMaxLimbs
  BY <1>4 DEF ShiftLeftOne
<1>6. CASE n = 0 /\ Done(c, num[o])
  <2>1. w = <<>>
    <3>1. w \in Seq(Limb) /\ Len(w) = 0
      BY <1>4, <1>5, <1>6
    <3> QED BY <3>1
  <2>2. v = 0
    BY <1>4, <2>1, OneLimb
  <2>3. Holds(num[o], v)
    BY <1>1 DEF Given, Holds
  <2>4. 2 * v = v
    BY <2>2
  <2> QED BY <1>3, <1>6, <2>3, <2>4, DoneRule
<1>7. ASSUME n # 0,
             NEW k, k = AddWords(w, w, n).carry, NEW y, y = AddWords(w, w, n).w,
             NEW words, words = (IF k = 0 THEN y ELSE Append(y, 1)),
             Done(c, Stored(Reserved(num[o], n + 1), words))
      PROVE  Stepped
  <2>1. y \in Seq(Limb) /\ Len(y) = n /\ k \in {0, 1} /\ v + v = WordsValue(y) + k * Weight(n)
    BY <1>4, <1>5, <1>7, SumOfWords
  <2>2. words = IF k = 0 THEN y ELSE Append(y, k)
    BY <1>7, <2>1
  <2>3. \A m \in Nat : n = m + 1 => v + v >= Weight(m)
    <3> TAKE m \in Nat
    <3> HAVE n = m + 1
    <3>1. v >= Weight(m)
      BY <1>4, <1>5, <1>7, TopLimb
    <3>2. Weight(m) \in Nat
      BY WeightRule
    <3> QED BY <1>4, <3>1, <3>2
  <2>4. PICK s \in Nat : s = v + v
    BY <1>4
  <2>5. /\ words \in Seq(Limb) /\ Len(words) = (IF k = 0 THEN n ELSE n + 1) /\ WordsValue(words) = s
        /\ Len(words) > 0 => words[Len(words)] # 0
    <3>1. s = WordsValue(y) + k * Weight(n) /\ \A m \in Nat : n = m + 1 => s >= Weight(m)
      BY <2>1, <2>3, <2>4
    <3>2. SumAndCarry(y, n, k, s)
      BY <2>1, <2>4, <3>1 DEF SumAndCarry
    <3>3. ExactSum(words, n, k, s)
      BY <2>2, <3>2, CarriedSum
    <3> QED BY <3>3 DEF ExactSum
  <2>6. Sized(num[o]) /\ num[o].length = n
    BY <1>4, <1>5 DEF BigInv, LengthOf
  <2>7. PICK room \in Nat : room = n + 1
    OBVIOUS
  <2>8. Len(words) <= room /\ room <= BignumMaxLimbs /\ num[o].length <= Len(words)
    BY <1>5, <2>1, <2>5, <2>6, <2>7
  <2>9. Holds(Stored(Reserved(num[o], room), words), WordsValue(words))
    BY <2>5, <2>6, <2>8, StoredInRoom
  <2>10. WordsValue(words) = 2 * v
    BY <1>4, <2>4, <2>5
  <2> QED BY <1>3, <1>7, <2>7, <2>9, <2>10, DoneRule
<1>8. CASE Grows(c, n + 1)
  BY <1>3, <1>8, FailuresRule
<1>9. CASE n # 0 /\ ~Grows(c, n + 1)
  <2>1. PICK k, y : k = AddWords(w, w, n).carry /\ y = AddWords(w, w, n).w
    OBVIOUS
  <2>2. Done(c, Stored(Reserved(num[o], n + 1), IF k = 0 THEN y ELSE Append(y, 1)))
    BY <1>2, <1>4, <1>5, <1>9, <2>1 DEF ShiftLeftOne
  <2> QED BY <1>7, <1>9, <2>1, <2>2
<1>10. n = 0 => Done(c, num[o])
  BY <1>2, <1>4, <1>5 DEF ShiftLeftOne
<1> QED BY <1>6, <1>8, <1>9, <1>10

\* The larger of two lengths.
LEMMA LargerOf ==
    ASSUME NEW m \in Nat, NEW n \in Nat
    PROVE  Max({m, n}) = (IF m <= n THEN n ELSE m)
<1>1. PICK k \in Nat : k = (IF m <= n THEN n ELSE m)
  OBVIOUS
<1>2. {m, n} \subseteq 0 .. k /\ {m, n} # {} /\ k \in {m, n}
  BY <1>1
<1>3. PICK E : E = {m, n}
  OBVIOUS
<1>4. E \subseteq 0 .. k /\ E # {}
  BY <1>2, <1>3
<1>5. Max(E) \in E /\ \A j \in E : j <= Max(E)
  BY <1>4, LargestOf
<1>6. Max(E) \in Nat /\ Max(E) <= k /\ k <= Max(E)
  BY <1>2, <1>3, <1>4, <1>5
<1> QED BY <1>1, <1>3, <1>6

\* x as limbs w of value v, and the limbs y and the carry k of its sum with d,
\* which is n limbs long.
PlusGiven(x, w, v, d, n, y, k) ==
    /\ Limbs(w, x) /\ w = SubSeq(x.limbs, 1, x.length)
    /\ v = ValueOf(x) /\ v \in Nat /\ d \in Nat /\ d # 0
    /\ n = (IF 1 <= Len(w) THEN Len(w) ELSE 1)
    /\ y = WordSum(x, d).w /\ k = WordSum(x, d).carry
    /\ SumAndCarry(y, n, k, v + d)

\* What the single-limb addition is given.
LEMMA PlusGivenRule ==
    ASSUME NEW x, Whole(x), NEW d \in Limb, d # 0
    PROVE  \E w, v, n, y, k : PlusGiven(x, w, v, d, n, y, k)
<1>1. PICK w : Limbs(w, x) /\ w = SubSeq(x.limbs, 1, x.length)
  BY WholeLimbs
<1>2. /\ w \in Seq(Limb) /\ Len(w) = x.length /\ ValueOf(x) = WordsValue(w)
      /\ (Len(w) > 0 => w[Len(w)] # 0)
  BY <1>1 DEF Limbs
<1>3. d \in Nat
  BY BaseRule DEF Limb
<1>4. PICK v \in Nat : v = WordsValue(w)
  BY <1>2, WordsBound
<1>5. PICK m \in Nat : m = Len(w)
  BY <1>2
<1>6. PICK n \in Nat : n = (IF 1 <= m THEN m ELSE 1) /\ n = Max({1, m})
  <2>1. \A i \in Nat, j \in Nat : Max({i, j}) = IF i <= j THEN j ELSE i
    BY LargerOf
  <2>2. Max({1, m}) = IF 1 <= m THEN m ELSE 1
    BY <2>1
  <2> QED BY <2>2
<1>7. WordSum(x, d) = AddWords(w, <<d>>, n)
  BY <1>1, <1>2, <1>5, <1>6 DEF WordSum
<1>8. <<d>> \in Seq(Limb) /\ Len(<<d>>) = 1 /\ WordsValue(<<d>>) = d
  BY OneLimb
<1>9. PICK y, k : y = WordSum(x, d).w /\ k = WordSum(x, d).carry
  OBVIOUS
<1>10. y \in Seq(Limb) /\ Len(y) = n /\ k \in {0, 1} /\ v + d = WordsValue(y) + k * Weight(n)
  <2>1. n >= Len(w) /\ n >= Len(<<d>>)
    BY <1>5, <1>6, <1>8
  <2>2. PICK e \in Seq(Limb) : e = <<d>> /\ WordsValue(e) = d /\ n >= Len(e)
    BY <1>8, <2>1
  <2>3. /\ AddWords(w, e, n).w \in Seq(Limb) /\ Len(AddWords(w, e, n).w) = n
        /\ AddWords(w, e, n).carry \in {0, 1}
        /\ WordsValue(w) + WordsValue(e)
             = WordsValue(AddWords(w, e, n).w) + AddWords(w, e, n).carry * Weight(n)
    BY <1>2, <2>1, <2>2, SumOfWords
  <2>4. y = AddWords(w, e, n).w /\ k = AddWords(w, e, n).carry
    BY <1>7, <1>9, <2>2
  <2> QED BY <1>4, <2>2, <2>3, <2>4
<1>11. \A i \in Nat : n = i + 1 => v + d >= Weight(i)
  <2> TAKE i \in Nat
  <2> HAVE n = i + 1
  <2>1. CASE 1 <= m
    <3>1. v >= Weight(i)
      BY <1>2, <1>4, <1>5, <1>6, <2>1, TopLimb
    <3>2. Weight(i) \in Nat
      BY WeightRule
    <3> QED BY <1>3, <3>1, <3>2
  <2>2. CASE ~(1 <= m)
    <3>1. i = 0
      BY <1>6, <2>2
    <3>2. Weight(i) = 1
      BY <3>1, WeightRule
    <3> QED BY <1>3, <3>2
  <2> QED BY <2>1, <2>2
<1>12. v + d \in Nat
  BY <1>3
<1>13. SumAndCarry(y, n, k, v + d)
  BY <1>10, <1>11, <1>12 DEF SumAndCarry
<1>14. PlusGiven(x, w, v, d, n, y, k)
  BY <1>1, <1>2, <1>3, <1>4, <1>5, <1>6, <1>9, <1>13 DEF PlusGiven
<1> QED BY <1>14

(* A word added to a number in place.                                      *)
LEMMA PlusWordHolds ==
    ASSUME NEW x, Whole(x), NEW d \in Limb, PlusWord(x, d).length <= BignumMaxLimbs
    PROVE  Holds(PlusWord(x, d), ValueOf(x) + d)
<1>1. CASE d = 0
  <2>1. PlusWord(x, d) = x
    BY <1>1 DEF PlusWord
  <2>2. ValueOf(x) \in Nat
    BY NumberRule DEF Whole
  <2>3. ValueOf(x) + d = ValueOf(x)
    BY <1>1, <2>2
  <2> QED BY <2>1, <2>3 DEF Holds
<1>2. CASE d # 0
  <2>1. PICK w, v, n, y, k : PlusGiven(x, w, v, d, n, y, k)
    BY <1>2, PlusGivenRule
  <2>2. /\ v = ValueOf(x) /\ v \in Nat /\ d \in Nat
        /\ y = WordSum(x, d).w /\ k = WordSum(x, d).carry
        /\ SumAndCarry(y, n, k, v + d)
    BY <2>1 DEF PlusGiven
  <2>3. PICK all : all = IF k = 0 THEN y ELSE Append(y, k)
    OBVIOUS
  <2>4. ExactSum(all, n, k, v + d)
    BY <2>2, <2>3, CarriedSum
  <2>5. PlusWord(x, d) = Stored(Reserved(x, Len(all)), all)
    BY <1>2, <2>2, <2>3 DEF PlusWord
  <2>6. /\ all \in Seq(Limb) /\ Len(all) = (IF k = 0 THEN n ELSE n + 1) /\ WordsValue(all) = v + d
        /\ (Len(all) > 0 => all[Len(all)] # 0)
    BY <2>4 DEF ExactSum
  <2>7. Len(all) <= BignumMaxLimbs
    <3>1. PlusWord(x, d).length = Len(all)
      BY <2>5 DEF Stored
    <3> QED BY <3>1
  <2>8. x.length <= Len(all)
    <3>1. x.length = Len(w) /\ Len(w) \in Nat
      BY <2>1 DEF PlusGiven, Limbs
    <3>2. n \in Nat /\ n = (IF 1 <= Len(w) THEN Len(w) ELSE 1)
      BY <2>1, <2>2 DEF PlusGiven, SumAndCarry
    <3> QED BY <2>6, <3>1, <3>2
  <2>9. Sized(x)
    BY DEF Whole
  <2>10. Holds(Stored(Reserved(x, Len(all)), all), WordsValue(all))
    BY <2>6, <2>7, <2>8, <2>9, StoredHolds
  <2> QED BY <2>2, <2>5, <2>6, <2>10
<1> QED BY <1>1, <1>2

\* The only call that may spoil what it was adding to.
LEMMA SpoiltRule ==
    ASSUME BigInv, NEW c, NEW o \in Registers, c.out = o, c.op = "addu32", NEW x, Sized(x), NEW lost,
           o \in lost \/ Whole(x), Ends(c, x, FALSE, lost)
    PROVE  Stepped
<1>1. PICK ok : ok = FALSE
  OBVIOUS
<1>2. BigInv' /\ value' = [value EXCEPT ![o] = ValueOf(x)] /\ call' = [made |-> c, ok |-> ok]
  <2>1. Ends(c, x, ok, lost)
    BY <1>1
  <2> QED BY <2>1, EndsRule
<1>3. \A r \in Registers : value'[r] = value[r] \/ r = o
  <2>1. value = [r \in Registers |-> ValueOf(num[r])]
    BY DEF value
  <2> QED BY <1>2, <2>1
<1>4. call'.ok = FALSE /\ call'.made = c
  BY <1>1, <1>2
<1>5. Abstract!Next
  BY <1>3, <1>4 DEF Abstract!Next, Abstract!Fail
<1> QED BY <1>2, <1>5 DEF Stepped

(* What is left when the last carry finds no room.                         *)
LEMMA WrappedNumber ==
    ASSUME NEW x, Whole(x), NEW d \in Limb, d # 0, x.length # 0
    PROVE  Sized(Stored(x, WordSum(x, d).w))
<1>1. PICK w, v, n, y, k : PlusGiven(x, w, v, d, n, y, k)
  BY PlusGivenRule
<1>2. /\ y = WordSum(x, d).w /\ n = (IF 1 <= Len(w) THEN Len(w) ELSE 1) /\ Limbs(w, x)
      /\ SumAndCarry(y, n, k, v + d)
  BY <1>1 DEF PlusGiven
<1>3. y \in Seq(Limb) /\ Len(y) = n /\ n \in Nat /\ Len(w) = x.length /\ w \in Seq(Limb)
  BY <1>2 DEF SumAndCarry, Limbs
<1>4. Sized(x)
  BY DEF Whole
<1>5. n = x.length /\ n <= Len(x.limbs) /\ Len(x.limbs) <= BignumMaxLimbs /\ Len(x.limbs) \in Nat
      /\ BignumMaxLimbs \in Nat
  BY <1>2, <1>3, <1>4, BignumAssumption DEF Sized
<1>6. PICK r : r = Reserved(x, n) /\ r = x
  <2>1. n - Len(x.limbs) <= 0
    BY <1>3, <1>5
  <2>2. [i \in 1 .. n - Len(x.limbs) |-> 0] = <<>>
    BY <1>3, <1>5, <2>1
  <2>3. Zeros(n - Len(x.limbs)) = <<>>
    BY <2>2 DEF Zeros
  <2>4. x.limbs \o <<>> = x.limbs
    BY <1>4 DEF Sized
  <2>5. Reserved(x, n) = [x EXCEPT !.limbs = x.limbs]
    BY <2>3, <2>4 DEF Reserved
  <2>6. x = [limbs |-> x.limbs, length |-> x.length]
    BY <1>4 DEF Sized
  <2> QED BY <2>5, <2>6
<1>7. PICK t : t = Stored(x, y) /\ Overlaid(t, x.length, y)
  <2>1. n <= BignumMaxLimbs /\ Len(y) <= n
    BY <1>3, <1>5
  <2>2. Overlaid(Stored(Reserved(x, n), y), x.length, y)
    BY <1>3, <1>4, <2>1, StoredRule
  <2> QED BY <1>6, <2>2
<1>8. /\ t = [limbs |-> t.limbs, length |-> t.length] /\ t.limbs \in Seq(Limb)
      /\ Len(t.limbs) <= BignumMaxLimbs /\ t.length = n /\ n <= Len(t.limbs)
  BY <1>3, <1>7 DEF Overlaid
<1>9. \A i \in Nat : i > n /\ i > n /\ i <= Len(t.limbs) => t.limbs[i] = 0
  BY <1>3, <1>5, <1>7 DEF Overlaid
<1> QED BY <1>2, <1>3, <1>7, <1>8, <1>9 DEF Sized

\* A word added to the copy of an operand, in place.
LEMMA AddIntoRule ==
    ASSUME BigInv, NEW c, NEW o \in Registers, c.out = o, c.op = "addu32", NEW x, Whole(x),
           NEW d \in Limb, PlusWord(x, d).length <= BignumMaxLimbs,
           Abstract!Exact(c) = ValueOf(x) + d, AddInto(c, x, d)
    PROVE  Stepped
<1>1. CASE Done(c, PlusWord(x, d))
  <2>1. Holds(PlusWord(x, d), ValueOf(x) + d)
    BY PlusWordHolds
  <2>2. Computes(c)
    BY DEF Computes
  <2> QED BY <1>1, <2>1, <2>2, DoneRule
<1>2. CASE PlusWord(x, d).length > Len(x.limbs) /\ x.length = 0 /\ Ends(c, x, FALSE, {})
  <2>1. Sized(x)
    BY DEF Whole
  <2>2. PICK lost : lost = {}
    OBVIOUS
  <2> QED BY <1>2, <2>1, <2>2, SpoiltRule
<1>3. CASE /\ PlusWord(x, d).length > Len(x.limbs) /\ x.length # 0
           /\ Ends(c, Stored(x, WordSum(x, d).w), FALSE, {o})
  <2>1. d # 0
    <3>1. x.length <= Len(x.limbs) /\ x.length \in Nat /\ Len(x.limbs) \in Nat
      BY DEF Whole, Sized
    <3>2. d = 0 => PlusWord(x, d) = x
      BY DEF PlusWord
    <3> QED BY <1>3, <3>1, <3>2
  <2>2. PICK y : y = Stored(x, WordSum(x, d).w) /\ Sized(y)
    BY <1>3, <2>1, WrappedNumber
  <2>3. PICK lost : lost = {o}
    OBVIOUS
  <2> QED BY <1>3, <2>2, <2>3, SpoiltRule
<1> QED BY <1>1, <1>2, <1>3 DEF AddInto

(* crypto_bignum_add_u32 in place.                                         *)
LEMMA AddWordIsExact ==
    ASSUME BigInv, NEW o \in Registers \ spoiled, NEW d \in Limb, AddU32(o, d)
    PROVE  Stepped
<1>1. Whole(num[o])
  BY DEF BigInv
<1>2. PICK c : c = Operands("addu32", o, o, o, d)
  OBVIOUS
<1>3. c.out = o /\ c.op = "addu32" /\ Abstract!Exact(c) = ValueOf(num[o]) + d
  <2>1. Abstract!Exact(c) = value[o] + d
    BY <1>2, OperandsExact
  <2>2. value[o] = ValueOf(num[o])
    BY DEF value
  <2> QED BY <1>2, <2>1, <2>2, OperandsShape
<1>4. PlusWord(num[o], d).length <= BignumMaxLimbs /\ AddInto(c, num[o], d)
  BY <1>2 DEF AddU32
<1> QED BY <1>1, <1>3, <1>4, AddIntoRule

(* The same on a copy of another register.                                 *)
LEMMA AddWordToCopyIsExact ==
    ASSUME BigInv, NEW o \in Registers \ spoiled, NEW a \in Registers \ spoiled,
           NEW d \in Limb, AddU32Copy(o, a, d)
    PROVE  Stepped
<1>1. PICK w, v : Given(a, w, v)
  BY GivenRule
<1>2. w = Digits(a) /\ Len(w) = LengthOf(a) /\ v = value[a] /\ Whole(num[a]) /\ v = ValueOf(num[a])
  BY <1>1 DEF Given
<1>3. PICK c : c = Operands("addu32", o, a, a, d)
  OBVIOUS
<1>4. c.out = o /\ c.op = "addu32" /\ Abstract!Exact(c) = v + d
  <2>1. Abstract!Exact(c) = value[a] + d
    BY <1>3, OperandsExact
  <2> QED BY <1>2, <1>3, <2>1, OperandsShape
<1>5. PICK x : x = IF o = a THEN num[a] ELSE CopyOf(o, w)
  OBVIOUS
<1>6. Whole(x) /\ ValueOf(x) = v
  <2>1. Holds(CopyOf(o, w), v)
    BY <1>1, CopyHolds
  <2> QED BY <1>2, <1>5, <2>1 DEF Holds
<1>7. PlusWord(x, d).length <= BignumMaxLimbs /\ (AddInto(c, x, d) \/ Grows(c, LengthOf(a)))
  BY <1>2, <1>3, <1>5 DEF AddU32Copy, CopyOf
<1>8. CASE AddInto(c, x, d)
  BY <1>4, <1>6, <1>7, <1>8, AddIntoRule
<1>9. CASE Grows(c, LengthOf(a))
  BY <1>4, <1>9, FailuresRule
<1> QED BY <1>7, <1>8, <1>9

-----------------------------------------------------------------------------
(* Sums and differences, limb by limb, of operands that may be the result.   *)

\* Limb i of operand r while w is the array of the result.
Reading(out, r, w, i) ==
    IF i < LengthOf(r) THEN At(IF r = out THEN w ELSE num[r].limbs, i) ELSE 0

\* The two limbs read and the carry, as one place.
Summed(out, a, b, sign, s, i) ==
    Reading(out, a, s.w, i) + sign * Reading(out, b, s.w, i) + s.carry

\* The loop of an addition or subtraction after each limb.
LimbPasses(p, out, array, a, b, sign) ==
    /\ p[0] = [w |-> array, carry |-> 0]
    /\ \A k \in Nat :
         /\ p[k].w \in Seq(Limb) /\ p[k].carry \in Int
         /\ p[k + 1] = [w |-> [p[k].w EXCEPT ![k + 1] = Low(Summed(out, a, b, sign, p[k], k))],
                        carry |-> High(Summed(out, a, b, sign, p[k], k))]

\* What a pass reads is a limb, wherever the operand lives.
LEMMA ReadingIsLimb ==
    ASSUME NEW o, NEW r, Sized(num[r]), NEW w \in Seq(Limb), NEW i \in Nat
    PROVE  Reading(o, r, w, i) \in Limb /\ Reading(o, r, w, i) \in Int
<1>1. num[r].limbs \in Seq(Limb)
  BY DEF Sized
<1>2. PICK y \in Seq(Limb) : y = IF r = o THEN w ELSE num[r].limbs
  BY <1>1
<1>3. At(y, i) \in Limb
  BY LimbsAreIntegers
<1>4. 0 \in Limb /\ Limb \subseteq Int
  BY BaseRule DEF Limb
<1> QED BY <1>2, <1>3, <1>4 DEF Reading

\* The passes of the loop over the limbs of two operands.
LEMMA PassesRule ==
    ASSUME NEW o, NEW a, NEW b, Sized(num[a]), Sized(num[b]),
           NEW array \in Seq(Limb), NEW sign \in Int, NEW n \in Nat
    PROVE  \E p : LimbPasses(p, o, array, a, b, sign) /\ Limbwise(o, array, a, b, n, sign) = p[n]
<1> DEFINE S == [w : Seq(Limb), carry : Int]
           z == [w |-> array, carry |-> 0]
           step(s, k) == [w |-> [s.w EXCEPT ![k] = Low(Summed(o, a, b, sign, s, k - 1))],
                          carry |-> High(Summed(o, a, b, sign, s, k - 1))]
           Rule(f) == f = [k \in Nat |-> IF k = 0 THEN z ELSE step(f[k - 1], k)]
           pass == CHOOSE f : Rule(f)
           g == [q \in Nat \X S |-> IF q[1] = 0 THEN z ELSE step(q[2], q[1])]
<1>1. Limbwise(o, array, a, b, n, sign) = pass[n]
  BY DEF Limbwise, Summed, Reading
<1>2. z \in S
  OBVIOUS
<1>3. \A k \in Nat, s \in S : k # 0 => step(s, k) \in S
  <2> TAKE k \in Nat, s \in S
  <2> HAVE k # 0
  <2>1. k - 1 \in Nat /\ s.w \in Seq(Limb) /\ s.carry \in Int
    OBVIOUS
  <2>2. Reading(o, a, s.w, k - 1) \in Int /\ Reading(o, b, s.w, k - 1) \in Int
    BY <2>1, ReadingIsLimb
  <2>3. PICK t \in Int : t = Summed(o, a, b, sign, s, k - 1)
    <3>1. PICK x \in Int, y \in Int : x = Reading(o, a, s.w, k - 1) /\ y = Reading(o, b, s.w, k - 1)
      BY <2>2
    <3>2. x + sign * y + s.carry \in Int
      BY <2>1
    <3> QED BY <3>1, <3>2 DEF Summed
  <2>4. Low(t) \in Limb /\ High(t) \in Int
    BY LowHigh
  <2>5. [s.w EXCEPT ![k] = Low(t)] \in Seq(Limb)
    <3>1. PICK y \in Seq(Limb), m \in Nat : y = s.w /\ m = Len(y) /\ DOMAIN y = 1 .. m
      BY <2>1
    <3>2. PICK e \in Limb : e = Low(t)
      BY <2>4
    <3>3. [y EXCEPT ![k] = e] \in Seq(Limb)
      <4>1. \A i \in 1 .. m : y[i] \in Limb
        BY <3>1
      <4>2. [y EXCEPT ![k] = e] = [i \in 1 .. m |-> IF i = k THEN e ELSE y[i]]
        BY <3>1
      <4>3. [i \in 1 .. m |-> IF i = k THEN e ELSE y[i]] \in Seq(Limb)
        BY <4>1
      <4> QED BY <4>2, <4>3
    <3> QED BY <3>1, <3>2, <3>3
  <2> QED BY <2>3, <2>4, <2>5
<1>4. \A k \in Nat, s \in S : k # 0 => k - 1 \in Nat /\ g[<<k, s>>] = step(s, k)
  <2> HIDE DEF step, S, z
  <2> QED OBVIOUS
<1>5. g \in [Nat \X S -> S]
  <2>1. ASSUME NEW q \in Nat \X S PROVE g[q] \in S
    <3>1. CASE q[1] = 0
      BY <1>2, <3>1
    <3>2. CASE q[1] # 0
      <4> HIDE DEF step, S, z
      <4>1. q[1] \in Nat /\ q[2] \in S /\ g[q] = step(q[2], q[1])
        BY <3>2
      <4> QED BY <1>3, <3>2, <4>1
    <3> QED BY <3>1, <3>2
  <2> HIDE DEF step, S, z
  <2> QED BY <2>1
<1> HIDE DEF g, S, z, step
<1>6. PICK f : f \in [Nat -> S] /\ f = [k \in Nat |-> IF k = 0 THEN z ELSE g[<<k, f[k - 1]>>]]
  <2>1. PICK f : StepsFrom(f, S, z, g)
    BY <1>2, <1>5, Recursion
  <2> QED BY <2>1 DEF StepsFrom
<1>7. Rule(f)
  <2>1. \A k \in Nat : f[k] = IF k = 0 THEN z ELSE step(f[k - 1], k)
    <3>1. \A k \in Nat : k # 0 => k - 1 \in Nat /\ f[k - 1] \in S
      BY <1>6
    <3> QED BY <1>4, <1>6, <3>1
  <2>2. f = [k \in Nat |-> f[k]]
    BY <1>6
  <2> QED BY <2>1, <2>2
<1>8. Rule(pass)
  <2> HIDE DEF Rule
  <2> QED BY <1>7
<1> HIDE DEF pass
<1>9. pass[0] = z /\ \A k \in Nat : pass[k + 1] = step(pass[k], k + 1)
  <2>1. \A k \in Nat : pass[k] = IF k = 0 THEN z ELSE step(pass[k - 1], k)
    BY <1>8
  <2>2. \A k \in Nat : k + 1 \in Nat /\ k + 1 # 0 /\ (k + 1) - 1 = k
    OBVIOUS
  <2> QED BY <2>1, <2>2
<1> HIDE DEF Rule
<1>10. \A k \in Nat : pass[k] \in S
  <2>1. pass[0] \in S
    BY <1>2, <1>9
  <2>2. \A k \in Nat : pass[k] \in S => pass[k + 1] \in S
    <3>1. \A k \in Nat : k + 1 \in Nat /\ k + 1 # 0
      OBVIOUS
    <3> QED BY <1>3, <1>9, <3>1
  <2> QED BY <2>1, <2>2, StaysWithin
<1>11. \A k \in Nat : pass[k].w \in Seq(Limb) /\ pass[k].carry \in Int
  BY <1>10 DEF S
<1>12. \A k \in Nat :
         pass[k + 1] = [w |-> [pass[k].w EXCEPT ![k + 1] = Low(Summed(o, a, b, sign, pass[k], k))],
                        carry |-> High(Summed(o, a, b, sign, pass[k], k))]
  <2> TAKE k \in Nat
  <2>1. (k + 1) - 1 = k
    OBVIOUS
  <2>2. pass[k + 1] = step(pass[k], k + 1)
    BY <1>9
  <2> QED BY <2>1, <2>2 DEF step
<1>13. LimbPasses(pass, o, array, a, b, sign)
  BY <1>9, <1>11, <1>12 DEF LimbPasses, z
<1> QED BY <1>1, <1>13

\* Operand r of n limbs at most is w, and while it is the result itself its
\* limbs are those of the array that the result starts from.
Aliased(o, array, n, r, w) ==
    /\ w \in Seq(Limb) /\ Len(w) = LengthOf(r) /\ Len(w) <= n
    /\ \A i \in Nat : i < Len(w) => /\ At(num[r].limbs, i) = At(w, i)
                                    /\ r = o => array[i + 1] = At(w, i)

\* The first k limbs of the result are done, from k up it is the old array.
DoneTo(s, array, q, c, k) ==
    /\ s.w \in Seq(Limb) /\ Len(s.w) = Len(array) /\ s.carry = c[k]
    /\ \A i \in Nat : i < k => s.w[i + 1] = Low(q[i] + c[i])
    /\ \A i \in Nat : i >= k /\ i < Len(array) => s.w[i + 1] = array[i + 1]

(* Limb k of an operand is still there when it is read.                    *)
LEMMA ReadingRule ==
    ASSUME NEW o, NEW array, NEW n \in Nat, n <= Len(array), array \in Seq(Limb),
           NEW r, NEW w, Aliased(o, array, n, r, w),
           NEW s, NEW q, NEW c, NEW k \in Nat, k < n, DoneTo(s, array, q, c, k)
    PROVE  Reading(o, r, s.w, k) = At(w, k)
<1>1. Len(array) \in Nat
  OBVIOUS
<1>2. s.w \in Seq(Limb) /\ Len(s.w) = Len(array) /\ s.w[k + 1] = array[k + 1]
  BY <1>1 DEF DoneTo
<1>3. At(s.w, k) = s.w[k + 1]
  BY <1>1, <1>2 DEF At
<1>4. w \in Seq(Limb) /\ Len(w) = LengthOf(r)
  BY DEF Aliased
<1>5. CASE k < LengthOf(r)
  <2>1. At(num[r].limbs, k) = At(w, k) /\ (r = o => array[k + 1] = At(w, k))
    BY <1>4, <1>5 DEF Aliased
  <2> QED BY <1>2, <1>3, <1>5, <2>1 DEF Reading
<1>6. CASE ~(k < LengthOf(r))
  <2>1. At(w, k) = 0
    BY <1>4, <1>6 DEF At
  <2> QED BY <1>6, <2>1 DEF Reading
<1> QED BY <1>5, <1>6

\* One pass reads the operands as they were, the result overwriting only the
\* limbs already read.
LEMMA LimbwiseStep ==
    ASSUME NEW o, NEW array, array \in Seq(Limb), NEW n \in Nat, n <= Len(array),
           NEW a, NEW x, Aliased(o, array, n, a, x), NEW b, NEW y, Aliased(o, array, n, b, y),
           NEW sign \in Int, NEW q, \A i \in Nat : q[i] = At(x, i) + sign * At(y, i),
           NEW c, Carries(c, q), NEW p, LimbPasses(p, o, array, a, b, sign),
           NEW k \in Nat, k < n, DoneTo(p[k], array, q, c, k)
    PROVE  DoneTo(p[k + 1], array, q, c, k + 1)
<1>1. PICK s : s = p[k]
  OBVIOUS
<1>2. Reading(o, a, s.w, k) = At(x, k)
  BY <1>1, ReadingRule
<1>3. Reading(o, b, s.w, k) = At(y, k)
  BY <1>1, ReadingRule
<1>4. s.w \in Seq(Limb) /\ Len(s.w) = Len(array) /\ s.carry = c[k]
  BY <1>1 DEF DoneTo
<1>5. Summed(o, a, b, sign, s, k) = q[k] + c[k]
  <2>1. q[k] = At(x, k) + sign * At(y, k)
    OBVIOUS
  <2> QED BY <1>2, <1>3, <1>4, <2>1 DEF Summed
<1>6. PICK t : t = q[k] + c[k]
  OBVIOUS
<1>7. p[k + 1] = [w |-> [s.w EXCEPT ![k + 1] = Low(t)], carry |-> High(t)] /\ p[k + 1].w \in Seq(Limb)
  <2>1. /\ p[k + 1] = [w |-> [p[k].w EXCEPT ![k + 1] = Low(Summed(o, a, b, sign, p[k], k))],
                       carry |-> High(Summed(o, a, b, sign, p[k], k))]
    BY DEF LimbPasses
  <2>2. k + 1 \in Nat
    OBVIOUS
  <2>3. p[k + 1].w \in Seq(Limb)
    BY <2>2 DEF LimbPasses
  <2> QED BY <1>1, <1>5, <1>6, <2>1, <2>3
<1>8. c[k + 1] = High(t)
  BY <1>6 DEF Carries
<1>9. PICK r \in Seq(Limb), m \in Nat : r = s.w /\ m = Len(array) /\ Len(r) = m /\ DOMAIN r = 1 .. m
  BY <1>4
<1>10. PICK z : z = p[k + 1].w /\ z = [r EXCEPT ![k + 1] = Low(t)]
  BY <1>7, <1>9
<1>11. /\ Len(z) = m /\ z[k + 1] = Low(t)
       /\ \A i \in Nat : i < m /\ i # k => z[i + 1] = r[i + 1]
  <2>1. k + 1 \in 1 .. m
    BY <1>9
  <2>2. Len(z) = m /\ z[k + 1] = Low(t)
    BY <1>9, <1>10, <2>1
  <2>3. \A i \in Nat : i < m /\ i # k => i + 1 \in 1 .. m /\ i + 1 # k + 1
    OBVIOUS
  <2>4. \A j \in 1 .. m : j # k + 1 => z[j] = r[j]
    BY <1>9, <1>10
  <2> QED BY <2>2, <2>3, <2>4
<1>12. \A i \in Nat : i < k + 1 => z[i + 1] = Low(q[i] + c[i])
  <2> TAKE i \in Nat
  <2> HAVE i < k + 1
  <2>1. CASE i = k
    BY <1>6, <1>11, <2>1
  <2>2. CASE i # k
    <3>1. i < k /\ i < m
      BY <1>9, <2>2
    <3>2. r[i + 1] = Low(q[i] + c[i])
      BY <1>1, <1>9, <3>1 DEF DoneTo
    <3> QED BY <1>11, <2>2, <3>1, <3>2
  <2> QED BY <2>1, <2>2
<1>13. \A i \in Nat : i >= k + 1 /\ i < m => z[i + 1] = array[i + 1]
  <2> TAKE i \in Nat
  <2> HAVE i >= k + 1 /\ i < m
  <2>1. i >= k /\ i # k /\ i < Len(array)
    BY <1>9
  <2>2. r[i + 1] = array[i + 1]
    BY <1>1, <1>9, <2>1 DEF DoneTo
  <2> QED BY <1>11, <2>1, <2>2
<1>14. p[k + 1].carry = c[k + 1] /\ p[k + 1].w = z /\ z \in Seq(Limb) /\ Len(z) = Len(array)
  BY <1>7, <1>8, <1>9, <1>10, <1>11
<1> QED BY <1>9, <1>12, <1>13, <1>14 DEF DoneTo

\* The first n limbs of s are those of r, and above them is the old array.
LimbsDone(s, r, array, n) ==
    /\ s.w \in Seq(Limb) /\ Len(s.w) = Len(array) /\ s.carry = r.carry
    /\ \A i \in Nat : i < n => s.w[i + 1] = r.w[i + 1]
    /\ \A i \in Nat : i >= n /\ i < Len(array) => s.w[i + 1] = array[i + 1]

\* Place by place, x plus or minus y.
PlaceByPlace(q, x, y, sign) ==
    sign \in Int /\ q \in [Nat -> Int] /\ \A i \in Nat : q[i] = At(x, i) + sign * At(y, i)

(* Limb by limb and in place, the result is that of the operands as they   *)
(* were, whichever of them it is written over.                             *)
LEMMA LimbwiseRule ==
    ASSUME NEW o, NEW array, array \in Seq(Limb), NEW n \in Nat, n <= Len(array),
           NEW a, NEW x, Aliased(o, array, n, a, x), Sized(num[a]),
           NEW b, NEW y, Aliased(o, array, n, b, y), Sized(num[b]),
           NEW sign, NEW q, PlaceByPlace(q, x, y, sign)
    PROVE  LimbsDone(Limbwise(o, array, a, b, n, sign), Ripple(q, n), array, n)
<1>0. sign \in Int /\ q \in [Nat -> Int] /\ \A i \in Nat : q[i] = At(x, i) + sign * At(y, i)
  BY DEF PlaceByPlace
<1>1. PICK p : LimbPasses(p, o, array, a, b, sign) /\ Limbwise(o, array, a, b, n, sign) = p[n]
  <2>1. PICK e \in Int : e = sign
    BY <1>0
  <2>2. PICK w \in Seq(Limb) : w = array
    OBVIOUS
  <2>3. \E p : LimbPasses(p, o, w, a, b, e) /\ Limbwise(o, w, a, b, n, e) = p[n]
    BY SMTT(20), PassesRule
  <2> QED BY <2>1, <2>2, <2>3
<1>2. PICK c : /\ Carries(c, q)
               /\ \A m \in Nat : Ripple(q, m) = [w |-> [i \in 1 .. m |-> Low(q[i - 1] + c[i - 1])],
                                                 carry |-> c[m]]
  BY <1>0, RippleRule
<1> DEFINE Good(k) == DoneTo(p[k], array, q, c, k)
           T == {k \in Nat : k <= n => Good(k)}
<1>3. 0 \in T
  <2>1. p[0].w = array /\ p[0].carry = 0
    BY <1>1 DEF LimbPasses
  <2>2. c[0] = 0
    BY <1>2 DEF Carries
  <2>3. \A i \in Nat : ~(i < 0)
    OBVIOUS
  <2> QED BY <2>1, <2>2, <2>3 DEF DoneTo
<1>4. ASSUME NEW k \in Nat, k \in T PROVE k + 1 \in T
  <2>1. k <= n => Good(k)
    <3> HIDE DEF Good
    <3> QED BY <1>4
  <2>2. ASSUME k + 1 <= n PROVE Good(k + 1)
    <3>1. k < n /\ DoneTo(p[k], array, q, c, k)
      BY <2>1, <2>2
    <3> QED BY <1>0, <1>1, <1>2, <3>1, LimbwiseStep
  <2> QED BY <2>2
<1>5. Good(n)
  <2>1. n \in T
    <3> HIDE DEF T
    <3> QED BY <1>3, <1>4, SetInduction
  <2>2. n <= n => Good(n)
    <3> HIDE DEF Good
    <3> QED BY <2>1
  <2> QED BY <2>2
<1>6. PICK s, r : s = Limbwise(o, array, a, b, n, sign) /\ r = Ripple(q, n) /\ s = p[n]
  BY <1>1
<1>7. /\ s.w \in Seq(Limb) /\ Len(s.w) = Len(array) /\ s.carry = c[n]
      /\ \A i \in Nat : i < n => s.w[i + 1] = Low(q[i] + c[i])
      /\ \A i \in Nat : i >= n /\ i < Len(array) => s.w[i + 1] = array[i + 1]
  BY <1>5, <1>6 DEF DoneTo
<1>8. r.carry = c[n] /\ \A i \in Nat : i < n => r.w[i + 1] = Low(q[i] + c[i])
  <2>1. r = [w |-> [i \in 1 .. n |-> Low(q[i - 1] + c[i - 1])], carry |-> c[n]]
    BY <1>2, <1>6
  <2>2. r.carry = c[n] /\ r.w = [i \in 1 .. n |-> Low(q[i - 1] + c[i - 1])]
    BY <2>1
  <2>3. \A i \in Nat : i < n => i + 1 \in 1 .. n /\ (i + 1) - 1 = i
    OBVIOUS
  <2> QED BY <2>2, <2>3
<1> QED BY <1>6, <1>7, <1>8 DEF LimbsDone

\* array is that of register o with room limbs or more.
Grown(o, array, room) ==
    /\ array \in Seq(Limb) /\ array = Reserved(num[o], room).limbs
    /\ Len(array) >= room /\ Len(array) <= BignumMaxLimbs
    /\ \A i \in Nat : i > 0 /\ i <= Len(num[o].limbs) => array[i] = num[o].limbs[i]
    /\ \A i \in Nat : i > LengthOf(o) /\ i <= Len(array) => array[i] = 0

\* The array of the result after it has grown.
LEMMA GrownRule ==
    ASSUME NEW o, Sized(num[o]), NEW room \in Nat, room <= BignumMaxLimbs
    PROVE  \E array : Grown(o, array, room)
<1>1. PICK w \in Seq(Limb) :
             /\ Reserved(num[o], room) = [limbs |-> w, length |-> num[o].length]
             /\ Len(w) >= room /\ Len(w) >= Len(num[o].limbs) /\ Len(w) <= BignumMaxLimbs
             /\ \A i \in Nat : i > 0 /\ i <= Len(num[o].limbs) => w[i] = num[o].limbs[i]
             /\ \A i \in Nat : i > Len(num[o].limbs) /\ i <= Len(w) => w[i] = 0
  BY ReservedRule
<1>2. w = Reserved(num[o], room).limbs
  BY <1>1
<1>3. \A i \in Nat : i > LengthOf(o) /\ i <= Len(w) => w[i] = 0
  <2> TAKE i \in Nat
  <2> HAVE i > LengthOf(o) /\ i <= Len(w)
  <2>0. i > num[o].length /\ num[o].length \in Nat
    BY DEF LengthOf, Sized
  <2>1. CASE i <= Len(num[o].limbs)
    <3>1. num[o].limbs[i] = 0
      BY <2>0, <2>1 DEF Sized
    <3> QED BY <1>1, <2>0, <2>1, <3>1
  <2>2. CASE ~(i <= Len(num[o].limbs))
    <3>1. Len(num[o].limbs) \in Nat
      BY DEF Sized
    <3> QED BY <1>1, <2>2, <3>1
  <2> QED BY <2>1, <2>2
<1> QED BY <1>1, <1>2, <1>3 DEF Grown

\* An operand that may be the result itself still shows its own limbs above
\* those done.
LEMMA AliasedRule ==
    ASSUME NEW o, NEW array, NEW room, Grown(o, array, room), NEW a, NEW w, NEW v, Given(a, w, v),
           NEW n \in Nat, Len(w) <= n
    PROVE  Aliased(o, array, n, a, w)
<1>1. w \in Seq(Limb) /\ Len(w) = LengthOf(a) /\ w = Digits(a) /\ Sized(num[a])
  BY DEF Given
<1>2. PICK l \in Seq(Limb) : l = num[a].limbs /\ w = SubSeq(l, 1, Len(w)) /\ Len(w) <= Len(l)
  BY <1>1 DEF Sized, Digits, LengthOf
<1>3. \A i \in Nat : i < Len(w) => /\ i + 1 \in 1 .. Len(w) /\ i + 1 > 0 /\ i + 1 <= Len(l)
                                   /\ i < Len(l)
  BY <1>1, <1>2
<1>4. \A i \in 1 .. Len(w) : w[i] = l[i]
  BY <1>1, <1>2
<1>5. ASSUME NEW i \in Nat, i < Len(w)
      PROVE  At(num[a].limbs, i) = At(w, i) /\ (a = o => array[i + 1] = At(w, i))
  <2>1. w[i + 1] = l[i + 1]
    BY <1>3, <1>4, <1>5
  <2>2. At(w, i) = w[i + 1] /\ At(l, i) = l[i + 1]
    BY <1>3, <1>5 DEF At
  <2>3. ASSUME a = o PROVE array[i + 1] = l[i + 1]
    <3>1. \A j \in Nat : j > 0 /\ j <= Len(l) => array[j] = l[j]
      BY <1>2, <2>3 DEF Grown
    <3> QED BY <1>3, <1>5, <3>1
  <2> QED BY <1>2, <2>1, <2>2, <2>3
<1> QED BY <1>1, <1>5 DEF Aliased

(* crypto_bignum_add.                                                      *)
LEMMA AddIsExact ==
    ASSUME BigInv, NEW o \in Registers \ spoiled, NEW a \in Registers \ spoiled,
           NEW b \in Registers \ spoiled, Add(o, a, b)
    PROVE  Stepped
<1>1. PICK x, v : Given(a, x, v)
  BY GivenRule
<1>2. PICK y, z : Given(b, y, z)
  BY GivenRule
<1>3. PICK c : c = Operands("add", o, a, b, 0)
  OBVIOUS
<1>4. /\ x \in Seq(Limb) /\ y \in Seq(Limb) /\ v = WordsValue(x) /\ z = WordsValue(y)
      /\ Len(x) = LengthOf(a) /\ Len(y) = LengthOf(b) /\ v \in Nat /\ z \in Nat
      /\ v = value[a] /\ z = value[b] /\ Sized(num[a]) /\ Sized(num[b])
      /\ (Len(x) > 0 => x[Len(x)] # 0) /\ (Len(y) > 0 => y[Len(y)] # 0)
  BY <1>1, <1>2 DEF Given
<1>5. c.out = o /\ Computes(c) /\ Abstract!Exact(c) = v + z
  <2>1. Abstract!Exact(c) = value[a] + value[b]
    BY <1>3, OperandsExact
  <2> QED BY <1>3, <1>4, <2>1, OperandsShape
<1>6. PICK n \in Nat : n = Max({LengthOf(a), LengthOf(b)}) /\ Len(x) <= n /\ Len(y) <= n
                       /\ (n = Len(x) \/ n = Len(y))
  <2>1. \A i \in Nat, j \in Nat : Max({i, j}) = IF i <= j THEN j ELSE i
    BY LargerOf
  <2>2. Max({Len(x), Len(y)}) = IF Len(x) <= Len(y) THEN Len(y) ELSE Len(x)
    BY <1>4, <2>1
  <2> QED BY <1>4, <2>2
<1>7. n + 1 <= BignumMaxLimbs
  BY <1>6 DEF Add
<1>8. PICK room \in Nat : room = n + 1
  OBVIOUS
<1>9. Sized(num[o])
  BY DEF BigInv
<1>10. PICK array : Grown(o, array, room)
  BY <1>7, <1>8, <1>9, GrownRule
<1>11. /\ array \in Seq(Limb) /\ array = Reserved(num[o], n + 1).limbs
       /\ n + 1 <= Len(array) /\ n <= Len(array) /\ Len(array) <= BignumMaxLimbs
       /\ \A i \in Nat : i > LengthOf(o) /\ i <= Len(array) => array[i] = 0
  BY <1>8, <1>10 DEF Grown
<1>12. Aliased(o, array, n, a, x) /\ Aliased(o, array, n, b, y)
  BY <1>1, <1>2, <1>6, <1>10, AliasedRule
<1>13. PICK q, r : /\ q \in [Nat -> Int] /\ \A i \in Nat : q[i] = At(x, i) + 1 * At(y, i)
                                    /\ r = Ripple(q, n) /\ r = AddWords(x, y, n)
  <2>1. PICK q : q = [i \in Nat |-> At(x, i) + At(y, i)]
    OBVIOUS
  <2>2. \A i \in Nat : At(x, i) \in Nat /\ At(y, i) \in Nat
    BY <1>4, LimbsAreIntegers
  <2>3. q \in [Nat -> Int] /\ \A i \in Nat : q[i] = At(x, i) + 1 * At(y, i)
    BY <2>1, <2>2
  <2>4. Ripple(q, n) = AddWords(x, y, n)
    BY <2>1 DEF AddWords
  <2> QED BY <2>3, <2>4
<1>14. PICK s : /\ s = Limbwise(o, array, a, b, n, 1)
                /\ s.w \in Seq(Limb) /\ Len(s.w) = Len(array) /\ s.carry = r.carry
                /\ \A i \in Nat : i < n => s.w[i + 1] = r.w[i + 1]
                /\ \A i \in Nat : i >= n /\ i < Len(array) => s.w[i + 1] = array[i + 1]
  <2>1. PICK sign \in Int : sign = 1
    OBVIOUS
  <2>2. PlaceByPlace(q, x, y, sign)
    BY <1>13, <2>1 DEF PlaceByPlace
  <2>3. LimbsDone(Limbwise(o, array, a, b, n, sign), Ripple(q, n), array, n)
    BY <1>4, <1>11, <1>12, <2>2, LimbwiseRule
  <2>4. PICK s : s = Limbwise(o, array, a, b, n, 1) /\ LimbsDone(s, r, array, n)
    BY <1>13, <2>1, <2>3
  <2> QED BY <2>4 DEF LimbsDone
<1>15. /\ r.w \in Seq(Limb) /\ Len(r.w) = n /\ r.carry \in {0, 1}
       /\ v + z = WordsValue(r.w) + r.carry * Weight(n)
  <2>1. n >= Len(x) /\ n >= Len(y)
    BY <1>4, <1>6
  <2>2. /\ AddWords(x, y, n).w \in Seq(Limb) /\ Len(AddWords(x, y, n).w) = n
        /\ AddWords(x, y, n).carry \in {0, 1}
        /\ WordsValue(x) + WordsValue(y)
             = WordsValue(AddWords(x, y, n).w) + AddWords(x, y, n).carry * Weight(n)
    BY <1>4, <2>1, SumOfWords
  <2> QED BY <1>4, <1>13, <2>2
<1>16. \A m \in Nat : n = m + 1 => v + z >= Weight(m)
  <2> TAKE m \in Nat
  <2> HAVE n = m + 1
  <2>1. v >= Weight(m) \/ z >= Weight(m)
    <3>1. CASE n = Len(x)
      <4>1. Len(x) = m + 1 /\ x[m + 1] # 0
        BY <1>4, <3>1
      <4> QED BY <1>4, <4>1, TopLimb
    <3>2. CASE n = Len(y)
      <4>1. Len(y) = m + 1 /\ y[m + 1] # 0
        BY <1>4, <3>2
      <4> QED BY <1>4, <4>1, TopLimb
    <3> QED BY <1>6, <3>1, <3>2
  <2>2. Weight(m) \in Nat
    BY WeightRule
  <2> QED BY <1>4, <2>1, <2>2
<1>17. PICK t, k, u : t \in Nat /\ t = v + z /\ k = r.carry /\ u = r.w
  BY <1>4
<1>18. SumAndCarry(u, n, k, t)
  BY <1>15, <1>16, <1>17 DEF SumAndCarry
<1>19. PICK words : words = (IF k = 0 THEN u ELSE Append(u, k)) /\ ExactSum(words, n, k, t)
  BY <1>18, CarriedSum
<1>20. /\ words \in Seq(Limb) /\ Len(words) = (IF k = 0 THEN n ELSE n + 1) /\ WordsValue(words) = t
       /\ (Len(words) > 0 => words[Len(words)] # 0)
  BY <1>19 DEF ExactSum
<1>21. PICK f : f = [limbs |-> [s.w EXCEPT ![n + 1] = k], length |-> IF k = 0 THEN n ELSE n + 1]
  OBVIOUS
<1>22. Overlaid(f, LengthOf(o), words)
  <2>1. PICK m \in Nat, g \in Seq(Limb) : g = s.w /\ m = Len(g) /\ DOMAIN g = 1 .. m /\ m = Len(array)
    BY <1>14
  <2>2. n + 1 \in 1 .. m /\ k \in Limb /\ m <= BignumMaxLimbs
    <3>1. 0 \in Limb /\ 1 \in Limb
      BY BaseRule DEF Limb
    <3> QED BY <1>11, <1>15, <1>17, <2>1, <3>1
  <2>3. PICK h : /\ h = [g EXCEPT ![n + 1] = k] /\ h \in Seq(Limb) /\ Len(h) = m /\ h[n + 1] = k
                 /\ \A i \in 1 .. m : i # n + 1 => h[i] = g[i]
    <3>1. \A i \in 1 .. m : g[i] \in Limb
      BY <2>1
    <3>2. PICK h : h = [i \in 1 .. m |-> IF i = n + 1 THEN k ELSE g[i]]
      OBVIOUS
    <3>3. h = [g EXCEPT ![n + 1] = k]
      BY <2>1, <3>2
    <3>4. h \in Seq(Limb) /\ Len(h) = m
      BY <2>1, <2>2, <3>1, <3>2
    <3>5. h[n + 1] = k /\ \A i \in 1 .. m : i # n + 1 => h[i] = g[i]
      BY <2>2, <3>2
    <3> QED BY <3>3, <3>4, <3>5
  <2>4. f.limbs = h /\ f.length = Len(words) /\ f = [limbs |-> f.limbs, length |-> f.length]
    BY <1>20, <1>21, <2>1, <2>3
  <2>5. \A i \in Nat : i > 0 /\ i <= Len(words) => h[i] = words[i]
    <3> TAKE i \in Nat
    <3> HAVE i > 0 /\ i <= Len(words)
    <3>1. CASE i = n + 1
      <4>1. k # 0 /\ words = Append(u, k)
        BY <1>19, <1>20, <3>1
      <4> QED BY <1>15, <1>17, <2>3, <3>1, <4>1
    <3>2. CASE i # n + 1
      <4>1. i <= n
        BY <1>20, <3>2
      <4>2. PICK j \in Nat : i = j + 1 /\ j < n
        <5>1. i - 1 \in Nat /\ i = (i - 1) + 1 /\ i - 1 < n
          BY <4>1
        <5> QED BY <5>1
      <4>3. g[i] = u[i]
        BY <1>14, <1>17, <2>1, <4>2
      <4>4. words[i] = u[i]
        <5>1. i \in 1 .. Len(u)
          BY <1>15, <1>17, <4>1
        <5>2. u \in Seq(Limb)
          BY <1>15, <1>17
        <5> QED BY <1>19, <5>1, <5>2
      <4>5. i \in 1 .. m
        BY <2>2, <4>1
      <4> QED BY <2>3, <3>2, <4>3, <4>4, <4>5
    <3> QED BY <3>1, <3>2
  <2>6. \A i \in Nat : i > Len(words) /\ i > LengthOf(o) /\ i <= m => h[i] = 0
    <3> TAKE i \in Nat
    <3> HAVE i > Len(words) /\ i > LengthOf(o) /\ i <= m
    <3>1. CASE i = n + 1
      <4>1. k = 0
        BY <1>20, <3>1
      <4> QED BY <2>3, <3>1, <4>1
    <3>2. CASE i # n + 1
      <4>1. i > n
        BY <1>20, <3>2
      <4>2. PICK j \in Nat : i = j + 1 /\ j >= n /\ j < m
        <5>1. i - 1 \in Nat /\ i = (i - 1) + 1 /\ i - 1 >= n /\ i - 1 < m
          BY <4>1
        <5> QED BY <5>1
      <4>3. g[i] = array[i]
        BY <1>14, <2>1, <4>2
      <4>4. array[i] = 0
        BY <1>11, <2>1
      <4>5. i \in 1 .. m
        BY <4>1
      <4> QED BY <2>3, <3>2, <4>3, <4>4, <4>5
    <3> QED BY <3>1, <3>2
  <2>7. Len(words) <= m
    BY <1>20, <2>2
  <2> QED BY <1>20, <2>2, <2>3, <2>4, <2>5, <2>6, <2>7 DEF Overlaid
<1>23. Holds(Cleared(f, LengthOf(o)), t)
  <2>1. LengthOf(o) \in Nat
    BY <1>9 DEF Sized, LengthOf
  <2> QED BY <1>20, <1>22, <2>1, OverlaidHolds
<1>24. Done(c, Cleared(f, LengthOf(o))) \/ Grows(c, n + 1)
  BY <1>3, <1>6, <1>11, <1>14, <1>17, <1>21 DEF Add
<1>25. CASE Done(c, Cleared(f, LengthOf(o)))
  BY <1>5, <1>17, <1>23, <1>25, DoneRule
<1>26. CASE Grows(c, n + 1)
  BY <1>5, <1>26, FailuresRule
<1> QED BY <1>24, <1>25, <1>26

(* crypto_bignum_sub.                                                      *)
LEMMA SubIsExact ==
    ASSUME BigInv, NEW o \in Registers \ spoiled, NEW a \in Registers \ spoiled,
           NEW b \in Registers \ spoiled, Sub(o, a, b)
    PROVE  Stepped
<1>1. PICK x, v : Given(a, x, v)
  BY GivenRule
<1>2. PICK y, z : Given(b, y, z)
  BY GivenRule
<1>3. PICK c : c = Operands("sub", o, a, b, 0)
  OBVIOUS
<1>4. /\ x \in Seq(Limb) /\ y \in Seq(Limb) /\ v = WordsValue(x) /\ z = WordsValue(y)
      /\ Len(x) = LengthOf(a) /\ Len(y) = LengthOf(b) /\ v \in Nat /\ z \in Nat
      /\ v = value[a] /\ z = value[b] /\ Sized(num[a]) /\ Sized(num[b])
      /\ Whole(num[a]) /\ Whole(num[b]) /\ v = ValueOf(num[a]) /\ z = ValueOf(num[b])
      /\ (Len(y) > 0 => y[Len(y)] # 0) /\ Len(x) <= BignumMaxLimbs
  BY <1>1, <1>2 DEF Given
<1>5. c.out = o /\ Computes(c) /\ Abstract!Exact(c) = v - z
  <2>1. Abstract!Exact(c) = value[a] - value[b]
    BY <1>3, OperandsExact
  <2> QED BY <1>3, <1>4, <2>1, OperandsShape
<1>6. Compare(num[a], num[b]) \in Int /\ (Compare(num[a], num[b]) < 0 <=> v < z)
  BY <1>4, CompareRule
<1>7. CASE Compare(num[a], num[b]) < 0
  <2>1. Failed(c)
    BY <1>3, <1>7 DEF Sub
  <2> QED BY <1>5, <2>1, FailedRule
<1>8. CASE ~(Compare(num[a], num[b]) < 0)
  <2>1. PICK n \in Nat : n = Len(x) /\ n = LengthOf(a)
    BY <1>4
  <2>2. v >= z
    BY <1>4, <1>6, <1>8
  <2>3. Len(y) <= n
    <3>1. Len(x) < Len(y) => v < z
      <4>1. Len(x) < Len(y) => y[Len(y)] # 0
        BY <1>4
      <4> QED BY <1>4, <4>1, LongerIsLarger
    <3> QED BY <1>4, <2>1, <2>2, <3>1
  <2>4. Sized(num[o])
    BY DEF BigInv
  <2>5. PICK array : Grown(o, array, n)
    BY <1>4, <2>1, <2>4, GrownRule
  <2>6. /\ array \in Seq(Limb) /\ array = Reserved(num[o], n).limbs
        /\ n <= Len(array) /\ Len(array) <= BignumMaxLimbs
        /\ \A i \in Nat : i > LengthOf(o) /\ i <= Len(array) => array[i] = 0
    BY <2>5 DEF Grown
  <2>7. Aliased(o, array, n, a, x) /\ Aliased(o, array, n, b, y)
    <3>1. PICK room : room = n
      OBVIOUS
    <3>2. Grown(o, array, room) /\ Len(x) <= n /\ Len(y) <= n
      BY <2>1, <2>3, <2>5, <3>1
    <3>3. Aliased(o, array, n, a, x)
      BY <1>1, <3>2, AliasedRule
    <3>4. Aliased(o, array, n, b, y)
      BY <1>2, <3>2, AliasedRule
    <3> QED BY <3>3, <3>4
  <2>8. PICK sign : sign = -1
    OBVIOUS
  <2>9. PICK q, r : PlaceByPlace(q, x, y, sign) /\ r = Ripple(q, n) /\ r.w = SubWords(x, y, n).w
    <3>1. PICK q : q = [i \in Nat |-> At(x, i) - At(y, i)]
      OBVIOUS
    <3>2. \A i \in Nat : At(x, i) \in Nat /\ At(y, i) \in Nat
      BY <1>4, LimbsAreIntegers
    <3>3. q \in [Nat -> Int] /\ \A i \in Nat : q[i] = At(x, i) + (-1) * At(y, i)
      BY <3>1, <3>2
    <3>4. Ripple(q, n).w = SubWords(x, y, n).w
      BY <3>1 DEF SubWords
    <3> QED BY <2>8, <3>3, <3>4 DEF PlaceByPlace
  <2>10. PICK s : s = Limbwise(o, array, a, b, n, -1) /\ LimbsDone(s, r, array, n)
    <3>1. LimbsDone(Limbwise(o, array, a, b, n, sign), Ripple(q, n), array, n)
      BY <1>4, <2>6, <2>7, <2>9, LimbwiseRule
    <3> QED BY <2>8, <2>9, <3>1
  <2>11. PICK u : u = r.w /\ u \in Seq(Limb) /\ Len(u) = n /\ WordsValue(u) = v - z
    <3>1. n >= Len(x) /\ n >= Len(y)
      BY <1>4, <2>1, <2>3
    <3>2. /\ SubWords(x, y, n).w \in Seq(Limb) /\ Len(SubWords(x, y, n).w) = n
          /\ WordsValue(x) >= WordsValue(y)
                => WordsValue(SubWords(x, y, n).w) = WordsValue(x) - WordsValue(y)
      BY <1>4, <3>1, ExactDifference
    <3> QED BY <1>4, <2>2, <2>9, <3>2
  <2>12. /\ s.w \in Seq(Limb) /\ Len(s.w) = Len(array)
         /\ \A i \in Nat : i < n => s.w[i + 1] = u[i + 1]
         /\ \A i \in Nat : i >= n /\ i < Len(array) => s.w[i + 1] = array[i + 1]
    BY <2>10, <2>11 DEF LimbsDone
  <2>13. PICK f : f = [limbs |-> s.w, length |-> n]
    OBVIOUS
  <2>14. Overlaid(f, LengthOf(o), u)
    <3>1. f.limbs = s.w /\ f.length = n /\ f = [limbs |-> f.limbs, length |-> f.length]
      BY <2>13
    <3>2. \A i \in Nat : i > 0 => i - 1 \in Nat /\ i = (i - 1) + 1
      OBVIOUS
    <3>3. \A i \in Nat : i > 0 /\ i <= n => s.w[i] = u[i]
      <4> TAKE i \in Nat
      <4> HAVE i > 0 /\ i <= n
      <4>1. PICK j \in Nat : i = j + 1 /\ j < n
        BY <3>2
      <4> QED BY <2>12, <4>1
    <3>4. \A i \in Nat : i > n /\ i > LengthOf(o) /\ i <= Len(array) => s.w[i] = 0
      <4> TAKE i \in Nat
      <4> HAVE i > n /\ i > LengthOf(o) /\ i <= Len(array)
      <4>1. PICK j \in Nat : i = j + 1 /\ j >= n /\ j < Len(array)
        <5>1. Len(array) \in Nat
          BY <2>6
        <5>2. i - 1 \in Nat /\ i = (i - 1) + 1 /\ i - 1 >= n /\ i - 1 < Len(array)
          BY <2>1, <5>1
        <5> QED BY <5>2
      <4>2. array[i] = 0
        BY <2>6
      <4> QED BY <2>12, <4>1, <4>2
    <3> QED BY <2>6, <2>11, <2>12, <3>1, <3>3, <3>4 DEF Overlaid
  <2>15. Holds(Cleared(Normalized(f), LengthOf(o)), v - z)
    <3>1. LengthOf(o) \in Nat
      BY <2>4 DEF Sized, LengthOf
    <3> QED BY <2>11, <2>14, <3>1, OverlaidHolds
  <2>16. Done(c, Cleared(Normalized(f), LengthOf(o))) \/ Grows(c, n)
    BY <1>3, <1>8, <2>1, <2>6, <2>10, <2>13 DEF Sub
  <2>17. CASE Done(c, Cleared(Normalized(f), LengthOf(o)))
    <3>1. PICK d : d = v - z
      OBVIOUS
    <3> QED BY <1>5, <2>15, <2>17, <3>1, DoneRule
  <2>18. CASE Grows(c, n)
    BY <1>5, <2>18, FailuresRule
  <2> QED BY <2>16, <2>17, <2>18
<1> QED BY <1>7, <1>8

(* crypto_bignum_sub_u32.                                                  *)
LEMMA SubWordIsExact ==
    ASSUME BigInv, NEW o \in Registers \ spoiled, NEW a \in Registers \ spoiled,
           NEW d \in Limb, SubU32(o, a, d)
    PROVE  Stepped
<1>1. PICK x, v : Given(a, x, v)
  BY GivenRule
<1>2. PICK c : c = Operands("subu32", o, a, a, d)
  OBVIOUS
<1>3. /\ x \in Seq(Limb) /\ v = WordsValue(x) /\ x = Digits(a)
      /\ Len(x) = LengthOf(a) /\ v \in Nat /\ v = value[a] /\ Len(x) <= BignumMaxLimbs
  BY <1>1 DEF Given
<1>4. c.out = o /\ Computes(c) /\ Abstract!Exact(c) = v - d
  <2>1. Abstract!Exact(c) = value[a] - d
    BY <1>2, OperandsExact
  <2> QED BY <1>2, <1>3, <2>1, OperandsShape
<1>5. d \in Nat /\ d < Base
  BY BaseRule DEF Limb
<1>6. CASE v < d
  <2>1. Failed(c)
    BY <1>2, <1>3, <1>6 DEF SubU32
  <2> QED BY <1>4, <2>1, FailedRule
<1>7. CASE ~(v < d)
  <2>1. PICK n \in Nat : n = Len(x) /\ n = LengthOf(a)
    BY <1>3
  <2>2. PICK e \in Seq(Limb) : e = WordsOf(d, 1) /\ Len(e) = 1 /\ WordsValue(e) = d
    <3>1. PICK k \in Nat : k = 1
      OBVIOUS
    <3>2. d < Weight(k)
      BY <1>5, <3>1, WeightRule
    <3>3. WordsOf(d, k) \in Seq(Limb) /\ Len(WordsOf(d, k)) = k /\ WordsValue(WordsOf(d, k)) = d
      BY <1>5, <3>2, WordsOfRule
    <3> QED BY <3>1, <3>3
  <2>3. PICK w : w = SubWords(x, e, n).w /\ w \in Seq(Limb) /\ Len(w) = n /\ WordsValue(w) = v - d
    <3>1. CASE n >= 1
      <4>1. n >= Len(x) /\ n >= Len(e)
        BY <1>3, <2>1, <2>2, <3>1
      <4>2. /\ SubWords(x, e, n).w \in Seq(Limb) /\ Len(SubWords(x, e, n).w) = n
            /\ WordsValue(x) >= WordsValue(e)
                 => WordsValue(SubWords(x, e, n).w) = WordsValue(x) - WordsValue(e)
        BY <1>3, <2>2, <4>1, ExactDifference
      <4> QED BY <1>3, <1>5, <1>7, <2>2, <4>2
    <3>2. CASE n = 0
      <4>1. x = <<>>
        BY <1>3, <2>1, <3>2
      <4>2. v = 0 /\ d = 0
        BY <1>3, <1>5, <1>7, <4>1, OneLimb
      <4>3. SubWords(x, e, n).w = <<>>
        <5>1. \A i \in Int : i \notin 1 .. n
          BY <3>2
        <5>2. PICK q : q = [i \in Nat |-> At(x, i) - At(e, i)]
          OBVIOUS
        <5>3. q \in [Nat -> Int]
          <6>1. \A i \in Nat : At(x, i) \in Nat /\ At(e, i) \in Nat
            BY <1>3, <2>2, LimbsAreIntegers
          <6> QED BY <5>2, <6>1
        <5>4. PICK t : Ripple(q, n) = [w |-> [i \in 1 .. n |-> Low(q[i - 1] + t[i - 1])], carry |-> t[n]]
          BY <5>3, RippleRule
        <5>5. Ripple(q, n).w = <<>>
          BY <3>2, <5>4
        <5> QED BY <5>2, <5>5 DEF SubWords
      <4>4. <<>> \in Seq(Limb) /\ Len(<<>>) = 0 /\ WordsValue(<<>>) = 0
        BY OneLimb
      <4>5. PICK w : w = <<>> /\ w = SubWords(x, e, n).w
        BY <4>3
      <4>6. w \in Seq(Limb) /\ Len(w) = 0 /\ WordsValue(w) = 0
        BY <4>4, <4>5
      <4>7. v - d = 0
        BY <4>2
      <4> QED BY <3>2, <4>5, <4>6, <4>7
    <3> QED BY <2>1, <3>1, <3>2
  <2>4. PICK y : y = Cleared(Normalized(Stored(Reserved(num[o], Len(w)), w)), num[o].length) /\ Holds(y, v - d)
    <3>1. Sized(num[o])
      BY DEF BigInv
    <3>2. Len(w) <= BignumMaxLimbs
      BY <1>3, <2>1, <2>3
    <3>3. Holds(Cleared(Normalized(Stored(Reserved(num[o], Len(w)), w)), num[o].length), WordsValue(w))
      BY <2>3, <3>1, <3>2, StoredHolds
    <3> QED BY <2>3, <3>3
  <2>5. Done(c, y) \/ Grows(c, n) \/ AllocationFails(c, 1)
    BY <1>2, <1>3, <1>7, <2>1, <2>2, <2>3, <2>4 DEF SubU32, LengthOf
  <2>6. CASE Done(c, y)
    <3>1. PICK u : u = v - d
      OBVIOUS
    <3> QED BY <1>4, <2>4, <2>6, <3>1, DoneRule
  <2>7. CASE Grows(c, n) \/ AllocationFails(c, 1)
    <3>1. Failed(c)
      BY <2>7 DEF Grows, AllocationFails
    <3> QED BY <1>4, <3>1, FailedRule
  <2> QED BY <2>5, <2>6, <2>7
<1> QED BY <1>6, <1>7

-----------------------------------------------------------------------------
(* Products, differences and quotients with a word; fixed lengths.           *)

(* crypto_bignum_mul_u32.                                                  *)
LEMMA MulWordIsExact ==
    ASSUME BigInv, NEW o \in Registers \ spoiled, NEW a \in Registers \ spoiled,
           NEW d \in Limb, MulU32(o, a, d)
    PROVE  Stepped
<1>1. PICK x, v : Given(a, x, v)
  BY GivenRule
<1>2. PICK c : c = Operands("mulu32", o, a, a, d)
  OBVIOUS
<1>3. /\ x \in Seq(Limb) /\ v = WordsValue(x) /\ x = Digits(a)
      /\ Len(x) = LengthOf(a) /\ v \in Nat /\ v = value[a] /\ Len(x) <= BignumMaxLimbs
  BY <1>1 DEF Given
<1>4. d \in Nat
  BY BaseRule DEF Limb
<1>5. PICK t \in Nat : t = v * d
  BY <1>3, <1>4
<1>6. c.out = o /\ Computes(c) /\ Abstract!Exact(c) = t
  <2>1. Abstract!Exact(c) = value[a] * d
    BY <1>2, OperandsExact
  <2> QED BY <1>2, <1>3, <1>5, <2>1, OperandsShape
<1>7. PICK n \in Nat : n = Len(x) /\ n = LengthOf(a) /\ n + 1 <= BignumMaxLimbs
  <2>1. LengthOf(a) + 1 <= BignumMaxLimbs
    BY DEF MulU32
  <2> QED BY <1>3, <2>1
<1>8. CASE d = 0 \/ n = 0
  <2>1. t = 0
    <3>1. n = 0 => v = 0
      <4>1. n = 0 => x = <<>>
        BY <1>3, <1>7
      <4> QED BY <1>3, <4>1, OneLimb
    <3> QED BY <1>3, <1>4, <1>5, <1>8, <3>1
  <2>2. Done(c, Empty)
    BY <1>2, <1>7, <1>8 DEF MulU32
  <2>3. PICK y : y = Empty /\ Holds(y, t)
    BY <2>1, EmptyHolds
  <2> QED BY <1>6, <2>2, <2>3, DoneRule
<1>9. CASE ~(d = 0 \/ n = 0)
  <2>1. PICK m \in Nat, i \in Nat : m = n + 1 /\ i = 0
    OBVIOUS
  <2>2. PICK e \in Seq(Limb) : e = Zeros(m) /\ Len(e) = m /\ WordsValue(e) = 0 /\ e[m] = 0
    <3>1. m \in 1 .. m
      BY <2>1
    <3>2. /\ Zeros(m) \in Seq(Limb) /\ Len(Zeros(m)) = m
          /\ \A j \in 1 .. m : Zeros(m)[j] = 0
          /\ WordsValue(Zeros(m)) = 0
      BY ZerosRule
    <3> QED BY <3>1, <3>2
  <2>3. PICK w : w = ProductRow(e, x, d, i) /\ RowAdded(w, e, x, d, i)
    BY <1>3, RowOfProduct
  <2>4. w \in Seq(Limb) /\ Len(w) = n + 1 /\ WordsValue(w) = t
    <3>1. /\ w \in Seq(Limb) /\ Len(w) = Len(e)
          /\ i + Len(x) < Len(e) /\ e[i + Len(x) + 1] = 0
               => WordsValue(w) = WordsValue(e) + Weight(i) * (d * WordsValue(x))
      BY <2>3 DEF RowAdded
    <3>2. i + Len(x) < Len(e) /\ i + Len(x) + 1 = m
      BY <1>7, <2>1, <2>2
    <3>3. WordsValue(w) = 0 + 1 * (d * v)
      <4>1. Weight(i) = 1
        BY <2>1, WeightRule
      <4> QED BY <1>3, <2>2, <3>1, <3>2, <4>1
    <3>4. d * v = v * d
      BY <1>3, <1>4
    <3> QED BY <1>5, <2>1, <2>2, <3>1, <3>3, <3>4
  <2>5. Done(c, Fresh(w)) \/ AllocationFails(c, Len(w))
    BY <1>2, <1>3, <1>7, <1>9, <2>1, <2>2, <2>3 DEF MulU32
  <2>6. CASE Done(c, Fresh(w))
    <3>1. Holds(Fresh(w), t)
      BY <1>7, <2>4, FreshHolds
    <3> QED BY <1>6, <2>6, <3>1, DoneRule
  <2>7. CASE AllocationFails(c, Len(w))
    BY <1>6, <2>7, FailuresRule
  <2> QED BY <2>5, <2>6, <2>7
<1> QED BY <1>8, <1>9

(* crypto_bignum_div_u32.                                                  *)
LEMMA DivWordIsExact ==
    ASSUME BigInv, NEW o \in Registers \ spoiled, NEW a \in Registers \ spoiled,
           NEW d \in Limb, DivU32(o, a, d)
    PROVE  Stepped
<1>1. PICK x, v : Given(a, x, v)
  BY GivenRule
<1>2. PICK c : c = Operands("divu32", o, a, a, d)
  OBVIOUS
<1>3. /\ x \in Seq(Limb) /\ v = WordsValue(x) /\ x = Digits(a)
      /\ Len(x) = LengthOf(a) /\ v \in Nat /\ v = value[a] /\ Len(x) <= BignumMaxLimbs
  BY <1>1 DEF Given
<1>4. PICK t : t = v \div d
  OBVIOUS
<1>5. c.out = o /\ Computes(c) /\ Abstract!Exact(c) = t
  <2>1. Abstract!Exact(c) = value[a] \div d
    BY <1>2, OperandsExact
  <2> QED BY <1>2, <1>3, <1>4, <2>1, OperandsShape
<1>6. CASE d = 0
  <2>1. Failed(c)
    BY <1>2, <1>6 DEF DivU32
  <2> QED BY <1>5, <2>1, FailedRule
<1>7. CASE d # 0
  <2>1. PICK n \in Nat : n = Len(x) /\ n = LengthOf(a)
    BY <1>3
  <2> DEFINE f == CHOOSE h : h = [k \in Nat |-> IF k = 0 THEN 0
                                     ELSE (h[k - 1] * Base + At(Reverse(Digits(a)), k - 1)) % d]
             w == [i \in 1 .. LengthOf(a) |-> (f[LengthOf(a) - i] * Base + Digits(a)[i]) \div d]
  <2>4. Done(c, Fresh(w)) \/ AllocationFails(c, LengthOf(a))
    BY <1>2, <1>7 DEF DivU32
  <2>9. /\ f = CHOOSE h : h = [k \in Nat |-> IF k = 0 THEN 0
                                   ELSE (h[k - 1] * Base + At(Reverse(x), k - 1)) % d]
        /\ w = [i \in 1 .. n |-> (f[n - i] * Base + x[i]) \div d]
    BY <1>3, <2>1
  <2> HIDE DEF f, w
  <2>5. Divided(w, f, x, d, n)
    <3>1. d \in Nat \ {0}
      BY <1>7, BaseRule DEF Limb
    <3>2. Rests(f, x, d)
      BY <1>3, <2>9, <3>1, RestsRule
    <3> QED BY <1>3, <1>7, <2>1, <2>9, <3>2 DEF Divided
  <2>6. w \in Seq(Limb) /\ Len(w) = n /\ WordsValue(w) = t
    BY <1>3, <1>4, <2>5, DividedRule
  <2>7. CASE Done(c, Fresh(w))
    <3>1. Holds(Fresh(w), t)
      BY <1>3, <2>1, <2>6, FreshHolds
    <3> QED BY <1>5, <2>7, <3>1, DoneRule
  <2>8. CASE AllocationFails(c, LengthOf(a))
    BY <1>5, <2>8, FailuresRule
  <2> QED BY <2>4, <2>7, <2>8
<1> QED BY <1>6, <1>7

(* Limbs of a fixed width, whose length is that of the number in them.     *)
LEMMA FixedHolds ==
    ASSUME NEW w \in Seq(Limb), Len(w) <= BignumMaxLimbs
    PROVE  Holds(Fixed(w), WordsValue(w))
<1>1. SubSeq(w, 1, Len(w)) = w
  OBVIOUS
<1>2. PICK x : x = [limbs |-> w, length |-> Len(w)]
  OBVIOUS
<1>3. x.limbs = w /\ x.length = Len(w)
  BY <1>2
<1>4. Normalized(x) = [x EXCEPT !.length = Significant(SubSeq(w, 1, Len(w)))]
  BY <1>3 DEF Normalized
<1>5. Fresh(w) = Fixed(w)
  BY <1>1, <1>2, <1>4 DEF Fresh, Fixed
<1> QED BY <1>5, FreshHolds

\* The lowest n limbs of a register, those above its length included.
LEMMA LowestRule ==
    ASSUME BigInv, NEW a \in Registers \ spoiled, NEW n \in Nat, Capacity(a) >= n
    PROVE  \E w, v : LowOf(a, w, v, n)
<1>1. Sized(num[a])
  BY DEF BigInv
<1>2. PICK l \in Seq(Limb) : l = num[a].limbs /\ n \in 0 .. Len(l)
  <2>1. num[a].limbs \in Seq(Limb)
    BY <1>1 DEF Sized
  <2>2. Len(num[a].limbs) \in Nat
    BY <2>1
  <2> QED BY <2>1, <2>2 DEF Capacity
<1>3. value[a] = WordsValue(l)
  <2>1. ValueOf(num[a]) = WordsValue(num[a].limbs)
    BY <1>1, NumberRule
  <2>2. value[a] = ValueOf(num[a])
    BY DEF value
  <2> QED BY <1>2, <2>1, <2>2
<1>4. PICK w, u : w = SubSeq(l, 1, n) /\ u = SubSeq(l, n + 1, Len(l)) /\ w \in Seq(Limb) /\ Len(w) = n
                  /\ u \in Seq(Limb) /\ WordsValue(l) = WordsValue(w) + Weight(n) * WordsValue(u)
  <2>1. /\ SubSeq(l, 1, n) \in Seq(Limb) /\ Len(SubSeq(l, 1, n)) = n
        /\ SubSeq(l, n + 1, Len(l)) \in Seq(Limb)
        /\ WordsValue(l) = WordsValue(SubSeq(l, 1, n)) + Weight(n) * WordsValue(SubSeq(l, n + 1, Len(l)))
    BY <1>2, CutWords
  <2>2. PICK w, u : w = SubSeq(l, 1, n) /\ u = SubSeq(l, n + 1, Len(l))
    OBVIOUS
  <2> QED BY <2>1, <2>2
<1>5. PICK v \in Nat : v = WordsValue(w) /\ v < Weight(n)
  BY <1>4, WordsBound
<1>6. PICK h \in Nat : h = WordsValue(u)
  BY <1>4, WordsBound
<1>7. PICK W \in Nat \ {0} : W = Weight(n)
  BY WeightRule
<1>8. PICK m \in Nat : m = W * h + v
  OBVIOUS
<1>9. WordsValue(l) = m
  BY <1>4, <1>5, <1>6, <1>7, <1>8
<1>10. m % W = v
  <2>1. v < W
    BY <1>5, <1>7
  <2> QED BY <1>8, <2>1, DivisionUnique
<1>11. value[a] % PowerOf(Base, n) = v
  BY <1>3, <1>7, <1>9, <1>10 DEF Weight
<1>12. w = Lowest(a, n)
  BY <1>2, <1>4 DEF Lowest
<1>13. LowOf(a, w, v, n)
  BY <1>4, <1>5, <1>11, <1>12 DEF LowOf
<1> QED BY <1>13

(* crypto_bignum_copy_secret_fixed_ct.                                     *)
LEMMA FixedCopyCtIsExact ==
    ASSUME BigInv, NEW o \in Registers \ spoiled, NEW a \in Registers \ spoiled,
           NEW n \in Nat, n <= BignumMaxLimbs, CopySecretFixedCt(o, a, n)
    PROVE  Stepped
<1>1. PICK c : c = Operands("fixedcopy", o, a, a, PowerOf(Base, n))
  OBVIOUS
<1>2. PICK t : t = value[a] % PowerOf(Base, n)
  OBVIOUS
<1>3. c.out = o /\ Computes(c) /\ Abstract!Exact(c) = t
  BY <1>1, <1>2, OperandsExact, OperandsShape
<1>4. CASE Capacity(a) < n
  <2>1. Failed(c)
    BY <1>1, <1>4 DEF CopySecretFixedCt
  <2> QED BY <1>3, <2>1, FailedRule
<1>5. CASE ~(Capacity(a) < n)
  <2>1. Sized(num[a])
    BY DEF BigInv
  <2>2. Capacity(a) >= n
    <3>1. Len(num[a].limbs) \in Nat
      BY <2>1 DEF Sized
    <3> QED BY <1>5, <3>1 DEF Capacity
  <2>3. PICK w, v : LowOf(a, w, v, n)
    BY <2>2, LowestRule
  <2>4. w = Lowest(a, n) /\ w \in Seq(Limb) /\ Len(w) = n /\ v = WordsValue(w) /\ v = t
    BY <1>2, <2>3 DEF LowOf
  <2>5. Done(c, Fixed(w)) \/ AllocationFails(c, n)
    BY <1>1, <1>5, <2>4 DEF CopySecretFixedCt
  <2>6. CASE Done(c, Fixed(w))
    <3>1. Holds(Fixed(w), t)
      BY <2>4, FixedHolds
    <3> QED BY <1>3, <2>6, <3>1, DoneRule
  <2>7. CASE AllocationFails(c, n)
    BY <1>3, <2>7, FailuresRule
  <2> QED BY <2>5, <2>6, <2>7
<1> QED BY <1>4, <1>5

(* crypto_bignum_copy_secret_fixed.                                        *)
LEMMA FixedCopyIsExact ==
    ASSUME BigInv, NEW o \in Registers \ spoiled, NEW a \in Registers \ spoiled,
           NEW n \in Nat, n <= BignumMaxLimbs, CopySecretFixed(o, a, n)
    PROVE  Stepped
<1>1. PICK c : c = Operands("fixedcopy", o, a, a, PowerOf(Base, n))
  OBVIOUS
<1>2. PICK t : t = value[a] % PowerOf(Base, n)
  OBVIOUS
<1>3. c.out = o /\ Computes(c) /\ Abstract!Exact(c) = t
  BY <1>1, <1>2, OperandsExact, OperandsShape
<1>4. PICK x, v : Given(a, x, v)
  BY GivenRule
<1>5. /\ x = Digits(a) /\ x \in Seq(Limb) /\ Len(x) = LengthOf(a)
      /\ v = value[a] /\ v \in Nat /\ v = WordsValue(x) /\ (Len(x) > 0 => x[Len(x)] # 0)
  BY <1>4 DEF Given
<1>6. PICK m \in Nat : m = Len(x) /\ m = LengthOf(a)
  BY <1>5
<1>7. CASE m > n
  <2>1. Failed(c)
    BY <1>1, <1>6, <1>7 DEF CopySecretFixed
  <2> QED BY <1>3, <2>1, FailedRule
<1>8. CASE ~(m > n)
  <2>1. PICK k \in Nat : k = n - m
    <3>1. n - m \in Nat
      BY <1>8
    <3> QED BY <3>1
  <2>2. PICK z \in Seq(Limb) : z = Zeros(k) /\ Len(z) = k /\ \A i \in 1 .. k : z[i] = 0
    BY ZerosRule
  <2>3. PICK l \in Seq(Limb) : l = x \o z /\ Len(l) = n
    <3>1. x \o z \in Seq(Limb) /\ Len(x \o z) = Len(x) + Len(z)
      BY <1>5, <2>2, JoinedWords
    <3>2. m + k = n
      BY <2>1
    <3>3. PICK l : l = x \o z /\ l \in Seq(Limb) /\ Len(l) = n
      BY <1>6, <2>2, <3>1, <3>2
    <3> QED BY <3>3
  <2>4. PICK y : y = [limbs |-> l, length |-> m]
    OBVIOUS
  <2>5. y.limbs = l /\ y.length = m /\ y = [limbs |-> y.limbs, length |-> y.length]
    BY <2>4
  <2>6. /\ \A i \in Nat : i > m /\ i <= n => l[i] = 0
        /\ \A i \in Nat : i > 0 /\ i <= m => l[i] = x[i]
    <3>1. \A i \in 1 .. n : l[i] = IF i <= m THEN x[i] ELSE z[i - m]
      <4>1. \A i \in 1 .. Len(x) + Len(z) : (x \o z)[i] = IF i <= Len(x) THEN x[i] ELSE z[i - Len(x)]
        BY <1>5, <2>2, ConcatProperties
      <4>2. Len(x) + Len(z) = n
        BY <1>6, <2>1, <2>2
      <4> QED BY <1>6, <2>3, <4>1, <4>2
    <3>2. \A i \in Nat : i > m /\ i <= n => i \in 1 .. n /\ ~(i <= m) /\ i - m \in 1 .. k
      BY <2>1
    <3>3. \A i \in Nat : i > 0 /\ i <= m => i \in 1 .. n
      BY <1>8
    <3> QED BY <2>2, <3>1, <3>2, <3>3
  <2>7. Sized(y)
    BY <1>8, <2>3, <2>5, <2>6 DEF Sized
  <2>8. Whole(y)
    <3>1. m > 0 => l[m] # 0
      BY <1>5, <1>6, <2>6
    <3> QED BY <2>5, <2>7, <3>1 DEF Whole
  <2>9. SubSeq(l, 1, m) = x
    <3>1. m \in 0 .. Len(l)
      BY <1>8, <2>3
    <3>2. SubSeq(l, 1, m) \in Seq(Limb) /\ Len(SubSeq(l, 1, m)) = m
      BY <3>1, CutWords
    <3>3. \A i \in 1 .. m : SubSeq(l, 1, m)[i] = x[i]
      BY <2>6, <3>1
    <3>4. PICK s \in Seq(Limb) : s = SubSeq(l, 1, m) /\ Len(s) = m
      BY <3>2
    <3>5. \A i \in 1 .. m : s[i] = x[i]
      BY <3>3, <3>4
    <3>6. s = x
      <4>1. DOMAIN s = 1 .. m /\ DOMAIN x = 1 .. m
        BY <1>5, <1>6, <3>4
      <4>2. s = [i \in 1 .. m |-> s[i]] /\ x = [i \in 1 .. m |-> x[i]]
        BY <1>5, <3>4, <4>1
      <4> QED BY <3>5, <4>2
    <3> QED BY <3>4, <3>6
  <2>10. ValueOf(y) = v
    BY <1>5, <2>5, <2>9 DEF ValueOf
  <2>11. v = t
    <3>1. v < Weight(m) /\ Weight(m) <= Weight(n) /\ Weight(m) \in Nat /\ Weight(n) \in Nat \ {0}
      BY <1>5, <1>6, <1>8, WordsBound, WeightGrows, WeightRule
    <3>2. PICK W \in Nat \ {0} : W = PowerOf(Base, n) /\ v < W
      BY <1>5, <3>1 DEF Weight
    <3>3. \A W1 \in Nat \ {0} : \A u \in Nat : u < W1 => u % W1 = u
      OBVIOUS
    <3>4. v % W = v
      BY <1>5, <3>2, <3>3
    <3> QED BY <1>2, <1>5, <3>2, <3>4
  <2>12. Done(c, y) \/ AllocationFails(c, n)
    BY <1>1, <1>5, <1>6, <1>8, <2>1, <2>2, <2>3, <2>4 DEF CopySecretFixed
  <2>13. CASE Done(c, y)
    <3>1. Holds(y, t)
      BY <2>8, <2>10, <2>11 DEF Holds
    <3> QED BY <1>3, <2>13, <3>1, DoneRule
  <2>14. CASE AllocationFails(c, n)
    BY <1>3, <2>14, FailuresRule
  <2> QED BY <2>12, <2>13, <2>14
<1> QED BY <1>7, <1>8

(* crypto_bignum_sub_secret_fixed.                                         *)
LEMMA FixedSubIsExact ==
    ASSUME BigInv, NEW o \in Registers \ spoiled, NEW a \in Registers \ spoiled,
           NEW b \in Registers \ spoiled, NEW n \in Nat, n <= BignumMaxLimbs,
           SubSecretFixed(o, a, b, n)
    PROVE  Stepped
<1>1. PICK c : c = Operands("fixedsub", o, a, b, PowerOf(Base, n))
  OBVIOUS
<1>2. PICK t : t = (value[a] % PowerOf(Base, n)) - (value[b] % PowerOf(Base, n))
  OBVIOUS
<1>3. c.out = o /\ Computes(c) /\ Abstract!Exact(c) = t
  BY <1>1, <1>2, OperandsExact, OperandsShape
<1>4. CASE Failed(c)
  BY <1>3, <1>4, FailedRule
<1>5. CASE AllocationFails(c, n)
  BY <1>3, <1>5, FailuresRule
<1>6. CASE /\ ~(Capacity(a) < n) /\ ~(Capacity(b) < n)
           /\ SubWords(Lowest(a, n), Lowest(b, n), n).borrow # 1
           /\ Done(c, Fixed(SubWords(Lowest(a, n), Lowest(b, n), n).w))
  <2>1. Capacity(a) >= n /\ Capacity(b) >= n
    <3>1. num[a].limbs \in Seq(Limb) /\ num[b].limbs \in Seq(Limb)
      BY DEF BigInv, Sized
    <3>2. Len(num[a].limbs) \in Nat /\ Len(num[b].limbs) \in Nat
      BY <3>1
    <3> QED BY <1>6, <3>2 DEF Capacity
  <2>2. PICK x, v : LowOf(a, x, v, n)
    BY <2>1, LowestRule
  <2>3. PICK y, z : LowOf(b, y, z, n)
    BY <2>1, LowestRule
  <2>4. /\ x = Lowest(a, n) /\ x \in Seq(Limb) /\ Len(x) = n /\ v \in Nat /\ v = WordsValue(x)
        /\ y = Lowest(b, n) /\ y \in Seq(Limb) /\ Len(y) = n /\ z \in Nat /\ z = WordsValue(y)
        /\ t = v - z
    BY <1>2, <2>2, <2>3 DEF LowOf
  <2>5. /\ SubWords(x, y, n).w \in Seq(Limb) /\ Len(SubWords(x, y, n).w) = n
        /\ SubWords(x, y, n).borrow = (IF WordsValue(x) < WordsValue(y) THEN 1 ELSE 0)
        /\ WordsValue(x) >= WordsValue(y)
             => WordsValue(SubWords(x, y, n).w) = WordsValue(x) - WordsValue(y)
    <3>1. n >= Len(x) /\ n >= Len(y)
      BY <2>4
    <3> QED BY <2>4, <3>1, ExactDifference
  <2>6. PICK w : w = SubWords(x, y, n).w /\ w \in Seq(Limb) /\ Len(w) = n /\ WordsValue(w) = t
    BY <1>6, <2>4, <2>5
  <2>7. Done(c, Fixed(w))
    BY <1>6, <2>4, <2>6
  <2>8. Holds(Fixed(w), t)
    BY <2>6, FixedHolds
  <2> QED BY <1>3, <2>7, <2>8, DoneRule
<1> QED BY <1>1, <1>4, <1>5, <1>6 DEF SubSecretFixed

-----------------------------------------------------------------------------
(* Bytes in and out.                                                         *)

(* The number that bytes spell, in the array of a register or in a larger  *)
(* one.                                                                    *)
LEMMA BytesStored ==
    ASSUME BigInv, NEW o \in Registers, NEW y \in Seq(Byte), NEW n \in Nat,
           n = LimbsFor(Len(y)), n <= 2
    PROVE  Holds(Normalized([limbs |-> WordsOfBytes(y, Max({n, Capacity(o)})), length |-> n]),
                 Positional(y, ByteRadix))
<1>3. PICK t : t = Positional(y, ByteRadix)
  OBVIOUS
<1>6. Len(y) <= n * BytesPerLimb /\ Len(y) \in Nat
  BY LimbsForRule
<1>7. Sized(num[o])
  BY DEF BigInv
<1>8. PICK k \in Nat : k = Capacity(o) /\ k <= BignumMaxLimbs
  <2>1. num[o].limbs \in Seq(Limb) /\ Len(num[o].limbs) <= BignumMaxLimbs
    BY <1>7 DEF Sized
  <2>2. Len(num[o].limbs) \in Nat
    BY <2>1
  <2> QED BY <2>1, <2>2 DEF Capacity
<1>9. PICK room \in Nat : room = Max({n, Capacity(o)}) /\ n <= room /\ room <= BignumMaxLimbs
  <2>1. Max({n, k}) = IF n <= k THEN k ELSE n
    BY LargerOf
  <2>2. 2 <= BignumMaxLimbs /\ BignumMaxLimbs \in Nat
    BY BignumAssumption
  <2> QED BY <1>6, <1>8, <2>1, <2>2
<1>10. PICK B \in Nat \ {0} : B = BytesPerLimb
  BY LimbBitsAssumption
<1>11. \A x, z \in Nat : x >= z => x * B >= z * B
  <2> TAKE x, z \in Nat
  <2> HAVE x >= z
  <2>1. PICK d \in Nat : x = z + d
    <3>1. x - z \in Nat /\ x = z + (x - z)
      OBVIOUS
    <3> QED BY <3>1
  <2>2. x * B = z * B + d * B
    BY <2>1
  <2>3. PICK u \in Nat, v \in Nat : u = d * B /\ v = z * B
    OBVIOUS
  <2> QED BY <2>2, <2>3
<1>12. Len(y) <= room * BytesPerLimb
  <2>1. room * B >= n * B
    BY <1>9, <1>11
  <2>2. PICK u \in Nat, v \in Nat : u = room * B /\ v = n * B
    BY SMTT(20)
  <2> QED BY <1>6, <1>10, <2>1, <2>2
<1>13. PICK w : /\ w = WordsOfBytes(y, room) /\ w \in Seq(Limb) /\ Len(w) = room /\ WordsValue(w) = t
                /\ \A i \in Nat : i > 0 /\ i <= room /\ (i - 1) * BytesPerLimb >= Len(y) => w[i] = 0
  BY <1>3, <1>12, BytesRule
<1>14. \A i \in Nat : i > n /\ i <= room => w[i] = 0
  <2> TAKE i \in Nat
  <2> HAVE i > n /\ i <= room
  <2>1. PICK j \in Nat : j = i - 1 /\ j >= n
    OBVIOUS
  <2>2. j * B >= n * B
    BY <1>11, <2>1
  <2>3. PICK u \in Nat, v \in Nat : u = j * B /\ v = n * B
    <3>1. \A x, z \in Nat : x * z \in Nat
      OBVIOUS
    <3> QED BY <3>1, Zenon
  <2>4. (i - 1) * BytesPerLimb >= Len(y)
    BY <1>6, <1>10, <2>1, <2>2, <2>3
  <2>5. i > 0
    OBVIOUS
  <2> QED BY <1>13, <2>4, <2>5
<1>15. PICK x : x = [limbs |-> w, length |-> n]
  OBVIOUS
<1>16. x.limbs = w /\ x.length = n /\ x = [limbs |-> x.limbs, length |-> x.length]
  BY <1>15
<1>17. Sized(x)
  BY <1>9, <1>13, <1>14, <1>16 DEF Sized
<1>18. Holds(Normalized(x), t)
  BY <1>13, <1>16, <1>17, NormalizedHolds, NumberRule
<1> QED BY <1>3, <1>9, <1>13, <1>15, <1>18

(* crypto_bignum_from_bytes_be and crypto_bignum_from_bytes_le.            *)
LEMMA FromBytesIsExact ==
    ASSUME BigInv, NEW o \in Registers \ spoiled, NEW bytes \in ByteStrings, NEW big,
           FromBytes(o, bytes, big)
    PROVE  Stepped
<1>1. PICK y : y = Ordered(bytes, big)
  OBVIOUS
<1>2. y \in Seq(Byte) /\ Len(y) = Len(bytes) /\ Len(y) <= 2 * BytesPerLimb - 1 /\ Len(y) \in Nat
  BY <1>1, ByteStringRule, OrderedBytes
<1>3. PICK t : t = Positional(y, ByteRadix)
  OBVIOUS
<1>4. PICK c : c = Operands("set", o, o, o, t)
  OBVIOUS
<1>5. c.out = o /\ Computes(c) /\ Abstract!Exact(c) = t
  BY <1>4, OperandsExact, OperandsShape
<1>6. PICK n \in Nat : n = LimbsFor(Len(bytes)) /\ n = LimbsFor(Len(y)) /\ n <= 2
  BY <1>2, LimbsForRule
<1>7. PICK x : x = Normalized([limbs |-> WordsOfBytes(y, Max({n, Capacity(o)})), length |-> n])
  OBVIOUS
<1>8. Holds(x, t)
  BY <1>2, <1>3, <1>6, <1>7, BytesStored
<1>9. Done(c, x) \/ Grows(c, n)
  BY <1>1, <1>3, <1>4, <1>6, <1>7 DEF FromBytes
<1>10. CASE Done(c, x)
  BY <1>5, <1>8, <1>10, DoneRule
<1>11. CASE Grows(c, n)
  BY <1>5, <1>11, FailuresRule
<1> QED BY <1>9, <1>10, <1>11

(* crypto_bignum_from_bytes_be_secret_fixed.                               *)
LEMMA FixedFromBytesIsExact ==
    ASSUME BigInv, NEW o \in Registers \ spoiled, NEW bytes \in ByteStrings, NEW big,
           NEW n \in Nat, n <= BignumMaxLimbs, FromBytesSecretFixed(o, bytes, big, n)
    PROVE  Stepped
<1>1. PICK y : y = Ordered(bytes, big)
  OBVIOUS
<1>2. y \in Seq(Byte) /\ Len(y) = Len(bytes) /\ Len(y) \in Nat
  BY <1>1, ByteStringRule, OrderedBytes
<1>3. PICK t : t = Positional(y, ByteRadix)
  OBVIOUS
<1>4. PICK c : c = Operands("set", o, o, o, t)
  OBVIOUS
<1>5. c.out = o /\ Computes(c) /\ Abstract!Exact(c) = t
  BY <1>4, OperandsExact, OperandsShape
<1>6. CASE Len(bytes) > n * BytesPerLimb
  <2>1. Failed(c)
    BY <1>1, <1>3, <1>4, <1>6 DEF FromBytesSecretFixed
  <2> QED BY <1>5, <2>1, FailedRule
<1>7. CASE ~(Len(bytes) > n * BytesPerLimb)
  <2>1. Len(y) <= n * BytesPerLimb
    <3>1. PICK u \in Nat : u = n * BytesPerLimb
      BY LimbBitsAssumption
    <3> QED BY <1>2, <1>7, <3>1
  <2>2. PICK w : w = WordsOfBytes(y, n) /\ w \in Seq(Limb) /\ Len(w) = n /\ WordsValue(w) = t
    BY <1>2, <1>3, <2>1, BytesRule
  <2>3. Done(c, Fixed(w)) \/ AllocationFails(c, n)
    BY <1>1, <1>3, <1>4, <1>7, <2>2 DEF FromBytesSecretFixed
  <2>4. CASE Done(c, Fixed(w))
    <3>1. Holds(Fixed(w), t)
      BY <2>2, FixedHolds
    <3> QED BY <1>5, <2>4, <3>1, DoneRule
  <2>5. CASE AllocationFails(c, n)
    BY <1>5, <2>5, FailuresRule
  <2> QED BY <2>3, <2>4, <2>5
<1> QED BY <1>6, <1>7

(* An export changes no number and hands out the one it read.              *)
LEMMA ExportRule ==
    ASSUME BigInv, NEW a, NEW bytes, NEW big, NEW ok, UNCHANGED <<num, spoiled>>,
           call' = Exported(a, bytes, big, ok),
           ok => Positional(Ordered(bytes, big), ByteRadix) = value[a]
    PROVE  Stepped
<1>1. BigInv'
  BY DEF BigInv
<1>2. value' = value
  BY DEF value
<1>3. PICK c : /\ c = [op |-> "export", out |-> a, a |-> a,
                       exported |-> Positional(Ordered(bytes, big), ByteRadix)]
               /\ call'.made = c /\ call'.ok = ok
  BY DEF Exported
<1>4. c.op = "export" /\ c.a = a /\ c.exported = Positional(Ordered(bytes, big), ByteRadix)
  BY <1>3
<1>5. CASE ok
  <2>1. value' = value /\ c.exported = value[c.a]
    BY <1>2, <1>4, <1>5
  <2>2. Abstract!Succeed(c)
    BY <1>4, <2>1 DEF Abstract!Succeed
  <2> QED BY <1>1, <1>3, <1>5, <2>2 DEF Abstract!Next, Stepped
<1>6. CASE ~ok
  <2>1. Abstract!Fail(c)
    BY <1>2 DEF Abstract!Fail
  <2> QED BY <1>1, <1>3, <1>6, <2>1 DEF Abstract!Next, Stepped
<1> QED BY <1>5, <1>6

\* The bytes of register a's array, and its number.
BytesOf(a, p, k, v) ==
    /\ BytePlaces(p, k) /\ PlacesValue(p, k, ByteRadix) = v
    /\ \A i \in Nat : p[i] = ByteAt(num[a].limbs, i)
    /\ v = value[a] /\ v \in Nat

\* The bytes of a register.
LEMMA BytesOfRegister ==
    ASSUME BigInv, NEW a \in Registers \ spoiled
    PROVE  \E p, k, v : BytesOf(a, p, k, v)
<1>1. PICK w, v : Given(a, w, v)
  BY GivenRule
<1>2. v = value[a] /\ v \in Nat /\ v = ValueOf(num[a]) /\ Sized(num[a])
  BY <1>1 DEF Given
<1>3. PICK y \in Seq(Limb) : y = num[a].limbs /\ v = WordsValue(y)
  BY <1>2, NumberRule DEF Sized
<1>4. PICK p, k : /\ BytePlaces(p, k) /\ \A i \in Nat : p[i] = ByteAt(y, i)
                  /\ PlacesValue(p, k, ByteRadix) = WordsValue(y)
  BY <1>3, DigitsOfWords
<1>5. BytesOf(a, p, k, v)
  BY <1>2, <1>3, <1>4 DEF BytesOf
<1> QED BY <1>5

(* crypto_bignum_to_bytes_be and crypto_bignum_to_bytes_le.                *)
LEMMA ToBytesIsExact ==
    ASSUME BigInv, NEW a \in Registers \ spoiled, NEW n \in Nat, NEW big, ToBytes(a, n, big)
    PROVE  Stepped
<1>1. PICK p, k, v : BytesOf(a, p, k, v)
  BY BytesOfRegister
<1>2. PICK m : m = (BitsOf(v) + ByteBits - 1) \div ByteBits
  OBVIOUS
<1>3. v \in Nat /\ v = value[a]
  BY <1>1 DEF BytesOf
<1>4. m \in Nat /\ v < PowerOf(ByteRadix, m)
  BY <1>2, <1>3, BytesNeeded
<1>5. PICK y : y = [i \in 1 .. n |-> IF i <= m THEN ByteAt(num[a].limbs, i - 1) ELSE 0]
  OBVIOUS
<1>6. UNCHANGED <<num, spoiled>> /\ call' = Exported(a, Ordered(y, big), big, n >= m)
  BY <1>2, <1>3, <1>5 DEF ToBytes
<1>7. ASSUME n >= m PROVE y \in Seq(Byte) /\ Positional(y, ByteRadix) = v
  <2>1. BytePlaces(p, k) /\ PlacesValue(p, k, ByteRadix) = v /\ \A i \in Nat : p[i] = ByteAt(num[a].limbs, i)
    BY <1>1 DEF BytesOf
  <2>2. y = [i \in 1 .. n |-> IF i <= m THEN p[i - 1] ELSE 0]
    <3>1. \A i \in 1 .. n : i - 1 \in Nat /\ ByteAt(num[a].limbs, i - 1) = p[i - 1]
      BY <2>1
    <3> QED BY <1>5, <3>1
  <2>3. m <= n
    BY <1>4, <1>7
  <2> QED BY <1>4, <2>1, <2>2, <2>3, BytesOut
<1>8. n >= m => Positional(Ordered(Ordered(y, big), big), ByteRadix) = value[a]
  BY <1>3, <1>7, OrderedBytes
<1> QED BY <1>6, <1>8, ExportRule

(* crypto_bignum_to_bytes_be_secret_fixed_ct.                              *)
LEMMA FixedToBytesIsExact ==
    ASSUME BigInv, NEW a \in Registers \ spoiled, NEW n \in Nat, NEW big,
           ToBytesSecretFixed(a, n, big)
    PROVE  Stepped
<1>1. PICK p, k, v : BytesOf(a, p, k, v)
  BY BytesOfRegister
<1>2. PICK ok : ok = (Capacity(a) >= LimbsFor(n))
  OBVIOUS
<1>3. v \in Nat /\ v = value[a]
  BY <1>1 DEF BytesOf
<1>4. v < PowerOf(ByteRadix, n)
  BY <1>3 DEF ToBytesSecretFixed
<1>5. PICK x : x = [i \in 1 .. n |-> ByteAt(num[a].limbs, i - 1)]
  OBVIOUS
<1>6. PICK y : y = IF ok THEN x ELSE Zeros(n)
  OBVIOUS
<1>7. UNCHANGED <<num, spoiled>> /\ call' = Exported(a, Ordered(y, big), big, ok)
  BY <1>2, <1>5, <1>6 DEF ToBytesSecretFixed
<1>8. x \in Seq(Byte) /\ Positional(x, ByteRadix) = v
  <2>1. BytePlaces(p, k) /\ PlacesValue(p, k, ByteRadix) = v /\ \A i \in Nat : p[i] = ByteAt(num[a].limbs, i)
    BY <1>1 DEF BytesOf
  <2>2. PICK m \in Nat : m = n
    OBVIOUS
  <2>3. x = [i \in 1 .. n |-> IF i <= m THEN p[i - 1] ELSE 0]
    <3>1. \A i \in 1 .. n : i - 1 \in Nat /\ i <= m /\ ByteAt(num[a].limbs, i - 1) = p[i - 1]
      BY <2>1, <2>2
    <3> QED BY <1>5, <3>1
  <2>4. m <= n /\ v < PowerOf(ByteRadix, m)
    BY <1>4, <2>2
  <2> QED BY <2>1, <2>3, <2>4, BytesOut
<1>9. ok => Positional(Ordered(Ordered(y, big), big), ByteRadix) = value[a]
  BY <1>3, <1>6, <1>8, OrderedBytes
<1> QED BY <1>7, <1>9, ExportRule

\* The top byte drawn is masked, the lowest made odd and the topmost bit set
\* when asked for.
LEMMA DrawnRule ==
    ASSUME NEW n, NEW bytes \in [1 .. n -> Byte], NEW bits, NEW u, NEW h, NEW half,
           TopBit(bits, n, u, h, half), NEW top \in BOOLEAN, NEW odd \in BOOLEAN
    PROVE  MaskedBytes(Drawn(bytes, bits, top, odd), n, h, top, odd)
<1>0. /\ n \in Nat \ {0} /\ u = n * ByteBits - bits
      /\ h \in Nat \ {0} /\ h = PowerOf(2, ByteBits - 1 - u)
      /\ 2 * h = PowerOf(2, ByteBits - u) /\ 2 * h <= ByteRadix
      /\ half \in Nat \ {0} /\ ByteRadix = 2 * half
  BY DEF TopBit
<1>1. Len(bytes) = n /\ bytes \in Seq(Byte)
  BY <1>0
<1>2. PICK e : e = 2 * h
  OBVIOUS
<1>3. PICK R \in Nat : R = ByteRadix /\ Byte = 0 .. R - 1
  BY <1>0 DEF Byte
<1>4. PICK x \in Nat : x = bytes[1]
  <2>1. bytes[1] \in Byte
    BY <1>0
  <2> QED BY <1>0, <1>3, <2>1
<1>5. PICK low : low = x % e
  OBVIOUS
<1>6. PICK f : f = IF top /\ low < h THEN low + h ELSE low
  OBVIOUS
<1>7. f \in Nat /\ f < e /\ f < R /\ (top => f >= h)
  <2>1. e <= R
    BY <1>0, <1>2, <1>3
  <2>2. TopMasked(f, x, h, e, R, top)
    BY <1>0, <1>2, <1>5, <1>6, <2>1 DEF TopMasked
  <2> QED BY <2>2, ByteMasked
<1>8. PICK y : y = [bytes EXCEPT ![1] = f]
  OBVIOUS
<1>9. PICK d : d = IF odd THEN [y EXCEPT ![n] = @ - (@ % 2) + 1] ELSE y
  OBVIOUS
<1>10. Drawn(bytes, bits, top, odd) = d
  BY <1>0, <1>1, <1>2, <1>4, <1>5, <1>6, <1>8, <1>9 DEF Drawn
<1>11. f \in Byte /\ y \in [1 .. n -> Byte] /\ y[1] = f
  BY <1>0, <1>3, <1>7, <1>8
<1>12. PICK z : z = y[n] - (y[n] % 2) + 1
  OBVIOUS
<1>13. PICK t \in Nat : t = y[n] /\ t < R
  BY SMTT(20), <1>0, <1>3, <1>11
<1>14. z \in Nat /\ z % 2 = 1 /\ z >= t /\ (t < 2 * half => z < 2 * half) /\ (t < 2 * h => z < 2 * h)
  BY ZenonT(40), <1>0, <1>12, <1>13, MadeOdd
<1>15. z \in Byte
  BY <1>0, <1>3, <1>13, <1>14
<1>16. CASE odd
  <2>1. d = [y EXCEPT ![n] = z]
    BY <1>9, <1>12, <1>16
  <2>2. d \in [1 .. n -> Byte] /\ d[n] = z /\ (n # 1 => d[1] = f)
    BY <1>0, <1>11, <1>15, <2>1
  <2>3. d \in Seq(Byte) /\ Len(d) = n
    BY <1>0, <2>2
  <2>4. d[1] < 2 * h /\ (top => d[1] >= h)
    <3>1. CASE n = 1
      BY <1>0, <1>2, <1>7, <1>11, <1>13, <1>14, <2>2, <3>1
    <3>2. CASE n # 1
      BY <1>0, <1>2, <1>7, <2>2, <3>2
    <3> QED BY <3>1, <3>2
  <2> QED BY <1>0, <1>10, <1>14, <2>2, <2>3, <2>4 DEF MaskedBytes
<1>17. CASE ~odd
  BY <1>0, <1>2, <1>7, <1>9, <1>10, <1>11, <1>17 DEF MaskedBytes
<1> QED BY <1>16, <1>17

(* A random number of bits is one in range with the bits asked for.        *)
LEMMA DrawRule ==
    ASSUME BigInv, NEW c, NEW o \in Registers, c.out = o, c.op = "draw",
           NEW x, NEW v, Holds(x, v), v \in 0 .. c.k - 1,
           c.top => 2 * v >= c.k, c.odd => v % 2 = 1, Done(c, x)
    PROVE  Stepped
<1>1. Sized(x) /\ Whole(x) /\ ValueOf(x) = v
  BY DEF Holds, Whole
<1>2. Ends(c, x, TRUE, {})
  BY DEF Done
<1>3. BigInv' /\ value' = [value EXCEPT ![o] = v] /\ call' = [made |-> c, ok |-> TRUE]
  <2>1. PICK ok, lost : ok = TRUE /\ lost = {}
    OBVIOUS
  <2>2. Ends(c, x, ok, lost) /\ (o \in lost \/ Whole(x))
    BY <1>1, <1>2, <2>1
  <2>3. BigInv' /\ value' = [value EXCEPT ![o] = ValueOf(x)] /\ call' = [made |-> c, ok |-> ok]
    BY <1>1, <2>2, EndsRule
  <2> QED BY <1>1, <2>1, <2>3
<1>4. call'.ok = TRUE /\ call'.made = c
  BY <1>3
<1>5. Abstract!Succeed(c)
  <2>1. \E z \in 0 .. c.k - 1 : /\ c.top => 2 * z >= c.k
                                /\ c.odd => z % 2 = 1
                                /\ value' = [value EXCEPT ![c.out] = z]
    BY <1>3
  <2>2. c.op # "range" /\ c.op = "draw"
    OBVIOUS
  <2> QED BY <2>1, <2>2 DEF Abstract!Succeed
<1> QED BY <1>3, <1>4, <1>5 DEF Abstract!Next, Stepped

\* The number drawn, in as many limbs as its bytes need.
DrawnTo(x, v, k, top, odd) ==
    Holds(x, v) /\ v \in 0 .. k - 1 /\ (top => 2 * v >= k) /\ (odd => v % 2 = 1)

-----------------------------------------------------------------------------
(* Numbers drawn at random.                                                  *)

\* The register the drawn bytes are stored in holds their value.
LEMMA DrawnHolds ==
    ASSUME BigInv, NEW o \in Registers, NEW bits, NEW n, NEW j, NEW u, NEW h, NEW w,
           Widths(bits, n, j, u, h, w), NEW top \in BOOLEAN, NEW odd \in BOOLEAN, bits \in Nat,
           NEW bytes \in [1 .. n -> Byte], NEW x,
           x = Normalized([limbs |-> WordsOfBytes(Reverse(Drawn(bytes, bits, top, odd)),
                                                  Max({LimbsFor(n), Capacity(o)})),
                           length |-> LimbsFor(n)])
    PROVE  \E v : DrawnTo(x, v, PowerOf(2, bits), top, odd)
<1>1. /\ n = j + 1 /\ j \in Nat /\ n <= BytesPerLimb /\ n \in Nat \ {0}
      /\ u = n * ByteBits - bits /\ u \in Nat
      /\ h \in Nat \ {0} /\ h = PowerOf(2, ByteBits - 1 - u)
      /\ 2 * h = PowerOf(2, ByteBits - u) /\ 2 * h <= ByteRadix
      /\ w = PowerOf(ByteRadix, j) /\ w \in Nat \ {0} /\ 2 * (h * w) = PowerOf(2, bits)
  BY SMTT(20) DEF Widths
<1>2. PICK half \in Nat \ {0} : ByteRadix = 2 * half
  <2>1. PICK B \in Nat : ByteBits = B + 1
    <3>1. ByteBits - 1 \in Nat /\ ByteBits = (ByteBits - 1) + 1
      BY BaseRule
    <3> QED BY <3>1
  <2>2. PowerOf(2, B) \in Nat \ {0} /\ PowerOf(2, B + 1) = 2 * PowerOf(2, B)
    BY TwoPowers
  <2> QED BY <2>1, <2>2 DEF ByteRadix
<1>3. PICK d : d = Drawn(bytes, bits, top, odd)
  OBVIOUS
<1>4. MaskedBytes(d, n, h, top, odd)
  <2>1. TopBit(bits, n, u, h, half)
    BY <1>1, <1>2 DEF TopBit
  <2>2. MaskedBytes(Drawn(bytes, bits, top, odd), n, h, top, odd)
    BY <2>1, DrawnRule
  <2> QED BY <1>3, <2>2
<1>5. PICK r, v : Drew(v, r, d, n, h, w, top, odd)
  BY <1>1, <1>2, <1>4, DrawnValue
<1>6. /\ r = Reverse(d) /\ r \in Seq(Byte) /\ Len(r) = n
      /\ v = Positional(r, ByteRadix) /\ v \in Nat
      /\ v < 2 * (h * w) /\ (top => v >= h * w) /\ (odd => v % 2 = 1)
  BY <1>5 DEF Drew
<1>7. PICK l \in Nat : l = LimbsFor(n) /\ l = LimbsFor(Len(r)) /\ l <= 2
  <2>1. n <= 2 * BytesPerLimb - 1
    BY <1>1, LimbBitsAssumption
  <2> QED BY <1>1, <1>6, <2>1, LimbsForRule
<1>8. x = Normalized([limbs |-> WordsOfBytes(r, Max({l, Capacity(o)})), length |-> l])
  BY <1>3, <1>6, <1>7
<1>9. Holds(x, v)
  BY <1>6, <1>7, <1>8, BytesStored
<1>10. PICK y \in Nat : y = h * w
  <2>1. \A a, b \in Nat : a * b \in Nat
    OBVIOUS
  <2>2. h \in Nat /\ w \in Nat
    BY <1>1
  <2> QED BY <2>1, <2>2, Zenon
<1>11. PICK k \in Nat : k = PowerOf(2, bits) /\ k = 2 * y
  BY <1>1, <1>10
<1>12. v \in 0 .. k - 1 /\ (v >= y => 2 * v >= k)
  BY <1>6, <1>10, <1>11
<1>13. top => 2 * v >= k
  BY <1>6, <1>10, <1>12
<1>14. DrawnTo(x, v, PowerOf(2, bits), top, odd)
  BY <1>6, <1>9, <1>11, <1>12, <1>13 DEF DrawnTo
<1> QED BY <1>14

(* crypto_bignum_random_bits.                                              *)
LEMMA RandomBitsIsExact ==
    ASSUME BigInv, NEW o \in Registers \ spoiled, NEW bits \in 1 .. LimbBits,
           NEW top \in BOOLEAN, NEW odd \in BOOLEAN, RandomBits(o, bits, top, odd)
    PROVE  Stepped
<1>1. PICK n, j, u, h, w : Widths(bits, n, j, u, h, w)
  BY WidthsRule
<1>2. n = (bits + ByteBits - 1) \div ByteBits
  BY <1>1 DEF Widths
<1>3. PICK k : k = PowerOf(2, bits)
  OBVIOUS
<1>4. PICK c : c = [op |-> "draw", out |-> o, a |-> o, k |-> k, top |-> top, odd |-> odd]
  OBVIOUS
<1>5. c.op = "draw" /\ c.out = o /\ c.k = k /\ c.top = top /\ c.odd = odd
  BY <1>4
<1>6. \/ Failed(c)
      \/ \E bytes \in [1 .. n -> Byte] :
           Done(c, Normalized([limbs |-> WordsOfBytes(Reverse(Drawn(bytes, bits, top, odd)),
                                                      Max({LimbsFor(n), Capacity(o)})),
                               length |-> LimbsFor(n)]))
  BY <1>2, <1>3, <1>4 DEF RandomBits
<1>7. CASE Failed(c)
  BY <1>5, <1>7, FailedRule
<1>8. ASSUME NEW bytes \in [1 .. n -> Byte], NEW x,
             x = Normalized([limbs |-> WordsOfBytes(Reverse(Drawn(bytes, bits, top, odd)),
                                                    Max({LimbsFor(n), Capacity(o)})),
                             length |-> LimbsFor(n)]),
             Done(c, x)
      PROVE  Stepped
  <2>1. bits \in Nat
    BY LimbBitsAssumption
  <2>2. PICK v : DrawnTo(x, v, k, top, odd)
    BY <1>1, <1>3, <1>8, <2>1, DrawnHolds
  <2>3. Holds(x, v) /\ v \in 0 .. c.k - 1 /\ (c.top => 2 * v >= c.k) /\ (c.odd => v % 2 = 1)
    BY <1>5, <2>2 DEF DrawnTo
  <2> QED BY <1>5, <1>8, <2>3, DrawRule
<1> QED BY <1>6, <1>7, <1>8

(* A random number below a bound is one below it.                          *)
LEMMA RangeRule ==
    ASSUME BigInv, NEW c, NEW o \in Registers, c.out = o, c.op = "range",
           NEW x, NEW v, Holds(x, v), v \in 0 .. value[c.a] - 1, Done(c, x)
    PROVE  Stepped
<1>1. Sized(x) /\ Whole(x) /\ ValueOf(x) = v
  BY DEF Holds, Whole
<1>2. Ends(c, x, TRUE, {})
  BY DEF Done
<1>3. BigInv' /\ value' = [value EXCEPT ![o] = v] /\ call' = [made |-> c, ok |-> TRUE]
  <2>1. PICK ok, lost : ok = TRUE /\ lost = {}
    OBVIOUS
  <2>2. Ends(c, x, ok, lost) /\ (o \in lost \/ Whole(x))
    BY <1>1, <1>2, <2>1
  <2>3. BigInv' /\ value' = [value EXCEPT ![o] = ValueOf(x)] /\ call' = [made |-> c, ok |-> ok]
    BY <1>1, <2>2, EndsRule
  <2> QED BY <1>1, <2>1, <2>3
<1>4. call'.ok = TRUE /\ call'.made = c
  BY <1>3
<1>5. Abstract!Succeed(c)
  <2>1. \E z \in 0 .. value[c.a] - 1 : value' = [value EXCEPT ![c.out] = z]
    BY <1>3
  <2> QED BY <2>1 DEF Abstract!Succeed
<1> QED BY <1>3, <1>4, <1>5 DEF Abstract!Next, Stepped

(* crypto_bignum_random_range.                                             *)
LEMMA RandomRangeIsExact ==
    ASSUME BigInv, NEW o \in Registers \ spoiled, NEW a \in Registers \ spoiled, RandomRange(o, a)
    PROVE  Stepped
<1>1. PICK w, v : Given(a, w, v)
  BY GivenRule
<1>2. v = value[a] /\ v \in Nat /\ w \in Seq(Limb) /\ v = WordsValue(w) /\ Len(w) <= BignumMaxLimbs
  BY <1>1 DEF Given
<1>3. PICK n : n = LimbsFor((BitsOf(v) + ByteBits - 1) \div ByteBits)
  OBVIOUS
<1>4. n \in Nat /\ n <= Len(w) /\ v < Weight(n)
  <2>1. Len(w) \in Nat /\ v < Weight(Len(w))
    BY <1>2, WordsBound
  <2>2. Needs(v, n, Len(w))
    BY <1>2, <1>3, <2>1 DEF Needs
  <2> QED BY <2>2, NeedsRule
<1>5. PICK c : c = [op |-> "range", out |-> o, a |-> a]
  OBVIOUS
<1>6. c.op = "range" /\ c.out = o /\ c.a = a
  BY <1>5
<1>7. Failed(c) \/ \E x \in 0 .. v - 1 : Done(c, Fresh(WordsOf(x, n)))
  BY <1>2, <1>3, <1>5 DEF RandomRange
<1>8. CASE Failed(c)
  BY <1>6, <1>8, FailedRule
<1>9. ASSUME NEW x \in 0 .. v - 1, Done(c, Fresh(WordsOf(x, n)))
      PROVE  Stepped
  <2>1. x \in Nat /\ x < Weight(n)
    <3>1. Weight(n) \in Nat
      BY <1>4, WeightRule
    <3> QED BY <1>2, <1>4, <3>1
  <2>2. PICK y \in Seq(Limb) : y = WordsOf(x, n) /\ Len(y) = n /\ WordsValue(y) = x
    BY <1>4, <2>1, WordsOfRule
  <2>3. Len(y) <= BignumMaxLimbs
    <3>1. Len(w) \in Nat /\ BignumMaxLimbs \in Nat
      BY <1>2, BignumAssumption
    <3> QED BY <1>2, <1>4, <2>2, <3>1
  <2>4. Holds(Fresh(y), x)
    BY <2>2, <2>3, FreshHolds
  <2>5. x \in 0 .. value[c.a] - 1
    BY <1>2, <1>6
  <2> QED BY <1>6, <1>9, <2>2, <2>4, <2>5, RangeRule
<1> QED BY <1>7, <1>8, <1>9

-----------------------------------------------------------------------------
(* Every call.                                                               *)

(* A call on one register and on operands that are the register itself.    *)
SelfCalls(out) ==
    \/ ShiftLeftOne(out)
    \/ \E v \in Words32 : SetU64(out, v) \/ (v \in Limb /\ AddU32(out, v))
    \/ \E bytes \in ByteStrings, big \in BOOLEAN :
         \/ FromBytes(out, bytes, big)
         \/ \E n \in 1 .. 2 : FromBytesSecretFixed(out, bytes, big, n)
    \/ \E n \in 0 .. 2 * BytesPerLimb, big \in BOOLEAN :
         ToBytes(out, n, big) \/ ToBytesSecretFixed(out, n, big)
    \/ \E bits \in 1 .. LimbBits, top, odd \in BOOLEAN : RandomBits(out, bits, top, odd)

\* Calls that read no operand but their own register.
LEMMA SelfCallsAreExact ==
    ASSUME BigInv, NEW o \in Registers \ spoiled, SelfCalls(o)
    PROVE  Stepped
<1>1. \/ ShiftLeftOne(o)
      \/ \E v \in Words32 : SetU64(o, v) \/ (v \in Limb /\ AddU32(o, v))
      \/ \E bytes \in ByteStrings, big \in BOOLEAN :
           \/ FromBytes(o, bytes, big)
           \/ \E n \in 1 .. 2 : FromBytesSecretFixed(o, bytes, big, n)
      \/ \E n \in 0 .. 2 * BytesPerLimb, big \in BOOLEAN :
           ToBytes(o, n, big) \/ ToBytesSecretFixed(o, n, big)
      \/ \E bits \in 1 .. LimbBits, top, odd \in BOOLEAN : RandomBits(o, bits, top, odd)
  BY DEF SelfCalls
<1>2. CASE ShiftLeftOne(o)
  BY <1>2, ShiftIsExact
<1>3. ASSUME NEW v \in Words32, SetU64(o, v) PROVE Stepped
  BY <1>3, SetIsExact
<1>4. ASSUME NEW v \in Limb, AddU32(o, v) PROVE Stepped
  BY <1>4, AddWordIsExact
<1>5. ASSUME NEW bytes \in ByteStrings, NEW big \in BOOLEAN, FromBytes(o, bytes, big) PROVE Stepped
  BY <1>5, FromBytesIsExact
<1>6. ASSUME NEW bytes \in ByteStrings, NEW big \in BOOLEAN, NEW n \in 1 .. 2,
             FromBytesSecretFixed(o, bytes, big, n)
      PROVE  Stepped
  <2>1. n \in Nat /\ n <= BignumMaxLimbs
    BY BignumAssumption
  <2> QED BY <1>6, <2>1, FixedFromBytesIsExact
<1>7. ASSUME NEW n \in 0 .. 2 * BytesPerLimb, NEW big \in BOOLEAN, ToBytes(o, n, big) PROVE Stepped
  <2>1. n \in Nat
    BY LimbBitsAssumption
  <2> QED BY <1>7, <2>1, ToBytesIsExact
<1>8. ASSUME NEW n \in 0 .. 2 * BytesPerLimb, NEW big \in BOOLEAN, ToBytesSecretFixed(o, n, big)
      PROVE  Stepped
  <2>1. n \in Nat
    BY LimbBitsAssumption
  <2> QED BY <1>8, <2>1, FixedToBytesIsExact
<1>9. ASSUME NEW bits \in 1 .. LimbBits, NEW top \in BOOLEAN, NEW odd \in BOOLEAN,
             RandomBits(o, bits, top, odd)
      PROVE  Stepped
  BY <1>9, RandomBitsIsExact
<1> QED BY <1>1, <1>2, <1>3, <1>4, <1>5, <1>6, <1>7, <1>8, <1>9

\* A call on one operand.
UnaryCalls(out, a) ==
    \/ Square(out, a) \/ BignumCopy(out, a) \/ RandomRange(out, a)
    \/ \E v \in Words32 \cap Limb :
         \/ AddU32Copy(out, a, v) \/ SubU32(out, a, v)
         \/ MulU32(out, a, v) \/ DivU32(out, a, v)
    \/ \E n \in 1 .. BignumMaxLimbs : CopySecretFixed(out, a, n) \/ CopySecretFixedCt(out, a, n)

\* Calls with one operand.
LEMMA UnaryCallsAreExact ==
    ASSUME BigInv, NEW o \in Registers \ spoiled, NEW a \in Registers \ spoiled, UnaryCalls(o, a)
    PROVE  Stepped
<1>1. \/ Square(o, a) \/ BignumCopy(o, a) \/ RandomRange(o, a)
      \/ \E v \in Words32 \cap Limb :
           AddU32Copy(o, a, v) \/ SubU32(o, a, v) \/ MulU32(o, a, v) \/ DivU32(o, a, v)
      \/ \E n \in 1 .. BignumMaxLimbs : CopySecretFixed(o, a, n) \/ CopySecretFixedCt(o, a, n)
  BY DEF UnaryCalls
<1>2. CASE Square(o, a) \/ BignumCopy(o, a) \/ RandomRange(o, a)
  BY <1>2, SquareIsExact, CopyIsExact, RandomRangeIsExact
<1>3. ASSUME NEW v \in Limb,
             AddU32Copy(o, a, v) \/ SubU32(o, a, v) \/ MulU32(o, a, v) \/ DivU32(o, a, v)
      PROVE  Stepped
  BY <1>3, AddWordToCopyIsExact, SubWordIsExact, MulWordIsExact, DivWordIsExact
<1>4. ASSUME NEW n \in 1 .. BignumMaxLimbs, CopySecretFixed(o, a, n) \/ CopySecretFixedCt(o, a, n)
      PROVE  Stepped
  <2>1. n \in Nat /\ n <= BignumMaxLimbs
    BY BignumAssumption
  <2> QED BY <1>4, <2>1, FixedCopyIsExact, FixedCopyCtIsExact
<1> QED BY <1>1, <1>2, <1>3, <1>4

\* Every call is a step of the specification.
LEMMA CallsAreExact ==
    BigInv /\ BignumNext => Stepped
<1> SUFFICES ASSUME BigInv, BignumNext PROVE Stepped
  OBVIOUS
<1>1. PICK o \in Registers :
        \/ BignumFree(o)
        \/ \E a, b \in Registers \ spoiled :
             /\ o \notin spoiled
             /\ \/ Add(o, a, b) \/ Sub(o, a, b) \/ Mul(o, a, b) \/ Mod(o, a, b)
                \/ \E m \in Registers \ spoiled : ModMul(o, a, b, m)
                \/ b = a /\ UnaryCalls(o, a)
                \/ \E n \in 1 .. BignumMaxLimbs : SubSecretFixed(o, a, b, n)
                \/ a = o /\ b = o /\ SelfCalls(o)
  BY DEF BignumNext, UnaryCalls, SelfCalls
<1>2. CASE BignumFree(o)
  BY <1>2, FreeIsExact
<1>3. ASSUME NEW a \in Registers \ spoiled, NEW b \in Registers \ spoiled, o \notin spoiled,
             \/ Add(o, a, b) \/ Sub(o, a, b) \/ Mul(o, a, b) \/ Mod(o, a, b)
             \/ \E m \in Registers \ spoiled : ModMul(o, a, b, m)
             \/ b = a /\ UnaryCalls(o, a)
             \/ \E n \in 1 .. BignumMaxLimbs : SubSecretFixed(o, a, b, n)
             \/ a = o /\ b = o /\ SelfCalls(o)
      PROVE  Stepped
  <2>0. o \in Registers \ spoiled
    BY <1>3
  <2>1. CASE Add(o, a, b) \/ Sub(o, a, b) \/ Mul(o, a, b) \/ Mod(o, a, b)
    BY <2>0, <2>1, AddIsExact, SubIsExact, MulIsExact, ModIsExact
  <2>2. ASSUME NEW m \in Registers \ spoiled, ModMul(o, a, b, m) PROVE Stepped
    BY <2>0, <2>2, ModMulIsExact
  <2>3. CASE UnaryCalls(o, a)
    BY <2>0, <2>3, UnaryCallsAreExact
  <2>4. ASSUME NEW n \in 1 .. BignumMaxLimbs, SubSecretFixed(o, a, b, n) PROVE Stepped
    <3>1. n \in Nat /\ n <= BignumMaxLimbs
      BY BignumAssumption
    <3> QED BY <2>0, <2>4, <3>1, FixedSubIsExact
  <2>5. CASE SelfCalls(o)
    BY <2>0, <2>5, SelfCallsAreExact
  <2> QED BY <1>3, <2>1, <2>2, <2>3, <2>4, <2>5
<1> QED BY <1>1, <1>2, <1>3

(* Every call keeps the registers and is one of the abstract calls.        *)
LEMMA BignumSteps ==
    BigInv /\ [BignumNext]_bignumVars => BigInv' /\ [Abstract!Next]_<<value, call>>
<1> SUFFICES ASSUME BigInv, [BignumNext]_bignumVars
             PROVE  BigInv' /\ [Abstract!Next]_<<value, call>>
  OBVIOUS
<1>1. CASE BignumNext
  BY <1>1, CallsAreExact DEF Stepped
<1>2. CASE UNCHANGED bignumVars
  BY <1>2 DEF bignumVars, BigInv, value
<1> QED BY <1>1, <1>2

(* What the inductive invariant of the registers gives.                    *)
LEMMA RegistersAreExact ==
    BigInv => BignumTypeOK /\ TailIsZero /\ LengthsAreExact
<1> SUFFICES ASSUME BigInv PROVE BignumTypeOK /\ TailIsZero /\ LengthsAreExact
  OBVIOUS
<1>1. ASSUME NEW r \in Registers
      PROVE  /\ num[r].limbs \in Seq(Limb) /\ Len(num[r].limbs) <= BignumMaxLimbs
             /\ num[r].length \in Nat /\ num[r].length <= Len(num[r].limbs)
             /\ \A i \in Nat : i > num[r].length /\ i <= Len(num[r].limbs) => num[r].limbs[i] = 0
             /\ r \notin spoiled => (num[r].length > 0 => num[r].limbs[num[r].length] # 0)
  BY DEF BigInv, Sized, Whole
<1>2. ASSUME NEW r \in Registers
      PROVE  num[r].length \in 0 .. Len(num[r].limbs) /\ Len(num[r].limbs) \in Nat
  <2>1. PICK w \in Seq(Limb) : w = num[r].limbs
    BY <1>1
  <2>2. Len(w) \in Nat
    OBVIOUS
  <2> QED BY <1>1, <2>1, <2>2
<1>3. BignumTypeOK
  BY <1>1, <1>2 DEF BignumTypeOK
<1>4. TailIsZero
  BY <1>1, <1>2 DEF TailIsZero, LengthOf, Capacity
<1>5. LengthsAreExact
  BY <1>1, <1>2 DEF LengthsAreExact, LengthOf
<1> QED BY <1>3, <1>4, <1>5

-----------------------------------------------------------------------------
(* Long division, in numbers: the estimate of a digit from two limbs, as in  *)
(* Knuth's algorithm D.  X is the window the digit d is found in, V the      *)
(* modulus, and both are split into what the estimate reads and the rest.    *)

(* Products keep the order, and give it back.                              *)
LEMMA ProductsOrder ==
    \A a, b, c \in Nat : /\ a <= b => a * c <= b * c
                         /\ a * c < b * c => a < b
                         /\ a * c \in Nat /\ a * c = c * a
<1>1. ASSUME NEW a \in Nat, NEW b \in Nat, NEW c \in Nat, a <= b PROVE a * c <= b * c
  <2>1. PICK d \in Nat : b = a + d
    <3>1. b - a \in Nat /\ b = a + (b - a)
      BY <1>1
    <3> QED BY <3>1
  <2>2. \A x, y, z \in Nat : (x + y) * z = x * z + y * z /\ y * z \in Nat /\ x * z \in Nat
    OBVIOUS
  <2>3. b * c = a * c + d * c /\ d * c \in Nat /\ a * c \in Nat
    BY <2>1, <2>2
  <2> QED BY <2>3
<1>2. \A a, b \in Nat : a * b \in Nat /\ a * b = b * a
  OBVIOUS
<1>3. ASSUME NEW a \in Nat, NEW b \in Nat, NEW c \in Nat, a * c < b * c PROVE a < b
  <2>1. CASE b <= a
    <3>1. b * c <= a * c
      BY <1>1, <2>1
    <3>2. PICK x \in Nat, y \in Nat : x = a * c /\ y = b * c
      BY <1>2, Zenon
    <3> QED BY <1>3, <3>1, <3>2
  <2> QED BY <2>1
<1> QED BY <1>1, <1>2, <1>3

\* X is N and the digit x3 above W, and V is v1, v2 above W, in base b; d is the
\* digit that X has in V.
Split3(X, N, x3, W, b) ==
    /\ N \in Nat /\ x3 \in Nat /\ x3 < b
    /\ \E l \in Nat : l < W /\ X = (N * b + x3) * W + l
IsQuotient(d, X, V) == d \in Nat /\ X \in Nat /\ V \in Nat /\ d * V <= X /\ X < (d + 1) * V
Estimating(X, V, N, x3, v1, v2, W, b, d) ==
    /\ b \in Nat \ {0} /\ W \in Nat \ {0} /\ v1 \in Nat \ {0}
    /\ Split3(X, N, x3, W, b) /\ Split3(V, v1, v2, W, b) /\ IsQuotient(d, X, V)

\* The estimate q with its remainder r from the two limbs N.
Estimated(q, r, N, v1) == q \in Nat /\ r \in Nat /\ N = q * v1 + r

(* The two numbers between multiples of W.                                 *)
LEMMA EstimatingRule ==
    ASSUME NEW X, NEW V, NEW N, NEW x3, NEW v1, NEW v2, NEW W, NEW b, NEW d,
           Estimating(X, V, N, x3, v1, v2, W, b, d)
    PROVE  /\ X \in Nat /\ V \in Nat /\ d \in Nat /\ N \in Nat /\ x3 \in Nat /\ v2 \in Nat
           /\ b \in Nat \ {0} /\ W \in Nat \ {0} /\ v1 \in Nat \ {0} /\ x3 < b /\ v2 < b
           /\ N * b \in Nat /\ v1 * b \in Nat
           /\ (N * b + x3) * W <= X /\ X < (N * b + x3 + 1) * W
           /\ (v1 * b + v2) * W <= V /\ V < (v1 * b + v2 + 1) * W
           /\ d * V <= X /\ X < (d + 1) * V
<1>1. /\ b \in Nat \ {0} /\ W \in Nat \ {0} /\ v1 \in Nat \ {0}
      /\ X \in Nat /\ V \in Nat /\ d \in Nat /\ d * V <= X /\ X < (d + 1) * V
      /\ N \in Nat /\ x3 \in Nat /\ x3 < b /\ v2 \in Nat /\ v2 < b
  BY DEF Estimating, Split3, IsQuotient
<1>2. PICK l \in Nat : l < W /\ X = (N * b + x3) * W + l
  BY DEF Estimating, Split3
<1>3. PICK m \in Nat : m < W /\ V = (v1 * b + v2) * W + m
  BY DEF Estimating, Split3
<1>4. N * b \in Nat /\ v1 * b \in Nat
  BY <1>1, ProductsOrder
<1>5. ASSUME NEW y \in Nat, NEW k \in Nat, NEW z, k < W, z = y * W + k
      PROVE  y * W <= z /\ z < (y + 1) * W
  <2>1. PICK t \in Nat : t = y * W
    BY <1>1, ProductsOrder
  <2>2. (y + 1) * W = y * W + W
    BY <1>1
  <2> QED BY <1>1, <1>5, <2>1, <2>2
<1>6. N * b + x3 \in Nat /\ v1 * b + v2 \in Nat
  BY <1>1, <1>4
<1>7. (N * b + x3) * W <= X /\ X < ((N * b + x3) + 1) * W
  BY <1>2, <1>5, <1>6
<1>8. (v1 * b + v2) * W <= V /\ V < ((v1 * b + v2) + 1) * W
  BY <1>3, <1>5, <1>6
<1> QED BY <1>1, <1>4, <1>7, <1>8

\* The digit takes no more than the limbs that the estimate reads hold.
LEMMA DigitFits ==
    ASSUME NEW X, NEW V, NEW N, NEW x3, NEW v1, NEW v2, NEW W, NEW b, NEW d,
           Estimating(X, V, N, x3, v1, v2, W, b, d)
    PROVE  d * (v1 * b + v2) <= N * b + x3
<1>1. /\ X \in Nat /\ V \in Nat /\ d \in Nat /\ W \in Nat \ {0}
      /\ X < (N * b + x3 + 1) * W /\ (v1 * b + v2) * W <= V /\ d * V <= X
  BY EstimatingRule
<1>2. N * b \in Nat /\ v1 * b \in Nat /\ x3 \in Nat /\ v2 \in Nat
  BY EstimatingRule
<1>3. PICK T \in Nat : T = v1 * b + v2
  BY <1>2
<1>4. PICK S \in Nat : S = N * b + x3
  BY <1>2
<1>5. T * W <= V /\ X < (S + 1) * W
  BY <1>1, <1>3, <1>4
<1>6. (d * T) * W <= X
  <2>1. PICK e \in Nat : e = T * W
    BY <1>1, ProductsOrder
  <2>2. e * d <= V * d /\ V * d = d * V /\ e * d \in Nat
    BY <1>1, <1>5, <2>1, ProductsOrder
  <2>3. \A x, y, z \in Nat : (x * y) * z = (y * z) * x
    OBVIOUS
  <2>4. (d * T) * W = e * d
    BY <1>1, <2>1, <2>3
  <2>5. PICK f \in Nat : f = d * V
    BY <1>1, ProductsOrder
  <2>6. PICK g \in Nat : g = e * d
    BY <2>2
  <2> QED BY <1>1, <2>2, <2>4, <2>5, <2>6
<1>7. d * T \in Nat
  BY <1>1, ProductsOrder
<1>8. (d * T) * W < (S + 1) * W
  <2>1. PICK f \in Nat : f = (d * T) * W
    BY <1>1, <1>7, ProductsOrder
  <2>2. PICK g \in Nat : g = (S + 1) * W
    <3>1. S + 1 \in Nat
      BY <1>4
    <3> QED BY <1>1, <3>1, ProductsOrder
  <2> QED BY <1>1, <1>5, <1>6, <2>1, <2>2
<1>9. d * T < S + 1
  <2>1. S + 1 \in Nat
    BY <1>4
  <2>2. \A x, y, z \in Nat : x * z < y * z => x < y
    BY ProductsOrder
  <2> QED BY <1>1, <1>7, <1>8, <2>1, <2>2
<1> QED BY <1>3, <1>4, <1>7, <1>9

\* What a normalized modulus is good for: the first estimate is no smaller than the
\* digit and at most two above the largest digit there is.
LEMMA FirstEstimate ==
    ASSUME NEW X, NEW V, NEW N, NEW x3, NEW v1, NEW v2, NEW W, NEW b, NEW d,
           Estimating(X, V, N, x3, v1, v2, W, b, d), X < V * b, b <= 2 * v1,
           NEW q, NEW r, Estimated(q, r, N, v1), r < v1
    PROVE  d <= q /\ d < b /\ q <= b + 1
<1>1. /\ X \in Nat /\ V \in Nat /\ d \in Nat /\ W \in Nat \ {0} /\ b \in Nat \ {0}
      /\ v1 \in Nat \ {0} /\ N \in Nat /\ x3 \in Nat /\ v2 \in Nat /\ x3 < b /\ v2 < b
      /\ N * b \in Nat /\ v1 * b \in Nat
  BY EstimatingRule
<1>2. q \in Nat /\ r \in Nat /\ N = q * v1 + r
  BY DEF Estimated
<1>3. d < b
  <2>1. d * V <= X
    BY EstimatingRule
  <2>2. V * b = b * V /\ b * V \in Nat /\ d * V \in Nat
    BY <1>1, ProductsOrder
  <2>3. d * V < b * V
    <3>1. PICK e \in Nat : e = d * V
      BY <2>2
    <3>2. PICK f \in Nat : f = b * V
      BY <2>2
    <3> QED BY <1>1, <2>1, <2>2, <3>1, <3>2
  <2>4. \A x, y, z \in Nat : x * z < y * z => x < y
    BY ProductsOrder
  <2> QED BY <1>1, <2>3, <2>4
<1>4. d <= q
  <2>1. d * (v1 * b + v2) <= N * b + x3
    BY DigitFits
  <2>2. (d * v1) * b <= N * b + x3
    <3>1. \A x, y, z, t \in Nat : x * (y * z + t) = (x * y) * z + x * t /\ x * t \in Nat
      OBVIOUS
    <3>2. d * (v1 * b + v2) = (d * v1) * b + d * v2 /\ d * v2 \in Nat
      BY <1>1, <3>1
    <3>3. d * v1 \in Nat
      BY <1>1, ProductsOrder
    <3>4. PICK e \in Nat : e = (d * v1) * b
      BY <1>1, <3>3, ProductsOrder
    <3> QED BY <1>1, <2>1, <3>2, <3>4
  <2>3. (d * v1) * b < (N + 1) * b
    <3>1. (N + 1) * b = N * b + b
      BY <1>1
    <3>2. d * v1 \in Nat
      BY <1>1, ProductsOrder
    <3>3. PICK e \in Nat : e = (d * v1) * b
      BY <1>1, <3>2, ProductsOrder
    <3> QED BY <1>1, <2>2, <3>1, <3>3
  <2>4. \A x, y, z \in Nat : x * z < y * z => x < y
    BY ProductsOrder
  <2>5. d * v1 \in Nat /\ N + 1 \in Nat
    BY <1>1, ProductsOrder
  <2>6. d * v1 < N + 1
    BY <1>1, <2>3, <2>4, <2>5
  <2>7. d * v1 < (q + 1) * v1
    <3>1. (q + 1) * v1 = q * v1 + v1
      BY <1>1, <1>2
    <3>2. q * v1 \in Nat
      BY <1>1, <1>2, ProductsOrder
    <3> QED BY <1>1, <1>2, <2>5, <2>6, <3>1, <3>2
  <2>8. d < q + 1
    <3>1. q + 1 \in Nat
      BY <1>2
    <3> QED BY <1>1, <2>4, <2>7, <3>1
  <2> QED BY <1>1, <1>2, <2>8
<1>5. N < (v1 + 1) * b
  <2>1. /\ (N * b + x3) * W <= X /\ V < (v1 * b + v2 + 1) * W
    BY EstimatingRule
  <2>2. (N * b) * W <= X
    <3>1. N * b + x3 \in Nat /\ N * b <= N * b + x3
      BY <1>1
    <3>2. (N * b) * W <= (N * b + x3) * W
      BY <1>1, <3>1, ProductsOrder
    <3>3. PICK e \in Nat : e = (N * b) * W
      BY <1>1, ProductsOrder
    <3>4. PICK f \in Nat : f = (N * b + x3) * W
      BY <1>1, <3>1, ProductsOrder
    <3> QED BY <1>1, <2>1, <3>2, <3>3, <3>4
  <2>3. V <= ((v1 + 1) * b) * W
    <3>1. (v1 + 1) * b = v1 * b + b
      BY <1>1
    <3>2. PICK S \in Nat : S = v1 * b + v2 + 1
      BY <1>1
    <3>3. PICK T \in Nat : T = (v1 + 1) * b
      BY <1>1, <3>1
    <3>4. S <= T
      BY <1>1, <3>1, <3>2, <3>3
    <3>5. S * W <= T * W /\ S * W \in Nat /\ T * W \in Nat
      BY <1>1, <3>4, ProductsOrder
    <3>6. V < S * W
      BY <2>1, <3>2
    <3>7. PICK e \in Nat : e = S * W
      BY <3>5
    <3>8. PICK f \in Nat : f = T * W
      BY <3>5
    <3> QED BY <1>1, <3>3, <3>5, <3>6, <3>7, <3>8
  <2>4. PICK T \in Nat : T = (v1 + 1) * b
    <3>1. (v1 + 1) * b = v1 * b + b
      BY <1>1
    <3> QED BY <1>1, <3>1
  <2>5. (N * W) * b < (T * W) * b
    <3>1. V * b <= (T * W) * b
      <4>1. T * W \in Nat
        BY <1>1, <2>4, ProductsOrder
      <4> QED BY <1>1, <2>3, <2>4, <4>1, ProductsOrder
    <3>2. \A x, y, z \in Nat : (x * y) * z = (x * z) * y
      OBVIOUS
    <3>3. (N * b) * W = (N * W) * b
      BY <1>1, <3>2
    <3>4. N * W \in Nat /\ T * W \in Nat
      BY <1>1, <2>4, ProductsOrder
    <3>5. PICK e \in Nat : e = (N * W) * b
      BY <1>1, <3>4, ProductsOrder
    <3>6. PICK f \in Nat : f = (T * W) * b
      BY <1>1, <3>4, ProductsOrder
    <3>7. PICK g \in Nat : g = V * b
      BY <1>1, ProductsOrder
    <3> QED BY <1>1, <2>2, <3>1, <3>3, <3>5, <3>6, <3>7
  <2>6. \A x, y, z \in Nat : x * z < y * z => x < y
    BY ProductsOrder
  <2>7. N * W < T * W
    <3>1. N * W \in Nat /\ T * W \in Nat
      BY <1>1, <2>4, ProductsOrder
    <3> QED BY <1>1, <2>5, <2>6, <3>1
  <2> QED BY <1>1, <2>4, <2>6, <2>7
<1>6. q <= b + 1
  <2>1. (v1 + 1) * b = v1 * b + b /\ (b + 2) * v1 = v1 * b + 2 * v1
    BY <1>1
  <2>2. q * v1 \in Nat
    BY <1>1, <1>2, ProductsOrder
  <2>3. q * v1 < (b + 2) * v1
    BY <1>1, <1>2, <1>5, <2>1, <2>2
  <2>4. \A x, y, z \in Nat : x * z < y * z => x < y
    BY ProductsOrder
  <2>5. b + 2 \in Nat
    BY <1>1
  <2>6. q < b + 2
    BY <1>1, <1>2, <2>3, <2>4, <2>5
  <2> QED BY <1>1, <1>2, <2>6
<1> QED BY <1>3, <1>4, <1>6

\* An estimate that is corrected was more than the digit.
LEMMA CorrectedEstimate ==
    ASSUME NEW X, NEW V, NEW N, NEW x3, NEW v1, NEW v2, NEW W, NEW b, NEW d,
           Estimating(X, V, N, x3, v1, v2, W, b, d), d < b,
           NEW q, NEW r, Estimated(q, r, N, v1), d <= q,
           q >= b \/ q * v2 > r * b + x3
    PROVE  q > 0 /\ d <= q - 1 /\ Estimated(q - 1, r + v1, N, v1)
<1>1. /\ d \in Nat /\ b \in Nat \ {0} /\ v1 \in Nat \ {0} /\ N \in Nat /\ x3 \in Nat /\ v2 \in Nat
  BY EstimatingRule
<1>2. q \in Nat /\ r \in Nat /\ N = q * v1 + r
  BY DEF Estimated
<1>3. d < q
  <2>1. CASE q >= b
    BY <1>1, <1>2, <2>1
  <2>2. CASE q * v2 > r * b + x3
    <3>1. ASSUME d = q PROVE FALSE
      <4>1. q * (v1 * b + v2) <= N * b + x3
        BY <3>1, DigitFits
      <4>2. \A x, y, z, t, s \in Nat : /\ x * (y * z + t) = (x * y) * z + x * t
                                       /\ (x * y + s) * z = (x * y) * z + s * z
                                       /\ (x * y) * z \in Nat /\ x * t \in Nat /\ s * z \in Nat
        OBVIOUS
      <4>3. /\ q * (v1 * b + v2) = (q * v1) * b + q * v2 /\ N * b = (q * v1) * b + r * b
            /\ (q * v1) * b \in Nat /\ q * v2 \in Nat /\ r * b \in Nat
        BY <1>1, <1>2, <4>2
      <4>4. PICK e \in Nat : e = (q * v1) * b
        BY <4>3
      <4>5. PICK f \in Nat, g \in Nat : f = q * v2 /\ g = r * b
        BY <4>3
      <4> QED BY <1>1, <2>2, <4>1, <4>3, <4>4, <4>5
    <3> QED BY <1>1, <1>2, <3>1
  <2> QED BY <2>1, <2>2
<1>4. Estimated(q - 1, r + v1, N, v1)
  <2>1. q - 1 \in Nat /\ r + v1 \in Nat
    BY <1>1, <1>2, <1>3
  <2>2. \A x, y, s \in Nat : x * y + s = (x - 1) * y + (s + y)
    OBVIOUS
  <2> QED BY <1>1, <1>2, <2>1, <2>2 DEF Estimated
<1> QED BY <1>1, <1>2, <1>3, <1>4

\* One that is not corrected any more is at most one above the digit.
LEMMA FinalEstimate ==
    ASSUME NEW X, NEW V, NEW N, NEW x3, NEW v1, NEW v2, NEW W, NEW b, NEW d,
           Estimating(X, V, N, x3, v1, v2, W, b, d),
           NEW q, NEW r, Estimated(q, r, N, v1), q <= b, d <= q,
           r >= b \/ q * v2 <= r * b + x3
    PROVE  q \in {d, d + 1}
<1>1. /\ X \in Nat /\ V \in Nat /\ d \in Nat /\ W \in Nat \ {0} /\ b \in Nat \ {0}
      /\ v1 \in Nat \ {0} /\ N \in Nat /\ x3 \in Nat /\ v2 \in Nat /\ v2 < b
      /\ N * b \in Nat /\ v1 * b \in Nat
  BY EstimatingRule
<1>2. q \in Nat /\ r \in Nat /\ N = q * v1 + r
  BY DEF Estimated
<1>3. q * v2 <= r * b + x3
  <2>1. CASE r >= b
    <3>1. q * v2 <= b * v2 /\ v2 * b <= b * b /\ v2 * b = b * v2
      <4>1. v2 <= b
        BY <1>1
      <4> QED BY <1>1, <1>2, <4>1, ProductsOrder
    <3>2. b * b <= r * b
      BY <1>1, <1>2, <2>1, ProductsOrder
    <3>3. q * v2 \in Nat /\ b * v2 \in Nat /\ b * b \in Nat /\ r * b \in Nat
      BY <1>1, <1>2, ProductsOrder
    <3>4. PICK e \in Nat, f \in Nat : e = q * v2 /\ f = b * v2
      BY <3>3
    <3>5. PICK g \in Nat, h \in Nat : g = b * b /\ h = r * b
      BY <3>3
    <3> QED BY <1>1, <3>1, <3>2, <3>4, <3>5
  <2> QED BY <2>1
<1>4. PICK T \in Nat : T = v1 * b + v2
  BY <1>1
<1>5. T >= b
  <2>1. 1 * b <= v1 * b
    BY <1>1, ProductsOrder
  <2> QED BY <1>1, <1>4, <2>1
<1>6. q * T <= N * b + x3
  <2>1. \A x, y, z, t, s \in Nat : /\ x * (y * z + t) = (x * y) * z + x * t
                                   /\ (x * y + s) * z = (x * y) * z + s * z
                                   /\ (x * y) * z \in Nat /\ x * t \in Nat /\ s * z \in Nat
    OBVIOUS
  <2>2. /\ q * T = (q * v1) * b + q * v2 /\ N * b = (q * v1) * b + r * b
        /\ (q * v1) * b \in Nat /\ q * v2 \in Nat /\ r * b \in Nat
    BY <1>1, <1>2, <1>4, <2>1
  <2>3. PICK e \in Nat : e = (q * v1) * b
    BY <2>2
  <2>4. PICK f \in Nat, g \in Nat : f = q * v2 /\ g = r * b
    BY <2>2
  <2> QED BY <1>1, <1>3, <2>2, <2>3, <2>4
<1>7. ASSUME q > d + 1 PROVE FALSE
  <2>1. PICK k \in Nat : q = k + 1 /\ d + 1 <= k
    <3>1. q - 1 \in Nat /\ q = (q - 1) + 1 /\ d + 1 <= q - 1
      BY <1>1, <1>2, <1>7
    <3> QED BY <3>1
  <2>2. X < k * V
    <3>1. X < (d + 1) * V
      BY EstimatingRule
    <3>2. (d + 1) * V <= k * V
      <4>1. d + 1 \in Nat
        BY <1>1
      <4> QED BY <1>1, <2>1, <4>1, ProductsOrder
    <3>3. PICK e \in Nat : e = (d + 1) * V
      <4>1. d + 1 \in Nat
        BY <1>1
      <4> QED BY <1>1, <4>1, ProductsOrder
    <3>4. PICK f \in Nat : f = k * V
      BY <1>1, <2>1, ProductsOrder
    <3> QED BY <1>1, <3>1, <3>2, <3>3, <3>4
  <2>3. (q * T) * W <= X
    <3>1. q * T \in Nat /\ N * b + x3 \in Nat
      BY <1>1, <1>2, <1>4, ProductsOrder
    <3>2. (q * T) * W <= (N * b + x3) * W
      BY <1>1, <1>6, <3>1, ProductsOrder
    <3>3. (N * b + x3) * W <= X
      BY EstimatingRule
    <3>4. PICK e \in Nat : e = (q * T) * W
      BY <1>1, <3>1, ProductsOrder
    <3>5. PICK f \in Nat : f = (N * b + x3) * W
      BY <1>1, <3>1, ProductsOrder
    <3> QED BY <1>1, <3>2, <3>3, <3>4, <3>5
  <2>4. k * V <= (k * (T + 1)) * W
    <3>1. V < (T + 1) * W
      BY <1>4, EstimatingRule
    <3>2. T + 1 \in Nat /\ (T + 1) * W \in Nat
      BY <1>1, <1>4
    <3>3. PICK e \in Nat : e = (T + 1) * W
      BY <3>2
    <3>4. V <= e
      BY <1>1, <3>1, <3>3
    <3>5. V * k <= e * k /\ V * k = k * V
      BY <1>1, <2>1, <3>4, ProductsOrder
    <3>6. \A x, y, z \in Nat : (x * y) * z = (y * z) * x
      OBVIOUS
    <3>7. (k * (T + 1)) * W = e * k
      BY <1>1, <2>1, <3>2, <3>3, <3>6
    <3> QED BY <3>5, <3>7
  <2>5. (q * T) * W < (k * (T + 1)) * W
    <3>1. q * T \in Nat /\ k * (T + 1) \in Nat
      BY <1>1, <1>2, <1>4, <2>1, ProductsOrder
    <3>2. PICK e \in Nat : e = (q * T) * W
      BY <1>1, <3>1, ProductsOrder
    <3>3. PICK f \in Nat : f = (k * (T + 1)) * W
      BY <1>1, <3>1, ProductsOrder
    <3>4. PICK g \in Nat : g = k * V
      BY <1>1, <2>1, ProductsOrder
    <3> QED BY <1>1, <2>2, <2>3, <2>4, <3>2, <3>3, <3>4
  <2>6. q * T < k * (T + 1)
    <3>1. q * T \in Nat /\ k * (T + 1) \in Nat
      BY <1>1, <1>2, <1>4, <2>1, ProductsOrder
    <3>2. \A x, y, z \in Nat : x * z < y * z => x < y
      BY ProductsOrder
    <3> QED BY <1>1, <2>5, <3>1, <3>2
  <2>7. \A x, y \in Nat : (x + 1) * y = x * y + y /\ x * (y + 1) = x * y + x /\ x * y \in Nat
    OBVIOUS
  <2>8. q * T = k * T + T /\ k * (T + 1) = k * T + k /\ k * T \in Nat
    BY <1>4, <2>1, <2>7
  <2>9. T < k
    BY <1>4, <2>1, <2>6, <2>8
  <2> QED BY <1>1, <1>2, <1>4, <1>5, <2>1, <2>9
<1> QED BY <1>1, <1>2, <1>7

-----------------------------------------------------------------------------
(* Long division, in limbs: the window of a digit, and what is stored in it. *)

\* x are the k limbs of w from place i up.
Cutout(x, w, i, k) ==
    /\ x \in Seq(Limb) /\ Len(x) = k
    /\ \A j \in 0 .. k - 1 : x[j + 1] = w[i + j + 1] /\ x[j + 1] = At(w, i + j)

\* The limbs of w from place i up.
LEMMA WindowLimbs ==
    ASSUME NEW w \in Seq(Limb), NEW i \in Nat, NEW k \in Nat, i + k <= Len(w),
           NEW x, x = SubSeq(w, i + 1, i + k)
    PROVE  Cutout(x, w, i, k)
<1>1. Len(w) \in Nat
  OBVIOUS
<1>2. PICK m \in Nat : m = Len(w)
  BY <1>1
<1>3. Len(x) = k
  BY <1>2
<1>4. \A j \in 1 .. k : x[j] = w[i + j]
  <2> TAKE j \in 1 .. k
  <2>1. x[j] = w[(i + 1) + j - 1]
    BY <1>2
  <2>2. (i + 1) + j - 1 = i + j
    OBVIOUS
  <2> QED BY <2>1, <2>2
<1>5. x \in Seq(Limb)
  BY <1>2
<1>6. ASSUME NEW j \in 0 .. k - 1
      PROVE  x[j + 1] = w[i + j + 1] /\ x[j + 1] = At(w, i + j)
  <2>1. j + 1 \in 1 .. k /\ i + (j + 1) = i + j + 1
    OBVIOUS
  <2>2. x[j + 1] = w[i + j + 1]
    BY <1>4, <2>1
  <2>3. i + j < Len(w)
    BY <1>2
  <2> QED BY <2>2, <2>3 DEF At
<1> QED BY <1>3, <1>5, <1>6 DEF Cutout

\* n limbs s for the window of w at place i, with a limb above them.
Storing(s, w, i, n) ==
    /\ w \in Seq(Limb) /\ s \in Seq(Limb) /\ i \in Nat /\ n \in Nat
    /\ Len(s) = n /\ i + n < Len(w)

\* r is w with the limbs s and c in place of x.
InPlaceOf(r, w, s, c, i, m, x) ==
    /\ r \in Seq(Limb) /\ Len(r) = Len(w)
    /\ WordsValue(r) = WordsValue(w) + Weight(i) * ((WordsValue(s) + c * Weight(m)) - WordsValue(x))

\* Limbs stored in a window add to the number what they add to the window.
LEMMA WindowStored ==
    ASSUME NEW w, NEW s, NEW c \in Limb, NEW i, NEW m, Storing(s, w, i, m),
           NEW r, r = Placed(w, i, s, c), NEW x, x = SubSeq(w, i + 1, i + m + 1)
    PROVE  InPlaceOf(r, w, s, c, i, m, x)
<1>0. /\ w \in Seq(Limb) /\ s \in Seq(Limb) /\ i \in Nat /\ m \in Nat
      /\ Len(s) = m /\ i + m < Len(w)
  BY DEF Storing
<1>1. RowGiven(r, w, s, c, i, m)
  BY <1>0 DEF RowGiven
<1>2. r \in Seq(Limb) /\ Len(r) = Len(w) /\ RowStored(r, w, s, c, i, m)
  BY <1>1, RowLimbs
<1>3. PICK z : z = [k \in Nat |-> At(w, i + k)]
  OBVIOUS
<1>4. z \in [Nat -> Int] /\ \A k \in Nat : z[k] = At(w, i + k)
  <2>1. \A k \in Nat : At(w, i + k) \in Int
    <3> TAKE k \in Nat
    <3>1. i + k \in Nat
      BY <1>0
    <3> QED BY <1>0, <3>1, LimbsAreIntegers
  <2> QED BY <1>3, <2>1
<1>5. RowFits(r, w, s, c, i, m, z)
  BY <1>0, <1>2, <1>4 DEF RowFits
<1>6. WordsValue(r) = WordsValue(w) + Weight(i) * ((WordsValue(s) + c * Weight(m)) - Value(z, m + 1))
  BY <1>5, RowValue
<1>7. Value(z, m + 1) = WordsValue(x)
  <2>1. PICK k \in Nat : k = m + 1
    BY <1>0
  <2>2. i + k <= Len(w) /\ x = SubSeq(w, i + 1, i + k)
    <3>1. i + m + 1 = i + k
      BY <1>0, <2>1
    <3>2. PICK l \in Nat : l = Len(w)
      BY <1>0
    <3> QED BY <1>0, <2>1, <3>1, <3>2
  <2>3. x \in Seq(Limb) /\ Len(x) = k /\ \A j \in 0 .. k - 1 : x[j + 1] = At(w, i + j)
    <3>1. Cutout(x, w, i, k)
      BY <1>0, <2>1, <2>2, WindowLimbs
    <3> QED BY <3>1 DEF Cutout
  <2>4. x \in Seq(Int)
    BY <2>3, LimbsAreIntegers
  <2>5. \A j \in 0 .. Len(x) - 1 : x[j + 1] = z[j]
    <3>1. ASSUME NEW j \in 0 .. k - 1 PROVE x[j + 1] = z[j]
      <4>1. j \in Nat
        OBVIOUS
      <4>2. x[j + 1] = At(w, i + j)
        BY <2>3
      <4> QED BY <1>4, <4>1, <4>2
    <3> QED BY <2>3, <3>1
  <2> QED BY <1>4, <2>1, <2>3, <2>4, <2>5, ValueOfPlaces
<1> QED BY <1>2, <1>6, <1>7 DEF InPlaceOf

\* What the places below n of limbs are worth is below the weight of n.
LEMMA LowBound ==
    ASSUME NEW w \in Seq(Limb), NEW n \in Nat
    PROVE  Value(Places(w), n) \in Nat /\ Value(Places(w), n) < Weight(n)
<1>1. Places(w) \in [Nat -> Int]
  BY LimbsAreIntegers, PlacesOfWords
<1>2. \A k \in Nat : Places(w)[k] \in Limb
  BY LimbsAreIntegers DEF Places
<1>3. \A k \in 0 .. n - 1 : Places(w)[k] \in 0 .. Base - 1
  BY <1>2 DEF Limb
<1>4. Value(Places(w), n) \in 0 .. Weight(n) - 1
  BY <1>1, <1>3, BaseRule, PlacesBound DEF Value, Weight
<1>5. Weight(n) \in Nat
  BY WeightRule
<1> QED BY <1>4, <1>5

\* A number below the weight of the window's end is the window and what is below it.
LEMMA WindowAlone ==
    ASSUME NEW w \in Seq(Limb), NEW i \in Nat, NEW k \in Nat, i + k <= Len(w),
           WordsValue(w) < Weight(i + k), NEW x, x = SubSeq(w, i + 1, i + k)
    PROVE  \E lo \in Nat : lo < Weight(i) /\ WordsValue(w) = lo + Weight(i) * WordsValue(x)
<1>1. x \in Seq(Limb) /\ Len(x) = k /\ \A j \in 0 .. k - 1 : x[j + 1] = At(w, i + j)
  <2>1. Cutout(x, w, i, k)
    BY WindowLimbs
  <2> QED BY <2>1 DEF Cutout
<1>2. /\ Places(w) \in [Nat -> Int] /\ \A j \in Nat : Places(w)[j] = At(w, j)
      /\ Places(x) \in [Nat -> Int] /\ \A j \in 0 .. k - 1 : Places(x)[j] = x[j + 1]
      /\ WordsValue(x) = Value(Places(x), k)
  BY <1>1, LimbsAreIntegers, PlacesOfWords
<1>3. Above(Places(x), Places(w), i, k)
  <2>1. ASSUME NEW j \in 0 .. k - 1 PROVE Places(x)[j] = Places(w)[i + j]
    <3>1. i + j \in Nat
      OBVIOUS
    <3> QED BY <1>1, <1>2, <3>1
  <2> QED BY <2>1 DEF Above
<1>4. Value(Places(w), i + k) = Value(Places(w), i) + Weight(i) * WordsValue(x)
  <2>1. PICK p, q : p = Places(w) /\ q = Places(x)
    OBVIOUS
  <2>2. p \in [Nat -> Int] /\ q \in [Nat -> Int] /\ Above(q, p, i, k)
    BY <1>2, <1>3, <2>1
  <2>3. Value(p, i + k) = Value(p, i) + Weight(i) * Value(q, k)
    BY <2>2, ValueSplit
  <2> QED BY <1>2, <2>1, <2>3
<1>5. i + k \in Nat
  OBVIOUS
<1>6. Value(Places(w), i + k) = WordsValue(w)
  BY <1>5, LowPlaces
<1> QED BY <1>4, <1>6, LowBound

\* The topmost limbs.
LEMMA TopTwo ==
    ASSUME NEW x \in Seq(Limb), NEW k \in Nat, Len(x) = k + 2
    PROVE  \E l \in Nat : l < Weight(k)
             /\ WordsValue(x) = (x[k + 2] * Base + x[k + 1]) * Weight(k) + l
<1>1. /\ Places(x) \in [Nat -> Int] /\ \A j \in 0 .. (k + 2) - 1 : Places(x)[j] = x[j + 1]
      /\ WordsValue(x) = Value(Places(x), k + 2)
  BY LimbsAreIntegers, PlacesOfWords
<1>2. /\ Value(Places(x), k + 1) = Value(Places(x), k) + Places(x)[k] * Weight(k)
      /\ Value(Places(x), (k + 1) + 1) = Value(Places(x), k + 1) + Places(x)[k + 1] * Weight(k + 1)
  <2>1. k \in Nat /\ k + 1 \in Nat
    OBVIOUS
  <2>2. PICK p \in [Nat -> Int] : p = Places(x)
    BY <1>1
  <2>3. \A j \in Nat : Value(p, j + 1) = Value(p, j) + p[j] * Weight(j)
    BY ValueRule
  <2> QED BY <2>1, <2>2, <2>3
<1>3. Places(x)[k] = x[k + 1] /\ Places(x)[k + 1] = x[k + 2]
  <2>1. k \in 0 .. (k + 2) - 1 /\ k + 1 \in 0 .. (k + 2) - 1 /\ (k + 1) + 1 = k + 2
    OBVIOUS
  <2> QED BY <1>1, <2>1
<1>4. Weight(k + 1) = Base * Weight(k) /\ Weight(k) \in Nat /\ Base \in Nat
  BY WeightRule, BaseRule
<1>5. x[k + 1] \in Nat /\ x[k + 2] \in Nat
  <2>1. k + 1 \in 1 .. Len(x) /\ k + 2 \in 1 .. Len(x)
    OBVIOUS
  <2>2. x[k + 1] \in Limb /\ x[k + 2] \in Limb
    BY <2>1
  <2> QED BY <2>2, <1>4 DEF Limb
<1>6. PICK l \in Nat : l = Value(Places(x), k) /\ l < Weight(k)
  BY LowBound
<1>7. \A a, b, c, d \in Nat : (a * b + c) * d = a * (b * d) + c * d
  OBVIOUS
<1>8. (x[k + 2] * Base + x[k + 1]) * Weight(k) = x[k + 2] * (Base * Weight(k)) + x[k + 1] * Weight(k)
  BY <1>4, <1>5, <1>7
<1>9. x[k + 1] * Weight(k) \in Nat /\ x[k + 2] * (Base * Weight(k)) \in Nat
  BY <1>4, <1>5
<1>10. (k + 1) + 1 = k + 2
  OBVIOUS
<1>11. WordsValue(x) = (x[k + 2] * Base + x[k + 1]) * Weight(k) + l
  BY <1>1, <1>2, <1>3, <1>4, <1>6, <1>8, <1>9, <1>10
<1> QED BY <1>6, <1>11

\* One more.
LEMMA TopThree ==
    ASSUME NEW x \in Seq(Limb), NEW k \in Nat, Len(x) = k + 3
    PROVE  \E l \in Nat : l < Weight(k)
             /\ WordsValue(x) = ((x[k + 3] * Base + x[k + 2]) * Base + x[k + 1]) * Weight(k) + l
<1>1. PICK m \in Nat : m = k + 1
  OBVIOUS
<1>2. Len(x) = m + 2 /\ k + 2 = m + 1 /\ k + 3 = m + 2
  BY <1>1
<1>3. PICK l \in Nat : l < Weight(m) /\ WordsValue(x) = (x[k + 3] * Base + x[k + 2]) * Weight(m) + l
  BY <1>1, <1>2, TopTwo
<1>4. Weight(m) = Base * Weight(k) /\ Weight(k) \in Nat \ {0} /\ Base \in Nat
  BY <1>1, WeightRule, BaseRule
<1>5. x[k + 1] \in Limb /\ x[k + 2] \in Limb /\ x[k + 3] \in Limb
  <2>1. k + 1 \in 1 .. Len(x) /\ k + 2 \in 1 .. Len(x) /\ k + 3 \in 1 .. Len(x)
    OBVIOUS
  <2> QED BY <2>1
<1>6. x[k + 1] \in Nat /\ x[k + 2] \in Nat /\ x[k + 3] \in Nat
  BY <1>4, <1>5 DEF Limb
<1>7. PICK N \in Nat : N = x[k + 3] * Base + x[k + 2]
  BY SMTT(20), <1>4, <1>6
<1>8. l = x[k + 1] * Weight(k) + Value(Places(x), k)
  <2>1. /\ Places(x) \in [Nat -> Int] /\ \A j \in 0 .. (k + 3) - 1 : Places(x)[j] = x[j + 1]
        /\ WordsValue(x) = Value(Places(x), k + 3)
    BY LimbsAreIntegers, PlacesOfWords
  <2>2. /\ Value(Places(x), k + 1) = Value(Places(x), k) + Places(x)[k] * Weight(k)
        /\ Value(Places(x), (k + 1) + 1) = Value(Places(x), k + 1) + Places(x)[k + 1] * Weight(k + 1)
        /\ Value(Places(x), (k + 2) + 1) = Value(Places(x), k + 2) + Places(x)[k + 2] * Weight(k + 2)
    <3>1. k \in Nat /\ k + 1 \in Nat /\ k + 2 \in Nat
      OBVIOUS
    <3>2. PICK p \in [Nat -> Int] : p = Places(x)
      BY <2>1
    <3>3. \A j \in Nat : Value(p, j + 1) = Value(p, j) + p[j] * Weight(j)
      BY ValueRule
    <3> QED BY <3>1, <3>2, <3>3
  <2>3. Places(x)[k] = x[k + 1] /\ Places(x)[k + 1] = x[k + 2] /\ Places(x)[k + 2] = x[k + 3]
    <3>1. k \in 0 .. (k + 3) - 1 /\ k + 1 \in 0 .. (k + 3) - 1 /\ k + 2 \in 0 .. (k + 3) - 1
      OBVIOUS
    <3>2. (k + 1) + 1 = k + 2 /\ (k + 2) + 1 = k + 3
      OBVIOUS
    <3> QED BY <2>1, <3>1, <3>2
  <2>4. (k + 1) + 1 = k + 2 /\ (k + 2) + 1 = k + 3
    OBVIOUS
  <2>5. Weight(k + 2) = Base * Weight(m) /\ Weight(k + 1) = Weight(m) /\ Weight(m) \in Nat
    BY <1>1, <2>4, WeightRule
  <2>6. \A a, b, c, d \in Nat : (a * b + c) * d = a * (b * d) + c * d /\ a * (b * d) \in Nat /\ c * d \in Nat
    OBVIOUS
  <2>7. PICK e \in Nat : e = x[k + 3] * (Base * Weight(m))
    BY <1>4, <1>6, <2>5, <2>6
  <2>8. PICK f \in Nat : f = x[k + 2] * Weight(m)
    BY <1>6, <2>5
  <2>9. (x[k + 3] * Base + x[k + 2]) * Weight(m) = e + f
    <3>1. PICK a \in Nat, b \in Nat, c \in Nat, d \in Nat :
               a = x[k + 3] /\ b = Base /\ c = x[k + 2] /\ d = Weight(m)
      BY <1>4, <1>6, <2>5
    <3>2. (a * b + c) * d = a * (b * d) + c * d
      BY <2>6
    <3> QED BY <2>7, <2>8, <3>1, <3>2
  <2>10. PICK g \in Nat : g = x[k + 1] * Weight(k)
    BY <1>4, <1>6
  <2>11. PICK v \in Nat : v = Value(Places(x), k)
    BY LowBound
  <2>12. Value(Places(x), k + 1) = v + g
    BY <2>2, <2>3, <2>10, <2>11
  <2>13. Value(Places(x), k + 2) = v + g + f
    BY <2>2, <2>3, <2>4, <2>5, <2>8, <2>12
  <2>14. Value(Places(x), k + 3) = v + g + f + e
    BY <2>2, <2>3, <2>4, <2>5, <2>7, <2>13
  <2>15. WordsValue(x) = v + g + f + e /\ WordsValue(x) = (e + f) + l
    BY <1>3, <2>1, <2>9, <2>14
  <2>16. l = g + v
    BY <1>3, <2>15
  <2> QED BY <2>10, <2>11, <2>16
<1>9. PICK v \in Nat : v = Value(Places(x), k) /\ v < Weight(k)
  BY LowBound
<1>10. \A a, b, c, d \in Nat : (a * b + c) * d = a * (b * d) + c * d /\ c * d \in Nat /\ a * (b * d) \in Nat
  OBVIOUS
<1>11. /\ (N * Base + x[k + 1]) * Weight(k) = N * Weight(m) + x[k + 1] * Weight(k)
       /\ N * Weight(m) \in Nat /\ x[k + 1] * Weight(k) \in Nat
  <2>1. PICK b \in Nat, c \in Nat, d \in Nat : b = Base /\ c = x[k + 1] /\ d = Weight(k)
    BY <1>4, <1>6
  <2>2. (N * b + c) * d = N * (b * d) + c * d /\ c * d \in Nat /\ N * (b * d) \in Nat
    BY <1>10
  <2> QED BY <1>4, <2>1, <2>2
<1>12. WordsValue(x) = (N * Base + x[k + 1]) * Weight(k) + v
  BY <1>3, <1>7, <1>8, <1>9, <1>11
<1> QED BY <1>7, <1>9, <1>12

\* r is w with the n + 1 limbs from place i up worth Y.
Replaced(r, w, i, n, Y) ==
    /\ r \in Seq(Limb) /\ Len(r) = Len(w) /\ Y \in Nat /\ Y < Weight(n + 1)
    /\ WordsValue(r) = WordsValue(w) + Weight(i) * (Y - WordsValue(SubSeq(w, i + 1, i + n + 1)))

\* The limb at place k and the carry c into it.
Carried(high, w, k, c) == c \in Int /\ high = At(w, k) + c

\* What the loops of a subtraction and of an addition leave.
Less(s, w, y, i, n, q) == s = Ripple([k \in Nat |-> At(w, i + k) - q * At(y, k)], n)
More(s, w, y, i, n) == s = AddWords(SubSeq(w, i + 1, i + n), y, n)

\* The limbs s and what comes above them are worth Y and what does not fit.
Amounts(s, high, n, Y) == WordsValue(s) + high * Weight(n) = Y + High(high) * Weight(n + 1)

\* The limbs s and the carry c out of them, stored over a window.
LEMMA WindowSet ==
    ASSUME NEW w, NEW s, NEW c, NEW i, NEW n, Storing(s, w, i, n),
           NEW high, Carried(high, w, i + n, c)
    PROVE  \E Y \in Nat :
             /\ Replaced(Placed(w, i, s, Low(high)), w, i, n, Y)
             /\ Amounts(s, high, n, Y)
<1>0. /\ w \in Seq(Limb) /\ s \in Seq(Limb) /\ i \in Nat /\ n \in Nat
      /\ Len(s) = n /\ i + n < Len(w)
  BY DEF Storing
<1>1. At(w, i + n) \in Nat
  <2>1. i + n \in Nat
    BY <1>0
  <2> QED BY <1>0, <2>1, LimbsAreIntegers
<1>2. high \in Int
  BY <1>1 DEF Carried
<1>3. PICK t \in Nat, h \in Int : /\ t = Low(high) /\ h = High(high) /\ Low(high) \in Limb
                                  /\ high = Base * h + t
  BY <1>2, LowHigh
<1>4. /\ Weight(n) \in Nat \ {0} /\ Weight(n + 1) = Base * Weight(n) /\ Base \in Nat
      /\ WordsValue(s) \in Nat /\ WordsValue(s) < Weight(n)
  BY <1>0, WeightRule, BaseRule, WordsBound
<1>5. PICK W \in Nat \ {0}, B \in Nat, S \in Nat : W = Weight(n) /\ B = Base /\ S = WordsValue(s)
  BY <1>4
<1>6. t < B
  BY <1>3, <1>5 DEF Limb
<1>7. PICK Y \in Nat : Y = S + t * W
  <2>1. t * W \in Nat
    BY <1>3, <1>5, ProductsOrder
  <2> QED BY <1>5, <2>1
<1>8. Y < Weight(n + 1)
  <2>1. t + 1 \in Nat /\ t + 1 <= B
    BY <1>3, <1>5, <1>6
  <2>2. (t + 1) * W <= B * W
    BY <1>5, <2>1, ProductsOrder
  <2>3. (t + 1) * W = t * W + W
    BY <1>3, <1>5
  <2>4. PICK e \in Nat, f \in Nat : e = t * W /\ f = B * W
    BY <1>3, <1>5, ProductsOrder
  <2>5. e + W <= f
    BY <2>2, <2>3, <2>4
  <2>6. Weight(n + 1) = f /\ Y = S + e /\ S < W
    BY <1>4, <1>5, <1>7, <2>4
  <2> QED BY <1>5, <2>5, <2>6
<1>9. WordsValue(s) + high * Weight(n) = Y + High(high) * Weight(n + 1)
  <2>1. \A a, b, d, e \in Int : (a * b + d) * e = b * (a * e) + d * e
    OBVIOUS
  <2>2. (B * h + t) * W = h * (B * W) + t * W
    BY <1>3, <1>5, <2>1
  <2>3. h * (B * W) \in Int /\ t * W \in Int
    BY <1>3, <1>5
  <2>4. PICK u \in Int, v \in Int : u = h * (B * W) /\ v = t * W
    BY <2>3
  <2>5. /\ high * Weight(n) = u + v /\ Y = S + v
        /\ High(high) * Weight(n + 1) = u /\ WordsValue(s) = S
    <3>1. high * Weight(n) = (B * h + t) * W
      BY <1>3, <1>5
    <3>2. High(high) * Weight(n + 1) = h * (B * W)
      BY <1>3, <1>4, <1>5
    <3> QED BY <1>5, <1>7, <2>2, <2>4, <3>1, <3>2
  <2> QED BY <2>5
<1>10. PICK r, x : r = Placed(w, i, s, Low(high)) /\ x = SubSeq(w, i + 1, i + n + 1)
  OBVIOUS
<1>11. /\ r \in Seq(Limb) /\ Len(r) = Len(w)
       /\ WordsValue(r) = WordsValue(w) + Weight(i) * ((WordsValue(s) + t * Weight(n)) - WordsValue(x))
  <2>1. t \in Limb /\ r = Placed(w, i, s, t)
    BY <1>3, <1>10
  <2>2. Storing(s, w, i, n)
    BY <1>0 DEF Storing
  <2>3. InPlaceOf(r, w, s, t, i, n, x)
    BY <1>10, <2>1, <2>2, WindowStored
  <2> QED BY <2>3 DEF InPlaceOf
<1>12. Replaced(r, w, i, n, Y)
  BY <1>3, <1>5, <1>7, <1>8, <1>10, <1>11 DEF Replaced
<1> QED BY <1>7, <1>9, <1>10, <1>12 DEF Amounts

\* A window is its low limbs and the one above them.
LEMMA WindowSplit ==
    ASSUME NEW w \in Seq(Limb), NEW i \in Nat, NEW n \in Nat, i + n < Len(w)
    PROVE  \E z \in [Nat -> Int] :
             /\ \A k \in Nat : z[k] = At(w, i + k)
             /\ WordsValue(SubSeq(w, i + 1, i + n + 1)) = Value(z, n) + At(w, i + n) * Weight(n)
<1>1. PICK z : z = [k \in Nat |-> At(w, i + k)]
  OBVIOUS
<1>2. z \in [Nat -> Int] /\ \A k \in Nat : z[k] = At(w, i + k)
  <2>1. \A k \in Nat : At(w, i + k) \in Int
    <3> TAKE k \in Nat
    <3>1. i + k \in Nat
      OBVIOUS
    <3> QED BY <3>1, LimbsAreIntegers
  <2> QED BY <1>1, <2>1
<1>3. PICK m \in Nat : m = n + 1
  OBVIOUS
<1>4. PICK x : x = SubSeq(w, i + 1, i + m)
  OBVIOUS
<1>5. i + m <= Len(w)
  <2>1. PICK l \in Nat : l = Len(w)
    OBVIOUS
  <2> QED BY <1>3, <2>1
<1>6. x \in Seq(Limb) /\ Len(x) = m /\ \A j \in 0 .. m - 1 : x[j + 1] = At(w, i + j)
  <2>1. Cutout(x, w, i, m)
    BY <1>4, <1>5, WindowLimbs
  <2> QED BY <2>1 DEF Cutout
<1>7. WordsValue(x) = Value(z, m)
  <2>1. x \in Seq(Int)
    BY <1>6, LimbsAreIntegers
  <2>2. \A j \in 0 .. Len(x) - 1 : x[j + 1] = z[j]
    <3>1. ASSUME NEW j \in 0 .. m - 1 PROVE x[j + 1] = z[j]
      <4>1. j \in Nat
        OBVIOUS
      <4>2. x[j + 1] = At(w, i + j)
        BY <1>6
      <4> QED BY <1>2, <4>1, <4>2
    <3> QED BY <1>6, <3>1
  <2> QED BY <1>2, <1>6, <2>1, <2>2, ValueOfPlaces
<1>8. Value(z, m) = Value(z, n) + At(w, i + n) * Weight(n)
  BY <1>2, <1>3, ValueRule
<1>9. i + n + 1 = i + m
  BY <1>3
<1> QED BY <1>2, <1>4, <1>7, <1>8, <1>9

\* Places that are the sum of some and of a multiple of others.
Linear(p, z, g, e, n) ==
    /\ p \in [Nat -> Int] /\ z \in [Nat -> Int] /\ g \in [Nat -> Int] /\ e \in Int /\ n \in Nat
    /\ Combined(p, z, g, e, n)

\* What they are worth.
LEMMA LinearValue ==
    ASSUME NEW p, NEW z, NEW g, NEW e, NEW n, Linear(p, z, g, e, n)
    PROVE  Value(p, n) = Value(z, n) + e * Value(g, n)
<1>1. /\ p \in [Nat -> Int] /\ z \in [Nat -> Int] /\ g \in [Nat -> Int] /\ e \in Int /\ n \in Nat
      /\ Combined(p, z, g, e, n)
  BY DEF Linear
<1> QED BY <1>1, ValueLinear

\* A multiple subtracted from a window.
LEMMA MultipleSubtracted ==
    ASSUME NEW w \in Seq(Limb), NEW y \in Seq(Limb), NEW i \in Nat, NEW n \in Nat, Len(y) = n,
           i + n < Len(w), NEW q \in Nat,
           NEW s, Less(s, w, y, i, n, q), NEW high, Carried(high, w, i + n, s.carry)
    PROVE  /\ high \in Int
           /\ \E Y \in Nat :
                /\ Replaced(Placed(w, i, s.w, Low(high)), w, i, n, Y)
                /\ WordsValue(SubSeq(w, i + 1, i + n + 1)) - q * WordsValue(y)
                     = Y + High(high) * Weight(n + 1)
<1>1. PICK z \in [Nat -> Int] :
        /\ \A k \in Nat : z[k] = At(w, i + k)
        /\ WordsValue(SubSeq(w, i + 1, i + n + 1)) = Value(z, n) + At(w, i + n) * Weight(n)
  BY ZenonT(40), WindowSplit
<1>2. PICK p : p = [k \in Nat |-> At(w, i + k) - q * At(y, k)]
  OBVIOUS
<1>3. PICK g : g = Places(y)
  OBVIOUS
<1>4. /\ g \in [Nat -> Int] /\ \A k \in Nat : g[k] = At(y, k)
      /\ WordsValue(y) = Value(g, n)
  BY <1>3, LimbsAreIntegers, PlacesOfWords
<1>5. p \in [Nat -> Int] /\ \A k \in Nat : p[k] = z[k] + (- q) * g[k]
  <2>1. ASSUME NEW k \in Nat
        PROVE  At(w, i + k) - q * At(y, k) \in Int /\ At(w, i + k) - q * At(y, k) = z[k] + (- q) * g[k]
    <3>1. PICK a \in Int : a = z[k] /\ a = At(w, i + k)
      BY <1>1
    <3>2. PICK b \in Int : b = g[k] /\ b = At(y, k)
      BY <1>4
    <3>3. a - q * b \in Int /\ a - q * b = a + (- q) * b
      OBVIOUS
    <3> QED BY <3>1, <3>2, <3>3
  <2> QED BY <1>2, <2>1
<1>6. Combined(p, z, g, - q, n)
  BY <1>5 DEF Combined
<1>7. - q \in Int
  OBVIOUS
<1>8. Value(p, n) = Value(z, n) + (- q) * WordsValue(y)
  <2>1. p \in [Nat -> Int] /\ g \in [Nat -> Int]
    BY <1>4, <1>5
  <2>2. PICK e \in Int : e = - q
    BY <1>7
  <2>3. Combined(p, z, g, e, n)
    BY <1>6, <2>2
  <2>4. Value(p, n) = Value(z, n) + e * Value(g, n)
    <3>1. Linear(p, z, g, e, n)
      BY <2>1, <2>2, <2>3 DEF Linear
    <3> QED BY <3>1, LinearValue
  <2> QED BY <1>4, <2>2, <2>4
<1>9. /\ s.w \in Seq(Limb) /\ Len(s.w) = n /\ s.carry \in Int
      /\ Value(p, n) = WordsValue(s.w) + s.carry * Weight(n)
  <2>1. \A k \in Nat : \A c \in Int : High(p[k] + c) \in Int
    <3> TAKE k \in Nat
    <3> TAKE c \in Int
    <3>1. p[k] \in Int
      BY <1>5
    <3>2. PICK x \in Int : x = p[k]
      BY <3>1
    <3>3. x + c \in Int
      OBVIOUS
    <3> QED BY <3>2, <3>3, LowHigh
  <2>2. Int \subseteq Int /\ 0 \in Int /\ s = Ripple(p, n)
    BY <1>2 DEF Less
  <2> QED BY <1>5, <2>1, <2>2, RippleExact
<1>10. PICK t \in Nat : t = At(w, i + n)
  <2>1. i + n \in Nat
    OBVIOUS
  <2> QED BY <2>1, LimbsAreIntegers
<1>11. PICK c \in Int : c = s.carry
  BY <1>9
<1>12. high = t + c /\ high \in Int
  BY <1>10, <1>11 DEF Carried
<1>13. PICK Y \in Nat : /\ Replaced(Placed(w, i, s.w, Low(high)), w, i, n, Y)
                        /\ Amounts(s.w, high, n, Y)
  <2>1. Carried(high, w, i + n, c)
    BY <1>11
  <2>2. s.w \in Seq(Limb) /\ Len(s.w) = n
    BY <1>9
  <2>3. Storing(s.w, w, i, n)
    BY <2>2 DEF Storing
  <2> QED BY <2>1, <2>3, WindowSet
<1>14. WordsValue(SubSeq(w, i + 1, i + n + 1)) - q * WordsValue(y) = WordsValue(s.w) + high * Weight(n)
  <2>1. PICK W \in Nat, S \in Nat, V \in Nat : W = Weight(n) /\ S = WordsValue(s.w) /\ V = WordsValue(y)
    BY <1>9, WeightRule, WordsBound
  <2>2. PICK Z \in Int : Z = Value(z, n)
    BY <1>1, ValueRule
  <2>3. \A j, k, l \in Int : (j + k) * l = j * l + k * l /\ (- j) * k = - (j * k) /\ j * k \in Int
    OBVIOUS
  <2>4. PICK a \in Int, b \in Int, e \in Int : a = t * W /\ b = c * W /\ e = q * V
    <3>1. t * W \in Int /\ c * W \in Int /\ q * V \in Int
      BY <2>3
    <3> QED BY <3>1
  <2>5. high * Weight(n) = a + b
    BY SMTT(20), <1>12, <2>1, <2>3, <2>4
  <2>6. (- q) * WordsValue(y) = - e
    BY SMTT(20), <2>1, <2>3, <2>4
  <2>7. WordsValue(SubSeq(w, i + 1, i + n + 1)) = Z + a
    BY <1>1, <1>10, <2>1, <2>2, <2>4
  <2>8. Z - e = S + b
    BY <1>8, <1>9, <1>11, <2>1, <2>2, <2>4, <2>6
  <2>9. PICK x \in Int : x = WordsValue(SubSeq(w, i + 1, i + n + 1))
    BY <2>4, <2>7, <2>2
  <2>10. PICK f \in Int, h \in Int : f = q * WordsValue(y) /\ h = high * Weight(n)
    BY SMTT(20), <2>1, <2>4, <2>5
  <2>11. f = e /\ h = a + b /\ x = Z + a
    BY <2>1, <2>4, <2>5, <2>7, <2>9, <2>10
  <2>12. x - f = S + h
    BY <2>8, <2>11
  <2> QED BY <2>1, <2>9, <2>10, <2>12
<1>15. WordsValue(SubSeq(w, i + 1, i + n + 1)) - q * WordsValue(y) = Y + High(high) * Weight(n + 1)
  BY <1>13, <1>14 DEF Amounts
<1> QED BY <1>12, <1>13, <1>15

\* One modulus added back to a window.
LEMMA ModulusAddedBack ==
    ASSUME NEW w \in Seq(Limb), NEW y \in Seq(Limb), NEW i \in Nat, NEW n \in Nat, Len(y) = n,
           i + n < Len(w), NEW s, More(s, w, y, i, n), NEW high, Carried(high, w, i + n, s.carry)
    PROVE  \E Y \in Nat :
             /\ Replaced(Placed(w, i, s.w, Low(high)), w, i, n, Y)
             /\ High(high) \in Int
             /\ WordsValue(SubSeq(w, i + 1, i + n + 1)) + WordsValue(y)
                  = Y + High(high) * Weight(n + 1)
<1>1. PICK z \in [Nat -> Int] :
        /\ \A k \in Nat : z[k] = At(w, i + k)
        /\ WordsValue(SubSeq(w, i + 1, i + n + 1)) = Value(z, n) + At(w, i + n) * Weight(n)
  BY ZenonT(40), WindowSplit
<1>2. PICK a : a = SubSeq(w, i + 1, i + n)
  OBVIOUS
<1>3. a \in Seq(Limb) /\ Len(a) = n /\ \A j \in 0 .. n - 1 : a[j + 1] = At(w, i + j)
  <2>1. i + n <= Len(w)
    <3>1. PICK l \in Nat : l = Len(w)
      OBVIOUS
    <3> QED BY <3>1
  <2>2. Cutout(a, w, i, n)
    BY <1>2, <2>1, WindowLimbs
  <2> QED BY <2>2 DEF Cutout
<1>4. WordsValue(a) = Value(z, n)
  <2>1. a \in Seq(Int)
    BY <1>3, LimbsAreIntegers
  <2>2. \A j \in 0 .. Len(a) - 1 : a[j + 1] = z[j]
    <3>1. ASSUME NEW j \in 0 .. n - 1 PROVE a[j + 1] = z[j]
      <4>1. j \in Nat
        OBVIOUS
      <4>2. a[j + 1] = At(w, i + j)
        BY <1>3
      <4> QED BY <1>1, <4>1, <4>2
    <3> QED BY <1>3, <3>1
  <2> QED BY <1>1, <1>3, <2>1, <2>2, ValueOfPlaces
<1>5. /\ s.w \in Seq(Limb) /\ Len(s.w) = n /\ s.carry \in {0, 1}
      /\ WordsValue(a) + WordsValue(y) = WordsValue(s.w) + s.carry * Weight(n)
  <2>1. s = AddWords(a, y, n) /\ Len(a) = n /\ a \in Seq(Limb)
    BY <1>2, <1>3 DEF More
  <2>2. n >= Len(a) /\ n >= Len(y)
    BY <2>1
  <2> QED BY <2>1, <2>2, SumOfWords
<1>6. PICK t \in Nat : t = At(w, i + n)
  <2>1. i + n \in Nat
    OBVIOUS
  <2> QED BY <2>1, LimbsAreIntegers
<1>7. PICK c \in Int : c = s.carry
  BY <1>5
<1>8. high = t + c /\ high \in Int
  BY <1>6, <1>7 DEF Carried
<1>9. PICK Y \in Nat : /\ Replaced(Placed(w, i, s.w, Low(high)), w, i, n, Y)
                       /\ Amounts(s.w, high, n, Y)
  <2>1. Carried(high, w, i + n, c)
    BY <1>7
  <2>2. s.w \in Seq(Limb) /\ Len(s.w) = n
    BY <1>5
  <2>3. Storing(s.w, w, i, n)
    BY <2>2 DEF Storing
  <2> QED BY <2>1, <2>3, WindowSet
<1>10. WordsValue(SubSeq(w, i + 1, i + n + 1)) + WordsValue(y) = WordsValue(s.w) + high * Weight(n)
  <2>1. PICK W \in Nat, S \in Nat, V \in Nat : W = Weight(n) /\ S = WordsValue(s.w) /\ V = WordsValue(y)
    BY <1>5, WeightRule, WordsBound
  <2>2. PICK Z \in Int : Z = Value(z, n)
    BY <1>1, ValueRule
  <2>3. \A j, k, l \in Int : (j + k) * l = j * l + k * l /\ j * k \in Int
    OBVIOUS
  <2>4. PICK d \in Int, b \in Int : d = t * W /\ b = c * W
    <3>1. t * W \in Int /\ c * W \in Int
      BY <2>3
    <3> QED BY <3>1
  <2>5. high * Weight(n) = d + b
    BY <1>8, <2>1, <2>3, <2>4
  <2>6. WordsValue(SubSeq(w, i + 1, i + n + 1)) = Z + d
    BY <1>1, <1>6, <2>1, <2>2, <2>4
  <2>7. Z + V = S + b
    BY <1>4, <1>5, <1>7, <2>1, <2>2, <2>4
  <2>8. PICK x \in Int : x = WordsValue(SubSeq(w, i + 1, i + n + 1))
    BY <2>2, <2>4, <2>6
  <2>9. PICK h \in Int : h = high * Weight(n)
    BY <2>4, <2>5
  <2>10. h = d + b /\ x = Z + d
    BY <2>5, <2>6, <2>8, <2>9
  <2>11. x + V = S + h
    BY <2>7, <2>10
  <2> QED BY <2>1, <2>8, <2>9, <2>11
<1>11. High(high) \in Int
  BY <1>8, LowHigh
<1>12. WordsValue(SubSeq(w, i + 1, i + n + 1)) + WordsValue(y) = Y + High(high) * Weight(n + 1)
  BY <1>9, <1>10 DEF Amounts
<1> QED BY <1>9, <1>11, <1>12

-----------------------------------------------------------------------------
(* What is left of the number before, between and after the two loops of a   *)
(* digit: subtracting may go below zero by less than the modulus, and adding *)
(* the modulus back, its carry dropped, makes that good.                     *)

\* A remainder and a multiple decide the factor.
LEMMA BetweenMultiples ==
    ASSUME NEW P \in Nat \ {0}, NEW lo \in Nat, lo < P, NEW z \in Int, NEW m \in Nat
    PROVE  /\ P * z \in Int
           /\ 0 <= lo + P * z => 0 <= z
           /\ lo + P * z < m * P => z < m
           /\ 0 <= z /\ z < m => lo + P * z < m * P
<1>1. P * z \in Int /\ m * P \in Nat
  OBVIOUS
<1>2. ASSUME 0 <= lo + P * z, z < 0 PROVE FALSE
  <2>1. PICK k \in Nat : z = - (k + 1)
    <3>1. - z - 1 \in Nat /\ z = - ((- z - 1) + 1)
      BY <1>2
    <3> QED BY <3>1
  <2>2. P * z = - (P * k) - P /\ P * k \in Nat
    <3>1. \A x, y \in Int : x * (- (y + 1)) = - (x * y) - x
      OBVIOUS
    <3> QED BY <2>1, <3>1
  <2> QED BY <1>2, <2>2
<1>3. ASSUME lo + P * z < m * P, m <= z PROVE FALSE
  <2>1. z \in Nat
    BY <1>3
  <2>2. m * P <= z * P /\ z * P = P * z
    BY <1>3, <2>1, ProductsOrder
  <2>3. PICK e \in Int, f \in Nat : e = P * z /\ f = m * P
    BY <1>1
  <2> QED BY <1>3, <2>2, <2>3
<1>4. ASSUME 0 <= z, z < m PROVE lo + P * z < m * P
  <2>1. z \in Nat /\ z + 1 \in Nat /\ z + 1 <= m
    BY <1>4
  <2>2. (z + 1) * P <= m * P
    BY <2>1, ProductsOrder
  <2>3. (z + 1) * P = P * z + P
    BY <2>1
  <2>4. PICK e \in Int, f \in Nat : e = P * z /\ f = m * P
    BY <1>1
  <2> QED BY <2>2, <2>3, <2>4
<1> QED BY <1>1, <1>2, <1>3, <1>4

\* So what fits below W and what does not are unique.
LEMMA TopOfDifference ==
    ASSUME NEW W \in Nat \ {0}, NEW Y \in Nat, Y < W, NEW h \in Int, NEW k \in Int, NEW e \in Int,
           e = Y + h * W, k * W <= e, e < (k + 1) * W
    PROVE  h = k /\ Y = e - k * W
<1>1. PICK z \in Int : z = h - k
  OBVIOUS
<1>2. \A x, y, t \in Int : (x - y) * t = x * t - y * t /\ (y + 1) * t = y * t + t /\ t * (x - y) = (x - y) * t
  OBVIOUS
<1>3. W * z = h * W - k * W /\ (k + 1) * W = k * W + W
  BY <1>1, <1>2
<1>4. PICK a \in Int, b \in Int : a = h * W /\ b = k * W
  OBVIOUS
<1>5. 0 <= Y + W * z /\ Y + W * z < 1 * W
  BY <1>3, <1>4
<1>6. 0 <= z /\ z < 1
  BY <1>5, BetweenMultiples
<1>7. h = k
  BY <1>1, <1>6
<1> QED BY <1>4, <1>7

\* What is left of A once the digits from place j up are done.
Rest(U, V, A, j) ==
    /\ U \in Nat /\ V \in Nat /\ A \in Nat /\ j \in Nat
    /\ U < V * Weight(j) /\ \E k \in Nat : A = k * V + U

\* The same between a subtraction and the adding back it may need.
Half(U, V, A, j, n, under) ==
    \E R : /\ Rest(R, V, A, j) /\ n \in Nat
           /\ U = IF under THEN R + Weight(j) * (Weight(n + 1) - V) ELSE R

\* The window X of a rest, the digit d it has, and what is below it.
Digit(X, U, V, j, d, lo) ==
    /\ X \in Nat /\ lo \in Nat /\ lo < Weight(j) /\ U = lo + Weight(j) * X
    /\ IsQuotient(d, X, V)

\* A window less a multiple: Y, and h on top of it.
Subtracted(X, V, q, Y, h, n) ==
    /\ q \in Nat /\ n \in Nat /\ Y \in Nat /\ h \in Int /\ Y < Weight(n + 1) /\ V < Weight(n)
    /\ X - q * V = Y + h * Weight(n + 1)

\* Subtracting the digit, or one more, leaves the rest or falls below it by the modulus.
LEMMA DigitSubtracted ==
    ASSUME NEW U, NEW V, NEW A, NEW j \in Nat, Rest(U, V, A, j + 1),
           NEW X, NEW d, NEW lo, Digit(X, U, V, j, d, lo),
           NEW q, NEW Y, NEW h, NEW n, Subtracted(X, V, q, Y, h, n), q \in {d, d + 1}
    PROVE  Half(U + Weight(j) * (Y - X), V, A, j, n, h < 0)
<1>1. /\ U \in Nat /\ V \in Nat /\ A \in Nat /\ X \in Nat /\ lo \in Nat /\ d \in Nat
      /\ lo < Weight(j) /\ U = lo + Weight(j) * X /\ d * V <= X /\ X < (d + 1) * V
      /\ q \in Nat /\ n \in Nat /\ Y \in Nat /\ h \in Int /\ Y < Weight(n + 1) /\ V < Weight(n)
      /\ X - q * V = Y + h * Weight(n + 1)
  BY DEF Rest, Digit, IsQuotient, Subtracted
<1>2. PICK k \in Nat : A = k * V + U
  BY DEF Rest
<1>3. PICK P \in Nat \ {0}, W \in Nat \ {0} : P = Weight(j) /\ W = Weight(n + 1) /\ V < W
  <2>1. n <= n + 1 /\ n + 1 \in Nat
    BY <1>1
  <2>2. Weight(n) <= Weight(n + 1)
    BY <1>1, <2>1, WeightGrows
  <2>3. Weight(j) \in Nat \ {0} /\ Weight(n + 1) \in Nat \ {0} /\ Weight(n) \in Nat \ {0}
    BY <1>1, <2>1, WeightRule
  <2> QED BY <1>1, <2>2, <2>3
<1>4. PICK D \in Nat : D = d * V
  BY <1>1, ProductsOrder
<1>5. (d + 1) * V = D + V
  BY <1>1, <1>4
<1>6. PICK z \in Nat : z = X - D /\ z < V
  <2>1. X - D \in Nat /\ X - D < V
    BY <1>1, <1>4, <1>5
  <2> QED BY <2>1
<1>7. P * z \in Nat /\ P * X \in Nat /\ P * D \in Nat /\ P * V \in Nat /\ P * W \in Nat /\ P * Y \in Nat
  BY <1>1, <1>3, <1>4, <1>6, ProductsOrder
<1>8. PICK R \in Nat : R = lo + P * z
  BY <1>1, <1>7
<1>9. \A x, a, b, c \in Int : /\ x * (a - b) = x * a - x * b /\ x * (a + b) = x * a + x * b
                              /\ x * (a + b - c) = x * a + x * b - x * c
  OBVIOUS
<1>10. U = R + P * D
  <2>1. P * z = P * X - P * D
    BY <1>1, <1>3, <1>4, <1>6, <1>9
  <2>2. PICK a \in Nat, b \in Nat, c \in Nat : a = P * X /\ b = P * D /\ c = P * z
    BY <1>7
  <2> QED BY <1>1, <1>3, <1>8, <2>1, <2>2
<1>11. Rest(R, V, A, j)
  <2>1. R < V * Weight(j)
    <3>1. lo < P
      BY <1>1, <1>3
    <3>2. 0 <= z /\ z < V => lo + P * z < V * P
      BY <1>1, <1>3, <1>6, <3>1, BetweenMultiples
    <3> QED BY <1>3, <1>6, <1>8, <3>2
  <2>2. \E m \in Nat : A = m * V + R
    <3>1. P * d \in Nat
      BY <1>1, <1>3, ProductsOrder
    <3>2. PICK m \in Nat : m = k + P * d
      BY <3>1
    <3>3. \A x, y, s, t \in Nat : (x + y * s) * t = x * t + y * (s * t)
      OBVIOUS
    <3>4. m * V = k * V + P * D
      BY <1>1, <1>3, <1>4, <3>2, <3>3
    <3>5. PICK a \in Nat, b \in Nat, c \in Nat : a = k * V /\ b = P * D /\ c = m * V
      <4>1. k * V \in Nat /\ m * V \in Nat
        BY <1>1, ProductsOrder
      <4> QED BY <1>7, <4>1
    <3>6. A = c + R
      BY <1>2, <1>10, <3>4, <3>5
    <3> QED BY <3>5, <3>6
  <2> QED BY <1>1, <2>1, <2>2 DEF Rest
<1>12. CASE q = d
  <2>1. PICK e \in Int : e = X - q * V /\ e = z
    BY <1>4, <1>6, <1>12
  <2>2. h = 0 /\ Y = z
    <3>1. e = Y + h * W /\ 0 * W = 0 /\ (0 + 1) * W = W
      BY <1>1, <1>3, <2>1
    <3>2. 0 * W <= e /\ e < (0 + 1) * W
      BY <1>1, <1>3, <1>6, <2>1, <3>1
    <3>3. h = 0 /\ Y = e - 0 * W
      BY <1>1, <1>3, <3>1, <3>2, TopOfDifference
    <3> QED BY <2>1, <3>1, <3>3
  <2>3. U + P * (Y - X) = R
    <3>1. Y - X = - D
      BY <1>1, <1>4, <1>6, <2>2
    <3>2. \A a, b \in Int : a * (- b) = - (a * b)
      OBVIOUS
    <3>3. P * (- D) = - (P * D)
      BY <1>3, <1>4, <3>2
    <3>4. PICK a \in Nat : a = P * D
      BY <1>7
    <3> QED BY <1>10, <3>1, <3>3, <3>4
  <2>4. ~(h < 0)
    BY <2>2
  <2> QED BY <1>1, <1>3, <1>11, <2>3, <2>4 DEF Half
<1>13. CASE q = d + 1
  <2>1. PICK e \in Int : e = X - q * V /\ e = z - V
    BY <1>1, <1>4, <1>5, <1>6, <1>13
  <2>2. h = -1 /\ Y = z - V + W
    <3>1. e = Y + h * W /\ (-1) * W = - W /\ (-1 + 1) * W = 0
      BY <1>1, <1>3, <2>1
    <3>2. (-1) * W <= e /\ e < (-1 + 1) * W
      BY <1>1, <1>3, <1>6, <2>1, <3>1
    <3>3. h = -1 /\ Y = e - (-1) * W
      <4>1. -1 \in Int
        OBVIOUS
      <4> QED BY <1>1, <1>3, <3>1, <3>2, <4>1, TopOfDifference
    <3> QED BY <1>1, <1>3, <2>1, <3>1, <3>3
  <2>3. U + P * (Y - X) = R + P * (W - V)
    <3>1. Y - X = (W - V) - D
      BY <1>1, <1>3, <1>4, <1>6, <2>2
    <3>2. P * ((W - V) - D) = P * (W - V) - P * D
      BY <1>1, <1>3, <1>4, <1>9
    <3>3. PICK a \in Nat, b \in Int : a = P * D /\ b = P * (W - V)
      BY <1>1, <1>3, <1>7
    <3> QED BY <1>10, <3>1, <3>2, <3>3
  <2>4. h < 0
    BY <2>2
  <2> QED BY <1>1, <1>3, <1>11, <2>3, <2>4 DEF Half
<1> QED BY <1>12, <1>13

\* Adding the modulus back to what fell below zero, its carry dropped.
LEMMA DigitRestored ==
    ASSUME NEW U, NEW V, NEW A, NEW j \in Nat, NEW n, Half(U, V, A, j, n, TRUE), V < Weight(n),
           NEW X \in Nat, NEW lo \in Nat, lo < Weight(j), U = lo + Weight(j) * X,
           NEW Y \in Nat, NEW h \in Int, Y < Weight(n + 1), X + V = Y + h * Weight(n + 1)
    PROVE  Rest(U + Weight(j) * (Y - X), V, A, j)
<1>1. PICK R : Rest(R, V, A, j) /\ n \in Nat /\ U = R + Weight(j) * (Weight(n + 1) - V)
  BY DEF Half
<1>2. R \in Nat /\ V \in Nat /\ R < V * Weight(j)
  BY <1>1 DEF Rest
<1>3. PICK P \in Nat \ {0}, W \in Nat \ {0} : P = Weight(j) /\ W = Weight(n + 1) /\ V < W
  <2>1. n <= n + 1 /\ n + 1 \in Nat
    BY <1>1
  <2>2. Weight(n) <= Weight(n + 1)
    BY <1>1, <2>1, WeightGrows
  <2>3. Weight(j) \in Nat \ {0} /\ Weight(n + 1) \in Nat \ {0} /\ Weight(n) \in Nat \ {0}
    BY <1>1, <2>1, WeightRule
  <2> QED BY <1>1, <1>2, <2>2, <2>3
<1>4. PICK Z \in Int : Z = X + V - W
  BY <1>2, <1>3
<1>5. PICK a \in Int : a = P * Z
  BY <1>3
<1>6. \A x, s, t \in Int : x * (s + t) = x * s + x * t
  OBVIOUS
\* The rest is what is below the window and the window with the modulus added.
<1>7. R = lo + a
  <2>1. X = Z + (W - V) /\ W - V \in Int
    BY <1>2, <1>3, <1>4
  <2>2. P * X = P * Z + P * (W - V)
    BY <1>3, <2>1, <1>6
  <2>3. PICK b \in Int, c \in Int : b = P * X /\ c = P * (W - V)
    BY <1>2, <1>3
  <2>4. lo + b = R + c
    BY <1>1, <1>3, <2>3
  <2> QED BY <1>2, <1>5, <2>2, <2>3, <2>4
\* Only one value of that window leaves a rest from zero up to the modulus.
<1>8. Z \in Nat /\ Z < V
  <2>1. CASE Z < 0
    <3>1. PICK m \in Nat : m = -1 - Z
      BY <2>1
    <3>2. P * m \in Nat /\ P * Z = - P - P * m
      <4>1. Z = - 1 - m
        BY <3>1
      <4>2. \A x, y \in Int : x * (- 1 - y) = - x - x * y
        OBVIOUS
      <4> QED BY <1>3, <3>1, <4>1, <4>2, ProductsOrder
    <3>3. PICK b \in Nat : b = P * m
      BY <3>2
    <3>4. a = - P - b
      BY <1>5, <3>2, <3>3
    <3>5. lo < P
      BY <1>3
    <3> QED BY <1>2, <1>3, <1>7, <3>3, <3>4, <3>5
  <2>2. CASE Z >= V
    <3>1. PICK m \in Nat : m = Z - V
      BY <1>2, <2>2
    <3>2. P * Z = P * V + P * m
      <4>1. Z = V + m
        BY <1>2, <3>1
      <4> QED BY <1>2, <1>3, <1>6, <3>1, <4>1
    <3>3. PICK b \in Nat, c \in Nat : b = P * m /\ c = P * V
      <4>1. P * m \in Nat /\ P * V \in Nat
        BY <1>2, <1>3, <3>1, ProductsOrder
      <4> QED BY <4>1
    <3>4. a = c + b
      BY <1>5, <3>2, <3>3
    <3>5. R < c
      <4>1. V * P = P * V
        BY <1>2, <1>3
      <4> QED BY <1>2, <1>3, <3>3, <4>1
    <3> QED BY <1>2, <1>7, <3>3, <3>4, <3>5
  <2> QED BY <1>2, <2>1, <2>2
<1>9. h = 1 /\ Y = Z
  <2>1. PICK e \in Int : e = X + V /\ e = Z + W
    BY <1>2, <1>3, <1>4
  <2>2. e = Y + h * W /\ 1 * W = W /\ (1 + 1) * W = W + W /\ 0 <= Y /\ Y < W
    BY <1>1, <1>3, <2>1
  <2>3. 1 * W <= e /\ e < (1 + 1) * W
    BY <1>2, <1>3, <1>8, <2>1, <2>2
  <2>4. h = 1 /\ Y = e - 1 * W
    BY <1>1, <1>3, <2>2, <2>3, TopOfDifference
  <2> QED BY <1>3, <2>1, <2>2, <2>4
<1>10. U + P * (Y - X) = R
  <2>1. PICK b \in Int : b = P * X
    BY <1>3
  <2>2. P * (Y - X) = a - b
    <3>1. \A x, s, t \in Int : x * (s - t) = x * s - x * t
      OBVIOUS
    <3> QED BY <1>3, <1>4, <1>5, <1>9, <2>1, <3>1
  <2>3. U = lo + b
    BY <1>3, <2>1
  <2> QED BY <1>7, <2>1, <2>2, <2>3, <1>2
<1> QED BY <1>1, <1>3, <1>10

\* u is divided by v of n limbs, the topmost at least half of Base, at place i.
Dividing(u, v, n, i) ==
    /\ u \in Seq(Limb) /\ v \in Seq(Limb) /\ n \in Nat /\ n >= 2 /\ Len(v) = n
    /\ i \in Nat /\ i + n < Len(u) /\ Base <= 2 * v[n]

\* The n + 1 limbs that the digit at place i is found in.
WindowValue(u, i, n) == WordsValue(SubSeq(u, i + 1, i + n + 1))
\* The two limbs that the estimate reads.
Numerator(u, i, n) == u[i + n + 1] * Base + u[i + n]
\* The limbs a loop of the division reads, and what they say of the digit d.
DigitOf(u, v, i, n, d) ==
    \E W : Estimating(WindowValue(u, i, n), WordsValue(v), Numerator(u, i, n), u[i + n - 1],
                      v[n], v[n - 1], W, Base, d)

\* The modulus is as large as its length allows, but for a bit.
LEMMA ModulusRule ==
    ASSUME NEW u, NEW v, NEW n, NEW i, Dividing(u, v, n, i)
    PROVE  /\ WordsValue(v) \in Nat \ {0} /\ WordsValue(v) < Weight(n)
           /\ v[n] \in Nat \ {0} /\ v[n] < Base /\ v[n - 1] \in Nat /\ v[n - 1] < Base
           /\ \E W \in Nat \ {0} : W = Weight(n - 2) /\ Split3(WordsValue(v), v[n], v[n - 1], W, Base)
<1>1. /\ v \in Seq(Limb) /\ n \in Nat /\ n >= 2 /\ Len(v) = n /\ Base <= 2 * v[n] /\ Base \in Nat \ {0}
  BY BaseRule DEF Dividing
<1>2. WordsValue(v) \in Nat /\ WordsValue(v) < Weight(n)
  BY <1>1, WordsBound
<1>3. /\ v[n] \in Nat \ {0} /\ v[n] < Base /\ v[n - 1] \in Nat /\ v[n - 1] < Base
  <2>1. v[n] \in Limb /\ v[n - 1] \in Limb
    BY <1>1
  <2> QED BY <1>1, <2>1 DEF Limb
<1>4. PICK m \in Nat : n = m + 2 /\ m = n - 2
  <2>1. n - 2 \in Nat /\ n = (n - 2) + 2
    BY <1>1
  <2> QED BY <2>1
<1>5. \E l \in Nat : l < Weight(m) /\ WordsValue(v) = (v[m + 2] * Base + v[m + 1]) * Weight(m) + l
  BY <1>1, <1>4, TopTwo
<1>6. m + 2 = n /\ m + 1 = n - 1
  BY <1>1, <1>4
<1>7. Weight(m) \in Nat \ {0}
  BY <1>4, WeightRule
<1>8. Split3(WordsValue(v), v[n], v[n - 1], Weight(m), Base)
  BY <1>3, <1>5, <1>6 DEF Split3
<1>9. WordsValue(v) # 0
  <2>1. v[n] # 0 /\ n = (n - 1) + 1 /\ n - 1 \in Nat
    BY <1>1, <1>3
  <2>2. WordsValue(v) >= Weight(n - 1)
    BY <1>1, <2>1, TopLimb
  <2>3. Weight(n - 1) \in Nat \ {0}
    BY <2>1, WeightRule
  <2> QED BY <1>2, <2>2, <2>3
<1> QED BY <1>2, <1>3, <1>4, <1>7, <1>8, <1>9

\* What is below the window does not count.
LEMMA BelowWindow ==
    ASSUME NEW u, NEW v, NEW n, NEW i, Dividing(u, v, n, i), WordsValue(u) < Weight(i + n + 1)
    PROVE  \E lo \in Nat : /\ lo < Weight(i) /\ WindowValue(u, i, n) \in Nat
                           /\ WordsValue(u) = lo + Weight(i) * WindowValue(u, i, n)
<1>1. u \in Seq(Limb) /\ n \in Nat /\ i \in Nat /\ i + n < Len(u) /\ Len(u) \in Nat
  BY DEF Dividing
<1>2. PICK k \in Nat : k = n + 1
  BY <1>1
<1>3. i + k <= Len(u) /\ i + k = i + n + 1
  BY <1>1, <1>2
<1>4. PICK x : x = SubSeq(u, i + 1, i + k)
  OBVIOUS
<1>9. WordsValue(u) < Weight(i + k)
  BY <1>3
<1>5. \E lo \in Nat : lo < Weight(i) /\ WordsValue(u) = lo + Weight(i) * WordsValue(x)
  <2>1. \A a \in Nat, b \in Nat : a + b <= Len(u) /\ WordsValue(u) < Weight(a + b)
          => \A y : y = SubSeq(u, a + 1, a + b)
               => \E lo \in Nat : lo < Weight(a) /\ WordsValue(u) = lo + Weight(a) * WordsValue(y)
    BY <1>1, WindowAlone
  <2> QED BY ZenonT(40), <1>1, <1>2, <1>3, <1>4, <1>9, <2>1
<1>6. x \in Seq(Limb)
  BY <1>1, <1>2, <1>3, <1>4, WindowLimbs DEF Cutout
<1>7. WordsValue(x) \in Nat
  BY <1>6, WordsBound
<1>8. WordsValue(x) = WindowValue(u, i, n)
  BY <1>3, <1>4 DEF WindowValue
<1> QED BY <1>5, <1>7, <1>8

\* The topmost limbs of the window.
LEMMA WindowTop ==
    ASSUME NEW u, NEW v, NEW n, NEW i, Dividing(u, v, n, i), NEW m \in Nat, m = n - 2
    PROVE  Split3(WindowValue(u, i, n), Numerator(u, i, n), u[i + n - 1], Weight(m), Base)
<1>1. /\ u \in Seq(Limb) /\ n \in Nat /\ i \in Nat /\ i + n < Len(u) /\ Len(u) \in Nat /\ n = m + 2
      /\ Base \in Nat \ {0}
  BY BaseRule DEF Dividing
<1>2. PICK k \in Nat : k = m + 3 /\ k = n + 1
  BY <1>1
<1>3. i + k <= Len(u) /\ i + k = i + n + 1
  BY <1>1, <1>2
<1>4. PICK x : x = SubSeq(u, i + 1, i + k)
  OBVIOUS
<1>5. Cutout(x, u, i, k)
  BY <1>1, <1>2, <1>3, <1>4, WindowLimbs
<1>6. /\ x \in Seq(Limb) /\ Len(x) = m + 3
      /\ \A j \in 0 .. k - 1 : x[j + 1] = u[i + j + 1]
  BY <1>2, <1>5 DEF Cutout
<1>7. /\ x[m + 3] = u[i + n + 1] /\ x[m + 2] = u[i + n] /\ x[m + 1] = u[i + n - 1]
  <2>1. m \in 0 .. k - 1 /\ m + 1 \in 0 .. k - 1 /\ m + 2 \in 0 .. k - 1
    BY <1>2
  <2>2. x[m + 1] = u[i + m + 1] /\ x[(m + 1) + 1] = u[i + (m + 1) + 1] /\ x[(m + 2) + 1] = u[i + (m + 2) + 1]
    BY <1>6, <2>1
  <2>3. i + m + 1 = i + n - 1 /\ i + (m + 1) + 1 = i + n /\ i + (m + 2) + 1 = i + n + 1
    BY <1>1
  <2>4. (m + 1) + 1 = m + 2 /\ (m + 2) + 1 = m + 3
    OBVIOUS
  <2> QED BY <2>2, <2>3, <2>4
<1>8. x[m + 3] \in Limb /\ x[m + 2] \in Limb /\ x[m + 1] \in Limb
  BY <1>6
<1>9. \E l \in Nat : l < Weight(m) /\ WordsValue(x) = ((x[m + 3] * Base + x[m + 2]) * Base + x[m + 1]) * Weight(m) + l
  BY <1>6, TopThree
<1>10. WordsValue(x) = WindowValue(u, i, n)
  BY <1>3, <1>4 DEF WindowValue
<1>11. Numerator(u, i, n) = x[m + 3] * Base + x[m + 2]
  BY <1>7 DEF Numerator
<1>12. x[m + 3] * Base + x[m + 2] \in Nat /\ x[m + 1] \in Nat /\ x[m + 1] < Base
  <2>1. x[m + 3] \in Nat /\ x[m + 2] \in Nat /\ x[m + 1] \in Nat /\ x[m + 1] < Base
    BY SMTT(20), <1>1, <1>8 DEF Limb
  <2>2. x[m + 3] * Base \in Nat
    BY <1>1, <2>1, ProductsOrder
  <2> QED BY <2>1, <2>2
<1> QED BY <1>7, <1>9, <1>10, <1>11, <1>12 DEF Split3

\* The digit that a rest has at place i, and what the limbs the loop reads say of it.
LEMMA DigitRule ==
    ASSUME NEW u, NEW v, NEW n, NEW i, Dividing(u, v, n, i), NEW A, NEW U, U = WordsValue(u),
           NEW V, V = WordsValue(v), Rest(U, V, A, i + 1), NEW X, X = WindowValue(u, i, n),
           NEW d, d = X \div V
    PROVE  /\ U < Weight(i + n + 1) /\ X < V * Base /\ d \in Nat
           /\ \E lo \in Nat : Digit(X, U, V, i, d, lo)
           /\ DigitOf(u, v, i, n, d)
<1>1. /\ n \in Nat /\ n >= 2 /\ i \in Nat /\ V \in Nat \ {0} /\ V < Weight(n)
      /\ Base \in Nat \ {0} /\ v[n] \in Nat \ {0}
  BY ModulusRule, BaseRule DEF Dividing
<1>2. U \in Nat /\ U < V * Weight(i + 1)
  BY DEF Rest
<1>3. U < Weight(i + n + 1)
  <2>1. i + 1 \in Nat /\ n + (i + 1) = i + n + 1
    BY <1>1
  <2>2. Weight(n + (i + 1)) = Weight(n) * Weight(i + 1)
    BY <1>1, <2>1, WeightRule
  <2>3. PICK P \in Nat, Q \in Nat : P = Weight(i + 1) /\ Q = Weight(n)
    BY <1>1, <2>1, WeightRule
  <2>4. V * P <= Q * P
    BY <1>1, <2>3, ProductsOrder
  <2>5. PICK a \in Nat, b \in Nat : a = V * P /\ b = Q * P
    BY <1>1, <2>3, ProductsOrder
  <2> QED BY <1>2, <2>1, <2>2, <2>3, <2>4, <2>5
<1>4. PICK lo \in Nat : lo < Weight(i) /\ X \in Nat /\ U = lo + Weight(i) * X
  BY <1>1, <1>3, BelowWindow
<1>5. X < V * Base
  <2>1. PICK P \in Nat \ {0} : P = Weight(i) /\ Weight(i + 1) = Base * P
    BY <1>1, WeightRule
  <2>2. PICK m \in Nat : m = V * Base
    BY <1>1, ProductsOrder
  <2>3. V * Weight(i + 1) = m * P
    <3>1. \A x, y, z \in Nat : x * (y * z) = (x * y) * z
      OBVIOUS
    <3> QED BY <1>1, <2>1, <2>2, <3>1
  <2>4. lo + P * X < m * P => X < m
    BY <1>4, <2>1, <2>2, BetweenMultiples
  <2> QED BY <1>2, <1>4, <2>1, <2>2, <2>3, <2>4
<1>6. IsQuotient(d, X, V)
  <2>1. d \in Nat /\ X % V \in 0 .. V - 1 /\ X = V * d + (X % V)
    BY <1>1, <1>4, Division
  <2>2. PICK r \in Nat : r < V /\ X = V * d + r
    BY <1>1, <2>1
  <2>3. V * d = d * V /\ (d + 1) * V = d * V + V
    <3>1. \A x, y \in Nat : x * y = y * x /\ (y + 1) * x = y * x + x
      OBVIOUS
    <3> QED BY <1>1, <2>1, <3>1
  <2>4. PICK a \in Nat : a = d * V
    BY <1>1, <2>1, ProductsOrder
  <2>5. a <= X /\ X < a + V
    <3>1. X = a + r
      BY <2>2, <2>3, <2>4, Zenon
    <3>2. V \in Nat /\ X \in Nat
      BY <1>1, <1>4
    <3> QED BY <2>2, <2>4, <3>1, <3>2
  <2> QED BY <1>1, <1>4, <2>1, <2>3, <2>4, <2>5 DEF IsQuotient
<1>7. DigitOf(u, v, i, n, d)
  <2>1. PICK m \in Nat : m = n - 2
    BY <1>1
  <2>2. Split3(X, Numerator(u, i, n), u[i + n - 1], Weight(m), Base)
    BY <2>1, WindowTop
  <2>3. Split3(V, v[n], v[n - 1], Weight(m), Base)
    BY <2>1, ModulusRule
  <2>4. Weight(m) \in Nat \ {0}
    BY <2>1, WeightRule
  <2>5. Estimating(X, V, Numerator(u, i, n), u[i + n - 1], v[n], v[n - 1], Weight(m), Base, d)
    BY <1>1, <1>6, <2>2, <2>3, <2>4 DEF Estimating
  <2> QED BY <2>5 DEF DigitOf
<1>8. Digit(X, U, V, i, d, lo)
  BY <1>4, <1>6 DEF Digit
<1>9. d \in Nat
  BY <1>6 DEF IsQuotient
<1> QED BY <1>3, <1>4, <1>5, <1>7, <1>8, <1>9

\* Between the estimate and the end of its corrections.
Guessed(u, v, i, n, q, r) ==
    /\ Estimated(q, r, Numerator(u, i, n), v[n]) /\ r < Base /\ q <= Base + 1
    /\ WindowValue(u, i, n) \div WordsValue(v) <= q

\* What is subtracted.
Close(u, v, i, n, q) ==
    /\ LET d == WindowValue(u, i, n) \div WordsValue(v) IN q \in {d, d + 1}
    /\ q <= Base /\ q \in Nat

\* Half of Base fits once into the topmost limb of the modulus.
LEMMA EstimateGuesses ==
    ASSUME NEW u, NEW v, NEW n, NEW i, Dividing(u, v, n, i), NEW A,
           Rest(WordsValue(u), WordsValue(v), A, i + 1), NEW N, N = Numerator(u, i, n)
    PROVE  Guessed(u, v, i, n, N \div v[n], N % v[n])
<1>1. PICK d, V, X : d = X \div V /\ V = WordsValue(v) /\ X = WindowValue(u, i, n)
  OBVIOUS
<1>2. X < V * Base /\ d \in Nat /\ DigitOf(u, v, i, n, d)
  BY <1>1, DigitRule
<1>3. PICK W : Estimating(X, V, N, u[i + n - 1], v[n], v[n - 1], W, Base, d)
  BY <1>1, <1>2 DEF DigitOf
<1>4. N \in Nat /\ v[n] \in Nat \ {0} /\ v[n] < Base /\ Base \in Nat
  BY <1>3, EstimatingRule, ModulusRule, BaseRule
<1>5. PICK v1 \in Nat \ {0} : v1 = v[n]
  BY <1>4
<1>6. PICK q \in Nat, r \in Nat : q = N \div v1 /\ r = N % v1 /\ r < v1 /\ N = q * v1 + r
  <2>1. /\ N \div v1 \in Nat /\ N % v1 \in 0 .. v1 - 1 /\ N = v1 * (N \div v1) + (N % v1)
    BY <1>4, <1>5, Division
  <2>2. v1 * (N \div v1) = (N \div v1) * v1
    BY <2>1
  <2> QED BY <1>5, <2>1, <2>2
<1>7. Estimated(q, r, N, v1)
  BY <1>6 DEF Estimated
<1>8. Base <= 2 * v1
  BY <1>5 DEF Dividing
<1>9. d <= q /\ q <= Base + 1
  BY <1>2, <1>3, <1>5, <1>6, <1>7, <1>8, FirstEstimate
<1> QED BY <1>1, <1>4, <1>5, <1>6, <1>7, <1>9 DEF Guessed

\* One correction, or none.
LEMMA CorrectionKeeps ==
    ASSUME NEW u, NEW v, NEW n, NEW i, Dividing(u, v, n, i), NEW A,
           Rest(WordsValue(u), WordsValue(v), A, i + 1), NEW q, NEW r, Guessed(u, v, i, n, q, r),
           NEW large, large = (q >= Base \/ q * v[n - 1] > r * Base + u[i + n - 1])
    PROVE  /\ large /\ r + v[n] < Base => Guessed(u, v, i, n, q - 1, r + v[n])
           /\ large /\ r + v[n] >= Base => Close(u, v, i, n, q - 1)
           /\ ~large => Close(u, v, i, n, q)
<1>1. PICK d, V, X : d = X \div V /\ V = WordsValue(v) /\ X = WindowValue(u, i, n)
  OBVIOUS
<1>2. X < V * Base /\ d \in Nat /\ DigitOf(u, v, i, n, d)
  BY <1>1, DigitRule
<1>3. PICK N, x3 : N = Numerator(u, i, n) /\ x3 = u[i + n - 1]
  OBVIOUS
<1>4. PICK W : Estimating(X, V, N, x3, v[n], v[n - 1], W, Base, d)
  BY <1>1, <1>2, <1>3 DEF DigitOf
<1>5. /\ Estimated(q, r, N, v[n]) /\ r < Base /\ q <= Base + 1 /\ d <= q /\ q \in Nat /\ r \in Nat
  BY <1>1, <1>3 DEF Guessed, Estimated
<1>6. /\ Base \in Nat \ {0} /\ v[n] \in Nat \ {0} /\ v[n - 1] \in Nat /\ x3 \in Nat
      /\ q * v[n - 1] \in Nat /\ r * Base + x3 \in Nat
  <2>1. /\ Base \in Nat \ {0} /\ v[n] \in Nat \ {0} /\ v[n - 1] \in Nat /\ x3 \in Nat
    BY <1>4, EstimatingRule
  <2>2. q * v[n - 1] \in Nat /\ r * Base \in Nat
    BY <1>5, <2>1, ProductsOrder
  <2> QED BY <2>1, <2>2
<1>7. d < Base
  <2>1. PICK N0, q0, r0 : N0 = Numerator(u, i, n) /\ q0 = N0 \div v[n] /\ r0 = N0 % v[n]
    OBVIOUS
  <2>2. Estimated(q0, r0, N0, v[n])
    BY <2>1, EstimateGuesses DEF Guessed
  <2>3. N0 = N /\ N \in Nat /\ Base <= 2 * v[n]
    BY <1>3, <1>4, <2>1, EstimatingRule DEF Dividing
  <2>4. r0 < v[n]
    <3>1. PICK v1 \in Nat \ {0} : v1 = v[n]
      BY <1>6
    <3>2. N % v1 \in 0 .. v1 - 1
      BY <2>3, <3>1, Division
    <3> QED BY <2>1, <2>3, <3>1, <3>2
  <2> QED BY <1>2, <1>4, <2>2, <2>3, <2>4, FirstEstimate
<1>8. ASSUME large
      PROVE  q > 0 /\ d <= q - 1 /\ Estimated(q - 1, r + v[n], N, v[n])
  <2>1. q >= Base \/ q * v[n - 1] > r * Base + x3
    BY <1>3, <1>8
  <2> QED BY <1>4, <1>5, <1>7, <2>1, CorrectedEstimate
<1>9. ASSUME large, r + v[n] < Base PROVE Guessed(u, v, i, n, q - 1, r + v[n])
  <2>1. q - 1 <= Base + 1
    BY <1>5, <1>6
  <2> QED BY <1>1, <1>3, <1>8, <1>9, <2>1 DEF Guessed
<1>10. ASSUME large, r + v[n] >= Base PROVE Close(u, v, i, n, q - 1)
  <2>1. q - 1 <= Base /\ q - 1 \in Nat
    BY <1>5, <1>6, <1>8, <1>10
  <2>0. r + v[n] >= Base
    BY <1>10
  <2>2. PICK q1 \in Nat, r1 \in Nat : q1 = q - 1 /\ r1 = r + v[n] /\ r1 >= Base
    <3>1. r + v[n] \in Nat
      BY <1>5, <1>6
    <3> QED BY <2>0, <2>1, <3>1
  <2>3. Estimated(q1, r1, N, v[n]) /\ q1 <= Base /\ d <= q1
    BY <1>8, <1>10, <2>1, <2>2
  <2>4. q1 \in {d, d + 1}
    BY <1>4, <2>2, <2>3, FinalEstimate
  <2> QED BY <1>1, <2>1, <2>2, <2>4 DEF Close
<1>11. ASSUME ~large PROVE Close(u, v, i, n, q)
  <2>1. ~(q >= Base) /\ ~(q * v[n - 1] > r * Base + x3)
    BY <1>3, <1>11
  <2>2. q <= Base /\ q * v[n - 1] <= r * Base + x3
    <3>1. PICK a \in Nat, b \in Nat : a = q * v[n - 1] /\ b = r * Base + x3
      BY <1>6
    <3>2. a <= b
      BY <2>1, <3>1
    <3> QED BY <1>5, <1>6, <2>1, <3>1, <3>2
  <2>3. q \in {d, d + 1}
    BY <1>4, <1>5, <2>2, FinalEstimate
  <2> QED BY <1>1, <1>5, <2>2, <2>3 DEF Close
<1> QED BY <1>9, <1>10, <1>11

-----------------------------------------------------------------------------
(* The division of crypto_bignum_mod, step by step.                          *)

\* The number that is reduced, after the shift.
Dividend == WordsValue(divisionA) * PowerOf(2, Shift)

\* What no step changes: the modulus, its shift, and where the digits start.
DivSetting ==
    /\ divisionA \in Seq(Limb) /\ divisionM \in Seq(Limb) /\ Shift \in 0 .. LimbBits - 1
    /\ WordsValue(divisionM) \in Nat \ {0}
    /\ WordsValue(vn) = WordsValue(divisionM) * PowerOf(2, Shift)
    /\ Dividend \in Nat
    /\ Len(un) = Len(divisionA) + 1 /\ offset + divisionN <= Len(divisionA)

\* What is known at each place of the loop over the digits.
DivInv ==
    /\ DivSetting /\ Dividing(un, vn, divisionN, offset)
    /\ divisionPc \in {"estimate", "correct", "subtract", "addback", "done"}
    /\ divisionPc \in {"estimate", "correct", "subtract"} =>
         Rest(WordsValue(un), WordsValue(vn), Dividend, offset + 1)
    /\ divisionPc = "correct"  => Guessed(un, vn, offset, divisionN, qhat, rhat)
    /\ divisionPc = "subtract" => Close(un, vn, offset, divisionN, qhat)
    /\ divisionPc = "addback"  =>
         /\ underflow \in BOOLEAN
         /\ Half(WordsValue(un), WordsValue(vn), Dividend, offset, divisionN, underflow)
    /\ divisionPc = "done"     => Rest(WordsValue(un), WordsValue(vn), Dividend, 0)

SameNumbers == UNCHANGED <<divisionA, divisionM, vn>>

\* Steps that leave both numbers alone keep what they are about.
LEMMA SettingKept ==
    ASSUME DivSetting, SameNumbers, Len(un') = Len(un), offset' = offset \/ offset' = offset - 1,
           offset \in Int, divisionN \in Int
    PROVE  DivSetting' /\ divisionN' = divisionN /\ Dividend' = Dividend
<1>1. divisionN' = divisionN /\ Shift' = Shift /\ Dividend' = Dividend
  BY DEF SameNumbers, divisionN, Shift, Top, Dividend
<1>2. divisionA' = divisionA /\ divisionM' = divisionM /\ vn' = vn
  BY DEF SameNumbers
<1>3. /\ Len(un) = Len(divisionA) + 1 /\ offset + divisionN <= Len(divisionA)
      /\ Len(divisionA) \in Nat
  BY DEF DivSetting
<1>4. offset' + divisionN' <= Len(divisionA')
  BY <1>1, <1>2, <1>3
<1>5. Len(un') = Len(divisionA') + 1
  BY <1>2, <1>3
<1> QED BY <1>1, <1>2, <1>4, <1>5 DEF DivSetting

\* The estimate of a digit, from the two limbs that are all there is of the rest.
LEMMA EstimateKeeps == DivInv /\ Estimate => DivInv'
<1> SUFFICES ASSUME DivInv, Estimate PROVE DivInv'
  OBVIOUS
<1>1. /\ DivSetting /\ Dividing(un, vn, divisionN, offset) /\ divisionPc = "estimate"
      /\ Rest(WordsValue(un), WordsValue(vn), Dividend, offset + 1)
  BY DEF DivInv, Estimate
<1>2. /\ SameNumbers /\ un' = un /\ offset' = offset /\ divisionPc' = "correct"
      /\ qhat' = Numerator(un, offset, divisionN) \div vn[divisionN]
      /\ rhat' = Numerator(un, offset, divisionN) % vn[divisionN]
  BY DEF Estimate, SameNumbers, Numerator
<1>3. DivSetting' /\ divisionN' = divisionN /\ Dividend' = Dividend
  BY <1>1, <1>2, SettingKept DEF Dividing
<1>4. Guessed(un, vn, offset, divisionN, qhat', rhat')
  BY <1>1, <1>2, EstimateGuesses
<1>5. vn' = vn
  BY <1>2 DEF SameNumbers
<1> QED BY <1>1, <1>2, <1>3, <1>4, <1>5 DEF DivInv

\* A correction by one, or the end of the corrections.
LEMMA CorrectKeeps == DivInv /\ Correct => DivInv'
<1> SUFFICES ASSUME DivInv, Correct PROVE DivInv'
  OBVIOUS
<1>1. /\ DivSetting /\ Dividing(un, vn, divisionN, offset) /\ divisionPc = "correct"
      /\ Rest(WordsValue(un), WordsValue(vn), Dividend, offset + 1)
      /\ Guessed(un, vn, offset, divisionN, qhat, rhat)
  BY DEF DivInv, Correct
<1>2. SameNumbers /\ un' = un /\ offset' = offset /\ vn' = vn
  BY DEF Correct, SameNumbers
<1>3. DivSetting' /\ divisionN' = divisionN /\ Dividend' = Dividend
  BY <1>1, <1>2, SettingKept DEF Dividing
<1>4. TooLarge = (qhat >= Base \/ qhat * vn[divisionN - 1] > rhat * Base + un[offset + divisionN - 1])
  BY DEF TooLarge
<1>5. PICK large : large = TooLarge
  OBVIOUS
<1>6. /\ large /\ rhat + vn[divisionN] < Base
           => Guessed(un, vn, offset, divisionN, qhat - 1, rhat + vn[divisionN])
      /\ large /\ rhat + vn[divisionN] >= Base => Close(un, vn, offset, divisionN, qhat - 1)
      /\ ~large => Close(un, vn, offset, divisionN, qhat)
  BY <1>1, <1>4, <1>5, CorrectionKeeps
<1>7. CASE TooLarge
  <2>1. /\ qhat' = qhat - 1 /\ rhat' = rhat + vn[divisionN]
        /\ divisionPc' = IF rhat' >= Base THEN "subtract" ELSE "correct"
    BY <1>7 DEF Correct
  <2>2. rhat' \in Int /\ Base \in Int
    BY <1>1, <2>1, ModulusRule, BaseRule DEF Guessed, Estimated
  <2>3. CASE rhat' >= Base
    <3>1. Close(un, vn, offset, divisionN, qhat')
      BY <1>5, <1>6, <1>7, <2>1, <2>3
    <3> QED BY <1>1, <1>2, <1>3, <2>1, <2>3, <3>1 DEF DivInv
  <2>4. CASE ~(rhat' >= Base)
    <3>1. rhat' < Base
      BY <2>2, <2>4
    <3>2. Guessed(un, vn, offset, divisionN, qhat', rhat')
      BY <1>5, <1>6, <1>7, <2>1, <3>1
    <3> QED BY <1>1, <1>2, <1>3, <2>1, <2>4, <3>2 DEF DivInv
  <2> QED BY <2>3, <2>4
<1>8. CASE ~TooLarge
  <2>1. qhat' = qhat /\ divisionPc' = "subtract"
    BY <1>8 DEF Correct
  <2>2. Close(un, vn, offset, divisionN, qhat)
    BY <1>5, <1>6, <1>8
  <2> QED BY <1>1, <1>2, <1>3, <2>1, <2>2 DEF DivInv
<1> QED BY <1>7, <1>8

\* The limbs after a digit is subtracted.
LEMMA SubtractedRule ==
    ASSUME NEW u, NEW v, NEW n, NEW i, Dividing(u, v, n, i), NEW A,
           Rest(WordsValue(u), WordsValue(v), A, i + 1), NEW q, Close(u, v, i, n, q),
           NEW s, Less(s, u, v, i, n, q), NEW high, high = At(u, i + n) + s.carry
    PROVE  /\ Dividing(Placed(u, i, s.w, Low(high)), v, n, i)
           /\ Len(Placed(u, i, s.w, Low(high))) = Len(u)
           /\ Half(WordsValue(Placed(u, i, s.w, Low(high))), WordsValue(v), A, i, n, high < 0)
<1>1. /\ u \in Seq(Limb) /\ v \in Seq(Limb) /\ i \in Nat /\ n \in Nat /\ Len(v) = n /\ i + n < Len(u)
      /\ n >= 2 /\ Base <= 2 * v[n]
  BY DEF Dividing
<1>2. PICK U, V, X, d : /\ U = WordsValue(u) /\ V = WordsValue(v) /\ X = WindowValue(u, i, n)
                        /\ d = X \div V
  OBVIOUS
<1>3. q \in Nat /\ q \in {d, d + 1}
  BY <1>2 DEF Close
<1>4. \E lo \in Nat : Digit(X, U, V, i, d, lo)
  BY <1>2, DigitRule
<1>5. s.carry \in Int
  <2>1. \E p \in [Nat -> Int] : s = Ripple(p, n)
    <3>1. PICK p : p = [k \in Nat |-> At(u, i + k) - q * At(v, k)]
      OBVIOUS
    <3>2. \A k \in Nat : At(u, i + k) - q * At(v, k) \in Int
      <4> TAKE k \in Nat
      <4>1. At(v, k) \in Nat
        BY <1>1, LimbsAreIntegers
      <4>2. i + k \in Nat
        BY <1>1
      <4>3. At(u, i + k) \in Nat
        BY <1>1, <4>2, LimbsAreIntegers
      <4>4. q * At(v, k) \in Nat
        BY <1>3, <4>1, ProductsOrder
      <4> QED BY <4>3, <4>4
    <3>3. p \in [Nat -> Int]
      BY <3>1, <3>2
    <3> QED BY <3>1, <3>3 DEF Less
  <2>2. PICK p \in [Nat -> Int] : s = Ripple(p, n)
    BY <2>1
  <2>3. PICK c : /\ Carries(c, p)
                 /\ \A m \in Nat : Ripple(p, m) = [w |-> [k \in 1 .. m |-> Low(p[k - 1] + c[k - 1])],
                                                   carry |-> c[m]]
    BY RippleRule
  <2>4. s.carry = c[n]
    <3>1. Ripple(p, n) = [w |-> [k \in 1 .. n |-> Low(p[k - 1] + c[k - 1])], carry |-> c[n]]
      BY <1>1, <2>3
    <3> QED BY <2>2, <3>1
  <2> QED BY <1>1, <2>3, <2>4 DEF Carries
<1>6. Carried(high, u, i + n, s.carry)
  BY <1>5 DEF Carried
<1>7. /\ high \in Int
      /\ \E Y \in Nat :
           /\ Replaced(Placed(u, i, s.w, Low(high)), u, i, n, Y)
           /\ WordsValue(SubSeq(u, i + 1, i + n + 1)) - q * WordsValue(v) = Y + High(high) * Weight(n + 1)
  BY <1>1, <1>3, <1>6, MultipleSubtracted
<1>20. PICK r : r = Placed(u, i, s.w, Low(high))
  OBVIOUS
<1>8. PICK Y \in Nat : /\ Replaced(r, u, i, n, Y)
                       /\ X - q * V = Y + High(high) * Weight(n + 1)
  BY <1>2, <1>7, <1>20 DEF WindowValue
<1>9. /\ r \in Seq(Limb) /\ Len(r) = Len(u) /\ Y < Weight(n + 1)
      /\ WordsValue(r) = U + Weight(i) * (Y - X)
  BY <1>2, <1>8 DEF Replaced, WindowValue
<1>10. PICK h \in Int : h = High(high) /\ ((h < 0) = (high < 0))
  <2>1. /\ High(high) \in Int /\ Low(high) \in Nat /\ high = Base * High(high) + Low(high)
        /\ Low(high) \in Limb /\ Base \in Nat \ {0}
    BY <1>7, LowHigh, BaseRule
  <2>2. PICK h \in Int, t \in Nat, B \in Nat \ {0} :
          h = High(high) /\ t = Low(high) /\ B = Base /\ t < B /\ high = t + B * h
    <3>1. Low(high) < Base
      BY <2>1 DEF Limb
    <3> QED BY <2>1, <3>1
  <2>3. 0 <= t + B * h => 0 <= h
    <3>1. \A m \in Nat : 0 <= t + B * h => 0 <= h
      BY <2>2, BetweenMultiples
    <3> QED BY <3>1
  <2>4. 0 <= h => 0 <= t + B * h
    <3>1. ASSUME 0 <= h PROVE B * h \in Nat
      BY <3>1, <2>2, ProductsOrder
    <3> QED BY <3>1, <2>2
  <2>5. (h < 0) = (high < 0)
    <3>1. PICK a \in Int : a = B * h
      BY <2>2
    <3> QED BY <1>7, <2>2, <2>3, <2>4, <3>1
  <2> QED BY <2>2, <2>5
<1>11. V < Weight(n)
  BY <1>2, ModulusRule
<1>12. Subtracted(X, V, q, Y, h, n)
  BY <1>1, <1>3, <1>8, <1>9, <1>10, <1>11 DEF Subtracted
<1>13. Half(U + Weight(i) * (Y - X), V, A, i, n, h < 0)
  BY <1>1, <1>2, <1>3, <1>4, <1>12, DigitSubtracted
<1>14. Half(WordsValue(r), V, A, i, n, high < 0)
  BY <1>9, <1>10, <1>13
<1>15. Dividing(r, v, n, i)
  BY <1>1, <1>9 DEF Dividing
<1> QED BY <1>2, <1>9, <1>14, <1>15, <1>20

\* The digit times the modulus subtracted, below zero at most once.
LEMMA SubtractKeeps == DivInv /\ Subtract => DivInv'
<1> SUFFICES ASSUME DivInv, Subtract PROVE DivInv'
  OBVIOUS
<1>1. /\ DivSetting /\ Dividing(un, vn, divisionN, offset) /\ divisionPc = "subtract"
      /\ Rest(WordsValue(un), WordsValue(vn), Dividend, offset + 1)
      /\ Close(un, vn, offset, divisionN, qhat)
  BY DEF DivInv, Subtract
<1>2. SameNumbers /\ offset' = offset /\ vn' = vn /\ divisionPc' = "addback"
  BY DEF Subtract, SameNumbers
<1>3. PICK s : Less(s, un, vn, offset, divisionN, qhat)
  BY DEF Less
<1>4. PICK high : high = At(un, offset + divisionN) + s.carry
  OBVIOUS
<1>5. un' = Placed(un, offset, s.w, Low(high)) /\ underflow' = (high < 0)
  BY <1>3, <1>4 DEF Subtract, Less
<1>6. /\ Dividing(un', vn, divisionN, offset) /\ Len(un') = Len(un)
      /\ Half(WordsValue(un'), WordsValue(vn), Dividend, offset, divisionN, high < 0)
  BY <1>1, <1>3, <1>4, <1>5, SubtractedRule
<1>7. DivSetting' /\ divisionN' = divisionN /\ Dividend' = Dividend
  BY <1>1, <1>2, <1>6, SettingKept DEF Dividing
<1>8. underflow' \in BOOLEAN
  BY <1>5
<1>9. Half(WordsValue(un'), WordsValue(vn), Dividend, offset, divisionN, underflow')
  BY <1>5, <1>6
<1> QED BY <1>2, <1>6, <1>7, <1>8, <1>9 DEF DivInv

\* The limbs after a modulus is added back.
LEMMA RestoredRule ==
    ASSUME NEW u, NEW v, NEW n, NEW i, Dividing(u, v, n, i), NEW A,
           Half(WordsValue(u), WordsValue(v), A, i, n, TRUE),
           NEW s, More(s, u, v, i, n)
    PROVE  LET r == Placed(u, i, s.w, Low(At(u, i + n) + s.carry)) IN
           /\ Dividing(r, v, n, i) /\ Len(r) = Len(u)
           /\ Rest(WordsValue(r), WordsValue(v), A, i)
<1>1. /\ u \in Seq(Limb) /\ v \in Seq(Limb) /\ i \in Nat /\ n \in Nat /\ Len(v) = n /\ i + n < Len(u)
      /\ n >= 2 /\ Base <= 2 * v[n]
  BY DEF Dividing
<1>2. PICK U, V, X : U = WordsValue(u) /\ V = WordsValue(v) /\ X = WindowValue(u, i, n)
  OBVIOUS
<1>3. V \in Nat \ {0} /\ V < Weight(n)
  BY <1>2, ModulusRule
<1>4. Half(U, V, A, i, n, TRUE)
  BY <1>2
<1>5. PICK R : Rest(R, V, A, i) /\ U = R + Weight(i) * (Weight(n + 1) - V)
  BY <1>4 DEF Half
<1>6. U < Weight(i + n + 1)
  <2>1. R \in Nat /\ R < V * Weight(i)
    BY <1>5 DEF Rest
  <2>2. i + n + 1 = i + (n + 1) /\ n + 1 \in Nat
    BY <1>1
  <2>3. Weight(i + (n + 1)) = Weight(i) * Weight(n + 1)
    BY <1>1, <2>2, WeightRule
  <2>4. PICK P \in Nat, W \in Nat : P = Weight(i) /\ W = Weight(n + 1)
    BY <1>1, <2>2, WeightRule
  <2>5. P * (W - V) = P * W - P * V /\ P * V = V * P
    <3>1. \A x, y, z \in Int : x * (y - z) = x * y - x * z /\ x * y = y * x
      OBVIOUS
    <3> QED BY <1>3, <2>4, <3>1
  <2>6. PICK a \in Nat, b \in Nat : a = P * W /\ b = P * V
    BY <1>3, <2>4, ProductsOrder
  <2>7. U = R + (a - b) /\ R < b
    BY <1>5, <2>1, <2>4, <2>5, <2>6
  <2>8. U < a
    BY <2>1, <2>6, <2>7
  <2> QED BY <2>2, <2>3, <2>4, <2>6, <2>8
<1>7. PICK lo \in Nat : lo < Weight(i) /\ X \in Nat /\ U = lo + Weight(i) * X
  BY <1>2, <1>6, BelowWindow
<1>8. s.carry \in Int
  <2>1. PICK a : a = SubSeq(u, i + 1, i + n)
    OBVIOUS
  <2>2. a \in Seq(Limb)
    <3>1. \A k, m \in Nat : k + m <= Len(u) => \A y : y = SubSeq(u, k + 1, k + m) => Cutout(y, u, k, m)
      BY <1>1, WindowLimbs
    <3>2. Len(u) \in Nat
      BY <1>1
    <3>3. i + n <= Len(u)
      BY <1>1, <3>2
    <3> QED BY <1>1, <2>1, <3>1, <3>3 DEF Cutout
  <2>3. AddWords(a, v, n).carry \in Int
    BY <1>1, <2>2, SumInPlaces
  <2> QED BY <2>1, <2>3 DEF More
<1>9. PICK high : high = At(u, i + n) + s.carry
  OBVIOUS
<1>10. Carried(high, u, i + n, s.carry)
  BY <1>8, <1>9 DEF Carried
<1>11. PICK r : r = Placed(u, i, s.w, Low(high))
  OBVIOUS
<1>12. \E Y \in Nat :
         /\ Replaced(Placed(u, i, s.w, Low(high)), u, i, n, Y)
         /\ High(high) \in Int
         /\ WordsValue(SubSeq(u, i + 1, i + n + 1)) + WordsValue(v) = Y + High(high) * Weight(n + 1)
  BY <1>1, <1>10, ModulusAddedBack
<1>13. PICK Y \in Nat : /\ Replaced(r, u, i, n, Y) /\ High(high) \in Int
                        /\ X + V = Y + High(high) * Weight(n + 1)
  BY <1>2, <1>11, <1>12 DEF WindowValue
<1>14. /\ r \in Seq(Limb) /\ Len(r) = Len(u) /\ Y < Weight(n + 1)
       /\ WordsValue(r) = U + Weight(i) * (Y - X)
  BY <1>2, <1>13 DEF Replaced, WindowValue
<1>15. PICK h \in Int : h = High(high) /\ X + V = Y + h * Weight(n + 1)
  BY <1>13
<1>16. Rest(U + Weight(i) * (Y - X), V, A, i)
  BY <1>1, <1>3, <1>4, <1>7, <1>14, <1>15, DigitRestored
<1>17. Dividing(r, v, n, i)
  BY <1>1, <1>14 DEF Dividing
<1> QED BY <1>2, <1>9, <1>11, <1>14, <1>16, <1>17

\* The modulus added back where it was subtracted once too often; the next digit.
LEMMA AddBackKeeps == DivInv /\ AddBack => DivInv'
<1> SUFFICES ASSUME DivInv, AddBack PROVE DivInv'
  OBVIOUS
<1>1. /\ DivSetting /\ Dividing(un, vn, divisionN, offset) /\ divisionPc = "addback"
      /\ underflow \in BOOLEAN
      /\ Half(WordsValue(un), WordsValue(vn), Dividend, offset, divisionN, underflow)
  BY DEF DivInv, AddBack
<1>2. SameNumbers /\ vn' = vn /\ un' = IF underflow THEN Restored ELSE un
  BY DEF AddBack, SameNumbers
<1>3. /\ Dividing(un', vn, divisionN, offset) /\ Len(un') = Len(un)
      /\ Rest(WordsValue(un'), WordsValue(vn), Dividend, offset)
  <2>1. CASE underflow
    <3>1. PICK s : More(s, un, vn, offset, divisionN)
      BY DEF More
    <3>2. un' = Placed(un, offset, s.w, Low(At(un, offset + divisionN) + s.carry))
      BY <1>2, <2>1, <3>1 DEF Restored, More
    <3>3. underflow = TRUE
      BY <1>1, <2>1
    <3>4. Half(WordsValue(un), WordsValue(vn), Dividend, offset, divisionN, TRUE)
      BY <1>1, <3>3
    <3>5. LET r == Placed(un, offset, s.w, Low(At(un, offset + divisionN) + s.carry)) IN
          /\ Dividing(r, vn, divisionN, offset) /\ Len(r) = Len(un)
          /\ Rest(WordsValue(r), WordsValue(vn), Dividend, offset)
      BY <1>1, <3>1, <3>4, RestoredRule
    <3> QED BY <3>2, <3>5
  <2>2. CASE ~underflow
    <3>1. Rest(WordsValue(un), WordsValue(vn), Dividend, offset)
      BY <1>1, <2>2 DEF Half
    <3> QED BY <1>1, <1>2, <2>2, <3>1
  <2> QED BY <2>1, <2>2
<1>4. offset \in Nat /\ divisionN \in Nat
  BY <1>1 DEF Dividing
<1>5. CASE offset = 0
  <2>1. divisionPc' = "done" /\ offset' = offset
    BY <1>5 DEF AddBack
  <2>2. DivSetting' /\ divisionN' = divisionN /\ Dividend' = Dividend
    BY <1>1, <1>2, <1>3, <1>4, <2>1, SettingKept
  <2> QED BY <1>2, <1>3, <1>5, <2>1, <2>2 DEF DivInv
<1>6. CASE offset # 0
  <2>1. divisionPc' = "estimate" /\ offset' = offset - 1
    BY <1>6 DEF AddBack
  <2>2. DivSetting' /\ divisionN' = divisionN /\ Dividend' = Dividend
    BY <1>1, <1>2, <1>3, <1>4, <2>1, SettingKept
  <2>3. offset' \in Nat /\ offset' + 1 = offset /\ offset' < offset
    BY <1>4, <1>6, <2>1
  <2>4. Dividing(un', vn, divisionN, offset')
    <3>1. un' \in Seq(Limb)
      BY <1>3 DEF Dividing
    <3>2. Len(un') \in Nat /\ offset + divisionN < Len(un')
      BY <1>3, <3>1 DEF Dividing
    <3>3. offset' + divisionN < Len(un')
      BY <1>4, <2>3, <3>2
    <3> QED BY <1>3, <2>3, <3>3 DEF Dividing
  <2>5. Rest(WordsValue(un'), WordsValue(vn), Dividend, offset' + 1)
    BY <1>3, <2>3
  <2> QED BY <1>2, <2>1, <2>2, <2>4, <2>5 DEF DivInv
<1> QED BY <1>5, <1>6

-----------------------------------------------------------------------------
(* Where the division starts: both numbers shifted until the top bit of the  *)
(* modulus is set.                                                           *)

\* The topmost limb.
LEMMA TopOne ==
    ASSUME NEW x \in Seq(Limb), NEW k \in Nat, Len(x) = k + 1
    PROVE  /\ x[k + 1] \in Limb
           /\ \E l \in Nat : l < Weight(k) /\ WordsValue(x) = x[k + 1] * Weight(k) + l
<1>1. /\ Places(x) \in [Nat -> Int] /\ \A j \in 0 .. (k + 1) - 1 : Places(x)[j] = x[j + 1]
      /\ WordsValue(x) = Value(Places(x), k + 1)
  BY LimbsAreIntegers, PlacesOfWords
<1>2. Value(Places(x), k + 1) = Value(Places(x), k) + Places(x)[k] * Weight(k)
  <2>1. PICK p \in [Nat -> Int] : p = Places(x)
    BY <1>1
  <2>2. \A j \in Nat : Value(p, j + 1) = Value(p, j) + p[j] * Weight(j)
    BY ValueRule
  <2> QED BY <2>1, <2>2
<1>3. Places(x)[k] = x[k + 1]
  <2>1. k \in 0 .. (k + 1) - 1
    OBVIOUS
  <2> QED BY <1>1, <2>1
<1>4. x[k + 1] \in Limb
  <2>1. k + 1 \in 1 .. Len(x)
    OBVIOUS
  <2> QED BY <2>1
<1>5. PICK l \in Nat : l = Value(Places(x), k) /\ l < Weight(k)
  BY LowBound
<1>6. PICK a \in Nat : a = x[k + 1] * Weight(k)
  <2>1. x[k + 1] \in Nat
    BY <1>4, BaseRule DEF Limb
  <2>2. Weight(k) \in Nat
    BY WeightRule
  <2> QED BY <2>1, <2>2, ProductsOrder
<1>7. WordsValue(x) = x[k + 1] * Weight(k) + l
  BY <1>1, <1>2, <1>3, <1>5, <1>6
<1> QED BY <1>4, <1>5, <1>7

\* Shifting until the top bit is set: P is what the shift multiplies by.
Lifts(P, t) == P \in Nat \ {0} /\ 2 * P <= Base /\ Base <= 2 * (t * P) /\ (t + 1) * P <= Base

\* The shift is shorter than a limb, and lifts the top limb to its highest bit.
LEMMA ShiftRule ==
    ASSUME NEW t \in Limb, t # 0, NEW s, s = LimbBits - BitsOf(t)
    PROVE  s \in 0 .. LimbBits - 1 /\ Lifts(PowerOf(2, s), t)
<1>1. t \in Nat \ {0} /\ LimbBits \in Nat \ {0} /\ t < Base /\ Base \in Nat /\ Base = PowerOf(2, LimbBits)
  BY BaseRule, LimbBitsAssumption DEF Limb, Base
<1>2. PICK K \in Nat : /\ K = BitsOf(t) /\ t < PowerOf(2, K)
                       /\ K = 0 \/ (K - 1 \in Nat /\ PowerOf(2, K - 1) <= t)
  <2>1. BitsOf(t) \in Nat /\ t < PowerOf(2, BitsOf(t))
        /\ (BitsOf(t) = 0 \/ (BitsOf(t) - 1 \in Nat /\ PowerOf(2, BitsOf(t) - 1) <= t))
    BY <1>1, BitsOfRule
  <2> QED BY <2>1
<1>3. K # 0
  BY <1>1, <1>2, TwoPowers
<1>4. PICK J \in Nat : K = J + 1 /\ J = K - 1
  BY <1>2, <1>3
<1>5. PICK Q \in Nat \ {0} : Q = PowerOf(2, J) /\ PowerOf(2, K) = 2 * Q /\ Q <= t /\ t < 2 * Q
  <2>1. PowerOf(2, J) \in Nat \ {0} /\ PowerOf(2, J + 1) = 2 * PowerOf(2, J)
    BY TwoPowers
  <2> QED BY <1>2, <1>3, <1>4, <2>1
<1>6. K <= LimbBits
  <2>1. CASE LimbBits <= J
    <3>1. PowerOf(2, LimbBits) <= PowerOf(2, J)
      BY <1>1, <2>1, PowersGrow
    <3> QED BY <1>1, <1>5, <3>1
  <2> QED BY <1>1, <1>4, <2>1
<1>7. s \in Nat /\ s \in 0 .. LimbBits - 1 /\ LimbBits = s + K
  BY <1>1, <1>2, <1>3, <1>6
<1>8. PICK P \in Nat \ {0} : P = PowerOf(2, s) /\ Base = P * (2 * Q)
  <2>1. 2 \in Nat \ {0}
    OBVIOUS
  <2>2. PowerOf(2, s + K) = PowerOf(2, s) * PowerOf(2, K)
    BY <1>2, <1>7, <2>1, PowersMultiply
  <2>3. PowerOf(2, s) \in Nat \ {0}
    BY <1>7, TwoPowers
  <2> QED BY <1>1, <1>5, <1>7, <2>2, <2>3
<1>9. PICK y \in Nat : y = 2 * Q /\ Base = P * y
  BY <1>5, <1>8
<1>10. y * P = P * y /\ 2 * P <= y * P /\ (t + 1) * P <= y * P
  <2>1. 2 <= y /\ t + 1 <= y /\ 2 \in Nat /\ t + 1 \in Nat
    BY <1>1, <1>5, <1>9
  <2> QED BY <1>8, <1>9, <2>1, ProductsOrder
<1>11. Base <= 2 * (t * P)
  <2>1. Q * P <= t * P /\ Q * P \in Nat /\ t * P \in Nat
    BY <1>1, <1>5, <1>8, ProductsOrder
  <2>2. P * (2 * Q) = 2 * (Q * P)
    <3>1. \A a, b \in Nat : a * (2 * b) = 2 * (b * a)
      OBVIOUS
    <3> QED BY <1>5, <1>8, <3>1
  <2>3. PICK a \in Nat, b \in Nat : a = Q * P /\ b = t * P
    BY <2>1
  <2> QED BY <1>8, <2>1, <2>2, <2>3
<1> QED BY <1>7, <1>8, <1>9, <1>10, <1>11 DEF Lifts

\* An array's value times what the shift multiplies by.
LEMMA ShiftedWords ==
    ASSUME NEW a \in Seq(Limb), NEW P \in Nat \ {0}, 2 * P <= Base,
           NEW w, w = WordsOf(WordsValue(a) * P, Len(a) + 1)
    PROVE  /\ w \in Seq(Limb) /\ Len(w) = Len(a) + 1
           /\ WordsValue(w) = WordsValue(a) * P /\ WordsValue(a) * P \in Nat
           /\ 2 * (WordsValue(a) * P) < Base * Weight(Len(a))
<1>1. PICK A \in Nat, n \in Nat, W \in Nat \ {0} :
        A = WordsValue(a) /\ n = Len(a) /\ W = Weight(n) /\ A < W /\ Weight(n + 1) = Base * W
  <2>1. WordsValue(a) \in Nat /\ WordsValue(a) < Weight(Len(a)) /\ Len(a) \in Nat
    BY WordsBound
  <2> QED BY <2>1, WeightRule
<1>2. PICK v \in Nat : v = A * P
  BY <1>1, ProductsOrder
<1>3. 2 * v < Base * W
  <2>1. A * (2 * P) = 2 * v /\ 2 * P \in Nat
    <3>1. \A x, y \in Nat : x * (2 * y) = 2 * (x * y)
      OBVIOUS
    <3> QED BY <1>1, <1>2, <3>1
  <2>2. (2 * P) * A <= Base * A /\ (2 * P) * A = A * (2 * P) /\ Base * A = A * Base
    <3>1. PICK y \in Nat, B \in Nat : y = 2 * P /\ B = Base /\ y <= B
      BY <2>1, BaseRule
    <3>2. y * A <= B * A /\ y * A = A * y /\ B * A = A * B
      BY SMTT(20), <1>1, <3>1, ProductsOrder
    <3> QED BY <3>1, <3>2
  <2>3. A * Base < W * Base /\ W * Base = Base * W
    <3>1. Base \in Nat \ {0}
      BY BaseRule
    <3>2. \A x, y \in Nat, z \in Nat \ {0} : x < y => x * z < y * z
      <4> TAKE x, y \in Nat, z \in Nat \ {0}
      <4> HAVE x < y
      <4>1. (x + 1) * z <= y * z
        BY ProductsOrder
      <4>2. (x + 1) * z = x * z + z
        OBVIOUS
      <4>3. PICK e \in Nat, f \in Nat : e = x * z /\ f = y * z
        OBVIOUS
      <4> QED BY <4>1, <4>2, <4>3
    <3> QED BY <1>1, <3>1, <3>2, ProductsOrder
  <2>4. PICK e \in Nat, f \in Nat : e = A * Base /\ f = Base * W
    BY <1>1, BaseRule, ProductsOrder
  <2>5. PICK d \in Nat : d = (2 * P) * A
    BY <1>1, <2>1
  <2>6. d <= e /\ e < f
    BY <2>2, <2>3, <2>4, <2>5
  <2> QED BY <1>2, <2>1, <2>4, <2>5, <2>6
<1>4. v < Weight(n + 1)
  <2>1. PICK f \in Nat : f = Base * W
    BY <1>1, BaseRule, ProductsOrder
  <2>2. 2 * v < f
    BY <1>3, <2>1
  <2>3. v < f
    BY <2>2
  <2> QED BY <1>1, <2>1, <2>3
<1>5. WordsOf(v, n + 1) \in Seq(Limb) /\ Len(WordsOf(v, n + 1)) = n + 1
      /\ WordsValue(WordsOf(v, n + 1)) = v
  <2>1. \A x, k \in Nat : /\ WordsOf(x, k) \in Seq(Limb) /\ Len(WordsOf(x, k)) = k
                          /\ x < Weight(k) => WordsValue(WordsOf(x, k)) = x
    BY WordsOfRule
  <2>2. n + 1 \in Nat
    BY <1>1
  <2> QED BY <1>2, <1>4, <2>1, <2>2
<1> QED BY <1>1, <1>2, <1>3, <1>5

\* The low n limbs of an array are all of a number that fits them.
LEMMA CutAtZeros ==
    ASSUME NEW w \in Seq(Limb), NEW n \in Nat, n <= Len(w), WordsValue(w) < Weight(n),
           NEW v, v = SubSeq(w, 1, n)
    PROVE  v \in Seq(Limb) /\ Len(v) = n /\ WordsValue(v) = WordsValue(w)
<1>1. Len(w) \in Nat /\ n \in 0 .. Len(w)
  BY LimbsAreIntegers
<1>2. /\ v \in Seq(Limb) /\ Len(v) = n /\ SubSeq(w, n + 1, Len(w)) \in Seq(Limb)
      /\ WordsValue(w) = WordsValue(v) + Weight(n) * WordsValue(SubSeq(w, n + 1, Len(w)))
  BY <1>1, CutWords
<1>3. PICK W \in Nat \ {0}, x \in Nat, y \in Nat :
        /\ W = Weight(n) /\ x = WordsValue(v) /\ y = WordsValue(SubSeq(w, n + 1, Len(w)))
        /\ x + W * y < W /\ WordsValue(w) = x + W * y
  <2>1. WordsValue(v) \in Nat /\ WordsValue(SubSeq(w, n + 1, Len(w))) \in Nat
    BY <1>2, WordsBound
  <2>2. Weight(n) \in Nat \ {0}
    BY WeightRule
  <2> QED BY <1>2, <2>1, <2>2
<1>4. y = 0
  <2>1. \A a, b \in Nat, c \in Nat \ {0} : a + c * b < c => b = 0
    <3> TAKE a, b \in Nat, c \in Nat \ {0}
    <3> HAVE a + c * b < c
    <3>1. b >= 1 => c * b >= c
      OBVIOUS
    <3>2. c * b \in Nat
      OBVIOUS
    <3> QED BY <3>1, <3>2
  <2> QED BY <1>3, <2>1
<1>5. W * 0 = 0
  BY <1>3
<1> QED BY <1>2, <1>3, <1>4, <1>5

\* A number of t W up to (t + 1) W, lifted.
LEMMA LiftedBounds ==
    ASSUME NEW t \in Nat, NEW P \in Nat \ {0}, NEW B \in Nat \ {0}, NEW W \in Nat \ {0}, NEW l \in Nat, l < W,
           B <= 2 * (t * P), (t + 1) * P <= B, NEW M \in Nat, M = t * W + l,
           NEW v \in Nat, v = M * P
    PROVE  v < B * W /\ B * W <= 2 * v
<1>1. PICK T \in Nat : T = t * W /\ M = T + l
  BY ProductsOrder
<1>2. v < B * W
  <2>1. v < ((t + 1) * W) * P
    <3>1. (t + 1) * W = T + W
      BY <1>1
    <3>2. M + 1 <= T + W /\ M + 1 \in Nat /\ T + W \in Nat
      BY <1>1
    <3>3. (M + 1) * P <= (T + W) * P /\ (T + W) * P \in Nat
      BY <3>2, ProductsOrder
    <3>4. (M + 1) * P = v + P
      OBVIOUS
    <3>5. PICK e \in Nat : e = (T + W) * P
      BY <3>3
    <3> QED BY <3>1, <3>3, <3>4, <3>5
  <2>2. ((t + 1) * W) * P = ((t + 1) * P) * W
    <3>1. \A x, y, z \in Nat : (x * y) * z = (x * z) * y
      OBVIOUS
    <3>2. t + 1 \in Nat
      OBVIOUS
    <3> QED BY <3>1, <3>2
  <2>3. PICK c \in Nat : c = (t + 1) * P /\ c <= B
    OBVIOUS
  <2>4. c * W <= B * W /\ c * W \in Nat /\ B * W \in Nat
    BY <2>3, ProductsOrder
  <2>5. PICK e \in Nat, f \in Nat : e = c * W /\ f = B * W
    BY <2>4
  <2> QED BY <2>1, <2>2, <2>3, <2>4, <2>5
<1>3. B * W <= 2 * v
  <2>1. PICK c \in Nat : c = t * P /\ B <= 2 * c
    BY ProductsOrder
  <2>2. B * W <= (2 * c) * W /\ (2 * c) * W = 2 * (c * W)
    <3>1. PICK y \in Nat : y = 2 * c /\ B <= y
      BY <2>1
    <3>2. B * W <= y * W
      BY <3>1, ProductsOrder
    <3>3. \A x, z \in Nat : (2 * x) * z = 2 * (x * z)
      OBVIOUS
    <3> QED BY <2>1, <3>1, <3>2, <3>3
  <2>3. c * W = T * P
    <3>1. \A x, y, z \in Nat : (x * y) * z = (x * z) * y
      OBVIOUS
    <3> QED BY <1>1, <2>1, <3>1
  <2>4. T <= M
    BY <1>1
  <2>5. T * P <= M * P /\ T * P \in Nat
    BY <2>4, ProductsOrder
  <2>6. PICK e \in Nat, f \in Nat : e = T * P /\ f = B * W
    BY <2>5, ProductsOrder
  <2> QED BY <2>2, <2>3, <2>5, <2>6
<1> QED BY <1>2, <1>3

\* Twice a top limb at least half of Base.
LEMMA TopAtLeastHalf ==
    ASSUME NEW x \in Nat, NEW l \in Nat, NEW W \in Nat \ {0}, l < W, NEW h \in Nat, NEW v \in Nat,
           v = x * W + l, (2 * h) * W <= 2 * v
    PROVE  2 * h <= 2 * x
<1>1. v < (x + 1) * W
  <2>1. (x + 1) * W = x * W + W
    OBVIOUS
  <2>2. PICK e \in Nat : e = x * W
    OBVIOUS
  <2> QED BY <2>1, <2>2
<1>2. h * W <= v
  <2>1. (2 * h) * W = 2 * (h * W)
    OBVIOUS
  <2>2. PICK e \in Nat : e = h * W
    OBVIOUS
  <2> QED BY <2>1, <2>2
<1>3. h * W < (x + 1) * W
  <2>1. PICK e \in Nat, f \in Nat : e = h * W /\ f = (x + 1) * W
    OBVIOUS
  <2> QED BY <1>1, <1>2, <2>1
<1>4. h < x + 1
  <2>1. x + 1 \in Nat
    OBVIOUS
  <2> QED BY <1>3, <2>1, ProductsOrder
<1> QED BY <1>4

\* The arrays a division starts from: v is m after the shift by P.
ShiftedTo(v, m, n, P) ==
    /\ m \in Seq(Limb) /\ n \in Nat /\ n >= 2 /\ Len(m) = n /\ Lifts(P, m[n])
    /\ v = SubSeq(WordsOf(WordsValue(m) * P, n + 1), 1, n)

\* The modulus after the shift: no limb longer, and its top bit is set.
LEMMA ModulusShifted ==
    ASSUME NEW v, NEW m, NEW n, NEW P, ShiftedTo(v, m, n, P)
    PROVE  /\ v \in Seq(Limb) /\ Len(v) = n /\ WordsValue(v) = WordsValue(m) * P
           /\ Base <= 2 * v[n] /\ Base * Weight(n - 1) <= 2 * (WordsValue(m) * P)
<1>0. /\ m \in Seq(Limb) /\ n \in Nat /\ n >= 2 /\ Len(m) = n /\ Lifts(P, m[n])
      /\ v = SubSeq(WordsOf(WordsValue(m) * P, n + 1), 1, n)
  BY DEF ShiftedTo
<1>1. PICK k \in Nat : n = k + 1 /\ k = n - 1
  <2>1. n - 1 \in Nat /\ n = (n - 1) + 1
    BY <1>0
  <2> QED BY <2>1
<1>2. PICK t \in Nat, p \in Nat \ {0}, B \in Nat \ {0} :
        /\ t = m[n] /\ p = P /\ B = Base /\ B <= 2 * (t * p) /\ (t + 1) * p <= B
  <2>1. m[k + 1] \in Limb
    BY <1>0, <1>1, TopOne
  <2>2. m[n] \in Nat
    BY <1>1, <2>1, BaseRule DEF Limb
  <2> QED BY <1>0, <2>2, BaseRule DEF Lifts
<1>3. PICK l \in Nat, W \in Nat \ {0} : l < W /\ W = Weight(k) /\ WordsValue(m) = t * W + l
  <2>1. Weight(k) \in Nat \ {0}
    BY WeightRule
  <2>2. \E l \in Nat : l < Weight(k) /\ WordsValue(m) = m[k + 1] * Weight(k) + l
    BY <1>0, <1>1, TopOne
  <2> QED BY <1>1, <1>2, <2>1, <2>2
<1>4. Weight(n) = B * W
  BY <1>1, <1>2, <1>3, WeightRule
<1>5. PICK M \in Nat, v0 \in Nat : M = WordsValue(m) /\ v0 = M * p
  <2>1. WordsValue(m) \in Nat
    BY <1>0, WordsBound
  <2> QED BY <1>2, <2>1, ProductsOrder
<1>6. v0 < B * W /\ B * W <= 2 * v0
  <2>1. M = t * W + l
    BY <1>3, <1>5
  <2> QED BY <1>2, <1>3, <1>5, <2>1, LiftedBounds
<1>7. PICK w : w = WordsOf(v0, n + 1)
  OBVIOUS
<1>8. w \in Seq(Limb) /\ Len(w) = n + 1 /\ WordsValue(w) = v0
  <2>1. n + 1 \in Nat /\ n <= n + 1
    BY <1>0
  <2>2. v0 < Weight(n + 1)
    <3>1. Weight(n) <= Weight(n + 1)
      BY <1>0, <2>1, WeightGrows
    <3>2. Weight(n) \in Nat /\ Weight(n + 1) \in Nat
      BY <1>0, <2>1, WeightRule
    <3>3. v0 < Weight(n)
      BY <1>4, <1>6
    <3> QED BY <3>1, <3>2, <3>3
  <2>3. \A x, j \in Nat : /\ WordsOf(x, j) \in Seq(Limb) /\ Len(WordsOf(x, j)) = j
                          /\ x < Weight(j) => WordsValue(WordsOf(x, j)) = x
    BY WordsOfRule
  <2> QED BY <1>7, <2>1, <2>2, <2>3
<1>9. v = SubSeq(w, 1, n)
  BY <1>0, <1>2, <1>5, <1>7
<1>10. v \in Seq(Limb) /\ Len(v) = n /\ WordsValue(v) = v0
  <2>1. WordsValue(w) < Weight(n)
    BY <1>4, <1>6, <1>8
  <2>2. n <= Len(w)
    BY <1>0, <1>8
  <2> QED BY <1>0, <1>8, <1>9, <2>1, <2>2, CutAtZeros
<1>11. PICK x \in Nat, e \in Nat : x = v[n] /\ e < W /\ v0 = x * W + e
  <2>1. v[k + 1] \in Limb /\ \E l2 \in Nat : l2 < Weight(k) /\ WordsValue(v) = v[k + 1] * Weight(k) + l2
    BY <1>1, <1>10, TopOne
  <2>2. v[n] \in Nat
    BY <1>1, <2>1, BaseRule DEF Limb
  <2>3. PICK e \in Nat : e < W /\ v0 = v[n] * W + e
    BY <1>1, <1>3, <1>10, <2>1
  <2> QED BY <2>2, <2>3
\* Base is even.
<1>12. PICK h \in Nat : B = 2 * h
  <2>1. LimbBits \in Nat \ {0}
    BY LimbBitsAssumption
  <2>2. PICK j \in Nat : LimbBits = j + 1
    <3>1. LimbBits - 1 \in Nat /\ LimbBits = (LimbBits - 1) + 1
      BY <2>1
    <3> QED BY <3>1
  <2>3. Base = 2 * PowerOf(2, j) /\ PowerOf(2, j) \in Nat
    BY <2>2, TwoPowers DEF Base
  <2> QED BY <1>2, <2>3
<1>13. 2 * h <= 2 * x
  <2>1. (2 * h) * W <= 2 * v0
    BY <1>6, <1>12
  <2> QED BY <1>3, <1>5, <1>11, <2>1, TopAtLeastHalf
<1>14. Base <= 2 * v[n]
  BY <1>2, <1>11, <1>12, <1>13
<1>15. Base * Weight(n - 1) <= 2 * (WordsValue(m) * P)
  BY <1>1, <1>2, <1>3, <1>5, <1>6
<1>16. WordsValue(v) = WordsValue(m) * P
  BY <1>2, <1>5, <1>10
<1> QED BY <1>10, <1>14, <1>15, <1>16

\* The shifted numbers are ready for the first digit.
LEMMA DivisionStarts == DivisionInit => DivInv
<1> SUFFICES ASSUME DivisionInit PROVE DivInv
  OBVIOUS
<1>1. PICK k \in ModulusLimbs : divisionM \in [1 .. k -> Limb]
  BY DEF DivisionInit
<1>2. PICK j \in NumberLimbs : divisionA \in [1 .. j -> Limb]
  BY DEF DivisionInit
<1>3. /\ divisionM \in Seq(Limb) /\ Len(divisionM) = divisionN /\ divisionN \in Nat /\ divisionN >= 2
      /\ divisionA \in Seq(Limb) /\ Len(divisionA) \in Nat \ {0}
  <2>1. k \in Nat /\ k >= 2 /\ j \in Nat \ {0}
    BY DivisionAssumption
  <2> QED BY <1>1, <1>2, <2>1 DEF divisionN
<1>4. PICK n \in Nat, L \in Nat : n = divisionN /\ L = Len(divisionA) /\ n >= 2 /\ n = Len(divisionM)
  BY <1>3
<1>5. PICK t : t = Top(divisionM)
  OBVIOUS
<1>6. t = divisionM[n] /\ t \in Limb /\ t # 0
  <2>1. n \in 1 .. Len(divisionM)
    BY <1>4
  <2>2. divisionM[n] \in Limb
    BY <1>3, <2>1
  <2>3. t = divisionM[n]
    BY <1>4, <1>5 DEF Top
  <2>4. t # 0
    BY <1>5 DEF DivisionInit
  <2> QED BY <2>2, <2>3, <2>4
<1>7. PICK s : s = Shift /\ s = LimbBits - BitsOf(t)
  BY <1>5 DEF Shift
<1>8. PICK P : P = PowerOf(2, Shift)
  OBVIOUS
<1>9. Shift \in 0 .. LimbBits - 1 /\ Lifts(P, divisionM[n])
  BY <1>6, <1>7, <1>8, ShiftRule
<1>10. PICK p \in Nat \ {0} : p = P /\ 2 * p <= Base
  BY <1>9 DEF Lifts
<1>11. ShiftedTo(vn, divisionM, n, P)
  <2>1. vn = SubSeq(WordsOf(WordsValue(divisionM) * P, n + 1), 1, n)
    BY <1>4, <1>8 DEF DivisionInit, ShiftedLeft
  <2> QED BY <1>3, <1>4, <1>9, <2>1 DEF ShiftedTo
<1>12. /\ vn \in Seq(Limb) /\ Len(vn) = n /\ WordsValue(vn) = WordsValue(divisionM) * P
       /\ Base <= 2 * vn[n] /\ Base * Weight(n - 1) <= 2 * (WordsValue(divisionM) * P)
  BY <1>11, ModulusShifted
<1>13. /\ un \in Seq(Limb) /\ Len(un) = L + 1 /\ WordsValue(un) = Dividend /\ Dividend \in Nat
       /\ 2 * Dividend < Base * Weight(L)
  <2>1. un = WordsOf(WordsValue(divisionA) * p, Len(divisionA) + 1) /\ Dividend = WordsValue(divisionA) * p
    BY <1>8, <1>10 DEF DivisionInit, ShiftedLeft, Dividend
  <2>2. /\ un \in Seq(Limb) /\ Len(un) = Len(divisionA) + 1
        /\ WordsValue(un) = WordsValue(divisionA) * p /\ WordsValue(divisionA) * p \in Nat
        /\ 2 * (WordsValue(divisionA) * p) < Base * Weight(Len(divisionA))
    BY <1>3, <1>10, <2>1, ShiftedWords
  <2> QED BY <1>4, <2>1, <2>2
<1>14. n <= L
  <2>1. CASE L < n
    <3>1. divisionM[Len(divisionM)] # 0
      BY <1>4, <1>6
    <3>2. WordsValue(divisionA) < WordsValue(divisionM)
      BY <1>3, <1>4, <2>1, <3>1, LongerIsLarger
    <3>3. WordsValue(divisionA) >= WordsValue(divisionM)
      BY DEF DivisionInit
    <3>4. WordsValue(divisionA) \in Nat /\ WordsValue(divisionM) \in Nat
      BY <1>3, WordsBound
    <3> QED BY <3>2, <3>3, <3>4
  <2> QED BY <1>4, <2>1
<1>15. offset \in Nat /\ offset = L - n /\ offset + n = L
  BY <1>4, <1>14 DEF DivisionInit
<1>16. Dividing(un, vn, divisionN, offset)
  <2>1. offset + n < Len(un)
    BY <1>4, <1>13, <1>15
  <2> QED BY <1>4, <1>12, <1>13, <1>15, <2>1 DEF Dividing
<1>17. PICK M \in Nat, V \in Nat, U \in Nat :
         M = WordsValue(divisionM) /\ V = WordsValue(vn) /\ U = Dividend /\ V = M * p
  <2>1. WordsValue(divisionM) \in Nat /\ WordsValue(vn) \in Nat
    BY <1>3, <1>12, WordsBound
  <2> QED BY <1>10, <1>12, <1>13, <2>1
<1>18. M # 0
  <2>1. V # 0
    BY <1>16, <1>17, ModulusRule
  <2> QED BY <1>10, <1>17, <2>1
<1>19. U < V * Weight(offset + 1)
  <2>1. PICK W \in Nat \ {0}, Q \in Nat \ {0}, B \in Nat \ {0} :
          /\ W = Weight(n - 1) /\ Q = Weight(offset + 1) /\ B = Base /\ Weight(L) = W * Q
    <3>1. n - 1 \in Nat /\ offset + 1 \in Nat /\ (n - 1) + (offset + 1) = L
      BY <1>4, <1>15
    <3>2. Weight((n - 1) + (offset + 1)) = Weight(n - 1) * Weight(offset + 1)
      BY <3>1, WeightRule
    <3>3. Weight(n - 1) \in Nat \ {0} /\ Weight(offset + 1) \in Nat \ {0}
      BY <3>1, WeightRule
    <3> QED BY <3>1, <3>2, <3>3, BaseRule
  <2>2. PICK c \in Nat : c = B * W /\ c <= 2 * V
    <3>1. B * W <= 2 * V
      BY <1>10, <1>12, <1>17, <2>1
    <3> QED BY <2>1, <3>1
  <2>3. 2 * U < c * Q
    <3>1. B * (W * Q) = (B * W) * Q
      BY <2>1
    <3> QED BY <1>13, <1>17, <2>1, <2>2, <3>1
  <2>4. c * Q <= (2 * V) * Q /\ (2 * V) * Q = 2 * (V * Q)
    <3>1. PICK y \in Nat : y = 2 * V
      BY <1>17
    <3>2. c * Q <= y * Q
      BY <2>1, <2>2, <3>1, ProductsOrder
    <3>3. \A x, z \in Nat : (2 * x) * z = 2 * (x * z)
      OBVIOUS
    <3> QED BY <1>17, <2>1, <3>1, <3>2, <3>3
  <2>5. PICK e \in Nat, f \in Nat : e = c * Q /\ f = V * Q
    BY <1>17, <2>1, <2>2
  <2> QED BY <1>17, <2>1, <2>3, <2>4, <2>5
<1>20. Rest(WordsValue(un), WordsValue(vn), Dividend, offset + 1)
  <2>1. U = 0 * V + U
    BY <1>17
  <2> QED BY <1>13, <1>15, <1>17, <1>19, <2>1 DEF Rest
<1>21. DivSetting
  <2>1. WordsValue(vn) = WordsValue(divisionM) * PowerOf(2, Shift)
    BY <1>8, <1>12
  <2>2. offset + divisionN <= Len(divisionA)
    BY <1>4, <1>15
  <2> QED BY <1>3, <1>4, <1>9, <1>13, <1>17, <1>18, <2>1, <2>2 DEF DivSetting
<1>22. divisionPc = "estimate"
  BY DEF DivisionInit
<1> QED BY <1>16, <1>20, <1>21, <1>22 DEF DivInv

\* Every step of the division keeps what the next one relies on.
LEMMA DivisionStep == DivInv /\ [DivisionNext]_divisionVars => DivInv'
<1>1. DivInv /\ UNCHANGED divisionVars => DivInv'
  BY DEF DivInv, divisionVars, DivSetting, divisionN, Shift, Top, Dividend
<1> QED BY <1>1, EstimateKeeps, CorrectKeeps, SubtractKeeps, AddBackKeeps
        DEF DivisionNext, DivisionFinished

\* A multiple of V below zero has no rest either.
LEMMA NoRest ==
    ASSUME NEW V \in Nat \ {0}, NEW k \in Nat, NEW x \in Int, x = - (k * V)
    PROVE  x % V = 0
<1>1. PICK Y \in Nat, h \in Int : Y = x % V /\ Y < V /\ x = Y + h * V
  <2>1. x % V \in 0 .. V - 1 /\ x \div V \in Int /\ x = V * (x \div V) + (x % V)
    OBVIOUS
  <2>2. V * (x \div V) = (x \div V) * V
    BY <2>1
  <2>3. PICK y \in Nat, h \in Int, e \in Int : y = x % V /\ h = x \div V /\ e = h * V
    BY <2>1
  <2>4. y < V /\ x = y + e
    BY <2>1, <2>2, <2>3
  <2> QED BY <2>3, <2>4
<1>2. PICK c \in Int : c = - k
  OBVIOUS
<1>3. c * V = x /\ (c + 1) * V = x + V
  <2>1. \A a, b \in Int : (- a) * b = - (a * b) /\ (a + 1) * b = a * b + b
    OBVIOUS
  <2> QED BY <1>2, <2>1
<1>4. Y = x - c * V
  <2>1. c * V <= x /\ x < (c + 1) * V
    BY <1>3
  <2>2. \A W \in Nat \ {0}, y \in Nat : \A a, b, e \in Int :
          y < W /\ e = y + a * W /\ b * W <= e /\ e < (b + 1) * W => y = e - b * W
    BY TopOfDifference, Zenon
  <2>3. \A a, b, e \in Int : Y < V /\ e = Y + a * V /\ b * V <= e /\ e < (b + 1) * V => Y = e - b * V
    BY <1>1, <2>2
  <2>4. \A b, e \in Int : e = Y + h * V /\ b * V <= e /\ e < (b + 1) * V => Y = e - b * V
    BY <1>1, <2>3
  <2>5. x = Y + h * V => Y = x - c * V
    BY <1>2, <2>1, <2>4
  <2> QED BY <1>1, <2>5
<1> QED BY <1>1, <1>3, <1>4

\* What the loop promises of each digit, from what it keeps.
LEMMA DivisionHolds == DivInv => DivisionTypeOK /\ EstimateIsClose /\ RestIsCongruent
<1> SUFFICES ASSUME DivInv PROVE DivisionTypeOK /\ EstimateIsClose /\ RestIsCongruent
  OBVIOUS
<1>1. /\ DivSetting /\ Dividing(un, vn, divisionN, offset)
      /\ divisionPc \in {"estimate", "correct", "subtract", "addback", "done"}
  BY DEF DivInv
<1>2. DivisionTypeOK
  <2>1. un \in Seq(Limb) /\ offset \in Nat /\ divisionN \in Nat
    BY <1>1 DEF Dividing
  <2>2. \A i \in DOMAIN un : un[i] \in Limb
    BY <2>1
  <2>3. divisionA \in Seq(Limb) /\ offset + divisionN <= Len(divisionA)
    BY <1>1 DEF DivSetting
  <2>4. Len(divisionA) \in Nat
    BY <2>3
  <2>5. offset \in 0 .. Len(divisionA) - divisionN
    BY <2>1, <2>3, <2>4
  <2> QED BY <1>1, <2>2, <2>5 DEF DivisionTypeOK
<1>3. EstimateIsClose
  <2>1. divisionPc = "subtract" => Close(un, vn, offset, divisionN, qhat)
    BY DEF DivInv
  <2> QED BY <2>1 DEF Close, EstimateIsClose, Window, WindowValue
<1>4. RestIsCongruent
  <2> SUFFICES ASSUME divisionPc \in {"estimate", "done"}
               PROVE  /\ (WordsValue(un) - Dividend) % WordsValue(vn) = 0
                      /\ WordsValue(un) < WordsValue(vn) * PowerOf(Base, IF divisionPc = "done" THEN 0 ELSE offset + 1)
    BY DEF RestIsCongruent, Dividend
  <2>1. PICK j : /\ Rest(WordsValue(un), WordsValue(vn), Dividend, j)
                 /\ j = IF divisionPc = "done" THEN 0 ELSE offset + 1
    BY DEF DivInv
  <2>2. PICK U \in Nat, V \in Nat \ {0} : U = WordsValue(un) /\ V = WordsValue(vn)
    <3>1. WordsValue(vn) \in Nat \ {0}
      BY <1>1, ModulusRule
    <3> QED BY <2>1, <3>1 DEF Rest
  <2>3. PICK k \in Nat : Dividend = k * V + U
    BY <2>1, <2>2 DEF Rest
  <2>4. PICK x \in Int : x = U - Dividend /\ x = - (k * V)
    <3>1. PICK e \in Nat : e = k * V
      BY <2>2, ProductsOrder
    <3>2. U - Dividend = - e
      BY <2>2, <2>3, <3>1
    <3> QED BY <3>1, <3>2
  <2>5. x % V = 0
    BY <2>2, <2>4, NoRest
  <2>6. U < V * Weight(j)
    BY <2>1, <2>2 DEF Rest
  <2> QED BY <2>1, <2>2, <2>4, <2>5, <2>6 DEF Weight
<1> QED BY <1>2, <1>3, <1>4

-----------------------------------------------------------------------------
(* Where it ends: the remainder shifted back.                                *)

\* There is one way to write a number as a multiple of B and what is below B.
LEMMA SplitByDivisor ==
    \A n, q, r \in Nat : \A B \in Nat \ {0} : n = B * q + r /\ r < B => n % B = r /\ n \div B = q
BY DivisionUnique

\* The bits that one limb hands down to the next: the low bits of b, moved to the top.
LEMMA BitsDown ==
    ASSUME NEW P \in Nat \ {0}, NEW e \in Nat \ {0}, NEW B, B = P * e, NEW b \in Nat
    PROVE  (b * e) % B \in Nat /\ P * ((b * e) % B) = (b % P) * B
<1>1. PICK a \in Nat, c \in Nat : c = b % P /\ c < P /\ b = P * a + c
  <2>1. b \div P \in Nat /\ b % P \in 0 .. P - 1 /\ b = P * (b \div P) + (b % P)
    BY Division
  <2>2. b % P \in Nat /\ b % P < P
    BY <2>1
  <2> QED BY <2>1, <2>2
<1>2. B \in Nat \ {0}
  <2>1. \A x, y \in Nat \ {0} : x * y \in Nat \ {0}
    OBVIOUS
  <2> QED BY <2>1
<1>3. PICK n \in Nat, r \in Nat : n = b * e /\ r = c * e
  BY <1>1, ProductsOrder
<1>4. n = B * a + r
  <2>1. \A x, y, z, t \in Nat : (x * y + z) * t = (x * t) * y + z * t
    OBVIOUS
  <2>2. (P * a + c) * e = (P * e) * a + c * e
    BY <1>1, <2>1
  <2> QED BY <1>1, <1>3, <2>2
<1>5. r < B
  <2>1. \A x, y \in Nat, z \in Nat \ {0} : x < y => x * z < y * z
    <3> TAKE x, y \in Nat, z \in Nat \ {0}
    <3> HAVE x < y
    <3>1. (x + 1) * z <= y * z
      BY ProductsOrder
    <3>2. (x + 1) * z = x * z + z
      OBVIOUS
    <3>3. PICK k \in Nat, f \in Nat : k = x * z /\ f = y * z
      OBVIOUS
    <3> QED BY <3>1, <3>2, <3>3
  <2> QED BY <1>1, <1>3, <2>1
<1>6. n % B = r
  <2>1. PICK D \in Nat \ {0} : D = B /\ n = D * a + r /\ r < D
    BY <1>2, <1>4, <1>5
  <2>2. \A q, t \in Nat : \A x \in Nat \ {0} : n = x * q + t /\ t < x => n % x = t
    BY <1>3, SplitByDivisor
  <2>3. \A x \in Nat \ {0} : n = x * a + r /\ r < x => n % x = r
    BY <1>1, <1>3, <2>2
  <2>4. n % D = r
    BY <2>1, <2>3
  <2> QED BY <2>1, <2>4
<1>7. P * (c * e) = c * (P * e)
  <2>1. \A x, y, z \in Nat : x * (y * z) = y * (x * z)
    OBVIOUS
  <2> QED BY <1>1, <2>1
<1> QED BY <1>1, <1>3, <1>6, <1>7

\* w is u shifted back by P, with what comes down from the limb above.
BackShifted(w, u, n, P, e) ==
    /\ u \in Seq(Limb) /\ n \in Nat /\ n >= 2 /\ n <= Len(u)
    /\ P \in Nat \ {0} /\ e \in Nat \ {0} /\ Base = P * e
    /\ w = [i \in 1 .. n |-> (u[i] \div P) + (IF i = n THEN 0 ELSE Low(u[i + 1] * e))]

\* Limb by limb that is the quotient by P.
LEMMA BackShiftedRule ==
    ASSUME NEW w, NEW u, NEW n, NEW P, NEW e, BackShifted(w, u, n, P, e), WordsValue(u) < Weight(n)
    PROVE  WordsValue(w) = WordsValue(u) \div P
<1>1. /\ u \in Seq(Limb) /\ n \in Nat /\ n >= 2 /\ n <= Len(u) /\ Len(u) \in Nat
      /\ P \in Nat \ {0} /\ e \in Nat \ {0} /\ Base = P * e
      /\ w = [i \in 1 .. n |-> (u[i] \div P) + (IF i = n THEN 0 ELSE Low(u[i + 1] * e))]
  BY DEF BackShifted
<1>2. PICK p : p = Places(u)
  OBVIOUS
<1>3. /\ p \in [Nat -> Nat] /\ \A k \in Nat : k < Len(u) => p[k] = u[k + 1]
  <2>1. /\ Places(u) \in [Nat -> Int] /\ \A k \in Nat : Places(u)[k] = At(u, k)
        /\ \A k \in 0 .. Len(u) - 1 : Places(u)[k] = u[k + 1]
    BY <1>1, LimbsAreIntegers, PlacesOfWords
  <2>2. \A k \in Nat : p[k] \in Nat
    <3>1. \A k \in Nat : At(u, k) \in Nat
      BY <1>1, LimbsAreIntegers
    <3> QED BY <1>2, <2>1, <3>1
  <2>3. p \in [Nat -> Nat]
    <3>1. p \in [Nat -> Int]
      BY <1>2, <2>1
    <3> QED BY <2>2, <3>1
  <2>4. \A k \in Nat : k < Len(u) => p[k] = u[k + 1]
    <3> TAKE k \in Nat
    <3> HAVE k < Len(u)
    <3>1. k \in 0 .. Len(u) - 1
      BY <1>1
    <3> QED BY <1>2, <2>1, <3>1
  <2> QED BY <2>3, <2>4
<1> DEFINE down(k) == IF k = n - 1 THEN 0 ELSE (p[k + 1] * e) % Base
           q == [k \in Nat |-> (p[k] \div P) + down(k)]
           r == [k \in Nat |-> IF k = n THEN 0 ELSE p[k] % P]
<1>4. \A k \in Nat : /\ p[k] \in Nat /\ p[k] \div P \in Nat /\ p[k] % P \in Nat /\ p[k] % P < P
                     /\ p[k] = P * (p[k] \div P) + (p[k] % P)
  <2> TAKE k \in Nat
  <2>1. p[k] \in Nat
    BY <1>3
  <2>2. p[k] \div P \in Nat /\ p[k] % P \in 0 .. P - 1 /\ p[k] = P * (p[k] \div P) + (p[k] % P)
    BY <1>1, <2>1, Division
  <2> QED BY <1>1, <2>1, <2>2
<1>5. \A k \in Nat : /\ (p[k + 1] * e) % Base \in Nat
                     /\ P * ((p[k + 1] * e) % Base) = (p[k + 1] % P) * Base
  <2> TAKE k \in Nat
  <2>1. p[k + 1] \in Nat
    BY <1>3
  <2> QED BY <1>1, <2>1, BitsDown
<1>6. \A k \in Nat : down(k) \in Nat
  BY <1>5
<1>7. q \in [Nat -> Nat] /\ r \in [Nat -> Nat]
  BY <1>4, <1>6
<1>8. ASSUME NEW i \in Nat, i < n
      PROVE  r[i + 1] * Base + p[i] = P * q[i] + r[i]
  <2>1. PICK a \in Nat, c \in Nat, f \in Nat :
          /\ a = p[i] \div P /\ c = p[i] % P /\ f = down(i) /\ p[i] = P * a + c
    BY <1>4, <1>6, <1>8
  <2>2. q[i] = a + f /\ r[i] = c
    <3>1. i # n
      BY <1>1, <1>8
    <3> QED BY <2>1, <3>1
  <2>3. P * (a + f) = P * a + P * f
    BY <1>1
  <2>4. P * f = r[i + 1] * Base
    <3>1. CASE i = n - 1
      <4>1. i + 1 = n /\ i + 1 \in Nat
        BY <1>1, <3>1
      <4>2. r[i + 1] = 0 /\ f = 0
        BY <2>1, <3>1, <4>1
      <4>3. P * 0 = 0 /\ 0 * Base = 0
        BY <1>1, BaseRule
      <4> QED BY <4>2, <4>3
    <3>2. CASE i # n - 1
      <4>1. i + 1 # n /\ i + 1 \in Nat
        BY <1>1, <1>8, <3>2
      <4>2. r[i + 1] = p[i + 1] % P
        BY <4>1
      <4>3. f = (p[i + 1] * e) % Base
        BY <2>1, <3>2
      <4> QED BY <1>5, <4>2, <4>3
    <3> QED BY <3>1, <3>2
  <2>5. PICK x \in Nat, y \in Nat : x = P * a /\ y = P * f
    BY <1>1, <2>1, ProductsOrder
  <2>6. p[i] = x + c /\ r[i + 1] * Base = y /\ P * q[i] = x + y
    BY <2>1, <2>2, <2>3, <2>4, <2>5
  <2> QED BY <2>1, <2>2, <2>5, <2>6
<1>9. r[n] = 0 /\ r[0] < P
  <2>1. 0 # n /\ 0 \in Nat /\ n \in Nat
    BY <1>1
  <2>2. r[n] = 0 /\ r[0] = p[0] % P
    BY <2>1
  <2> QED BY <1>4, <2>1, <2>2
<1>10. \A i \in 0 .. n - 1 : w[i + 1] = q[i]
  <2> TAKE i \in 0 .. n - 1
  <2>1. i \in Nat /\ i + 1 \in 1 .. n /\ i < Len(u)
    BY <1>1
  <2>2. p[i] = u[i + 1]
    BY <1>3, <2>1
  <2>3. CASE i = n - 1
    <3>1. i + 1 = n
      BY <1>1, <2>3
    <3> QED BY <1>1, <2>1, <2>2, <2>3, <3>1
  <2>4. CASE i # n - 1
    <3>1. i + 1 # n /\ i + 1 \in Nat /\ i + 1 < Len(u)
      BY <1>1, <2>1, <2>4
    <3>2. p[i + 1] = u[(i + 1) + 1]
      BY <1>3, <3>1
    <3>3. w[i + 1] = (u[i + 1] \div P) + Low(u[(i + 1) + 1] * e)
      BY <1>1, <2>1, <3>1
    <3>4. q[i] = (p[i] \div P) + ((p[i + 1] * e) % Base)
      BY <2>1, <2>4
    <3> QED BY <2>2, <3>2, <3>3, <3>4 DEF Low
  <2> QED BY <2>3, <2>4
<1> HIDE DEF down, q, r
<1>11. Quotients(p, q, r, P, n)
  BY <1>1, <1>3, <1>7, <1>8, <1>9 DEF Quotients
<1>12. Value(q, n) = Value(p, n) \div P
  BY <1>11, LongQuotient
<1>13. Value(p, n) = WordsValue(u)
  BY <1>1, <1>2, LowPlaces
<1>14. WordsValue(w) = Value(q, n)
  <2>1. Len(w) = n /\ w \in [1 .. n -> Int]
    <3>1. \A i \in 1 .. n : w[i] \in Int
      <4> TAKE i \in 1 .. n
      <4>1. PICK j \in 0 .. n - 1 : i = j + 1
        <5>1. i - 1 \in 0 .. n - 1 /\ i = (i - 1) + 1
          BY <1>1
        <5> QED BY <5>1
      <4>2. j \in Nat
        BY <1>1
      <4> QED BY <1>7, <1>10, <4>1, <4>2
    <3>2. DOMAIN w = 1 .. n /\ w = [i \in 1 .. n |-> w[i]]
      BY <1>1
    <3>3. w \in [1 .. n -> Int]
      BY <3>1, <3>2
    <3> QED BY <1>1, <3>3
  <2>2. w \in Seq(Int)
    BY <1>1, <2>1
  <2>3. q \in [Nat -> Int]
    <3>1. \A k \in Nat : q[k] \in Int
      BY <1>7
    <3>2. q = [k \in Nat |-> q[k]]
      BY <1>7
    <3> QED BY <3>1, <3>2
  <2>4. \A k \in 0 .. Len(w) - 1 : w[k + 1] = q[k]
    BY <1>10, <2>1
  <2> QED BY <2>1, <2>2, <2>3, <2>4, ValueOfPlaces
<1> QED BY <1>12, <1>13, <1>14

\* U is what k times M leaves of A, all of them shifted by P.
LeftOver(A, M, P, k, U) ==
    /\ A \in Nat /\ M \in Nat \ {0} /\ P \in Nat \ {0} /\ k \in Nat /\ U \in Nat
    /\ U < M * P /\ A * P = k * (M * P) + U

\* Shifted back, it is the number modulo the modulus.
LEMMA RemainderRule ==
    ASSUME NEW A, NEW M, NEW P, NEW k, NEW U, LeftOver(A, M, P, k, U)
    PROVE  U \div P = A % M
<1>0. /\ A \in Nat /\ M \in Nat \ {0} /\ P \in Nat \ {0} /\ k \in Nat /\ U \in Nat
      /\ U < M * P /\ A * P = k * (M * P) + U
  BY DEF LeftOver
<1>1. PICK b \in Nat : b = k * M
  BY <1>0, ProductsOrder
<1>2. A * P = b * P + U /\ b * P \in Nat /\ A * P \in Nat
  <2>1. \A x, y, z \in Nat : x * (y * z) = (x * y) * z
    OBVIOUS
  <2> QED BY <1>0, <1>1, <2>1, ProductsOrder
<1>3. b <= A
  <2>1. CASE A < b
    <3>1. A + 1 <= b /\ A + 1 \in Nat
      BY <1>0, <2>1
    <3>2. (A + 1) * P <= b * P /\ (A + 1) * P = A * P + P
      BY <1>0, <3>1, ProductsOrder
    <3>3. PICK e \in Nat, f \in Nat : e = A * P /\ f = b * P
      BY <1>0, <1>2
    <3> QED BY <1>0, <1>2, <3>2, <3>3
  <2> QED BY <1>0, <2>1
<1>4. PICK R \in Nat : A = b + R
  <2>1. A - b \in Nat /\ A = b + (A - b)
    BY <1>0, <1>3
  <2> QED BY <1>0, <2>1
<1>5. U = P * R
  <2>1. (b + R) * P = b * P + R * P
    BY <1>0
  <2>2. PICK e \in Nat, f \in Nat : e = b * P /\ f = R * P
    BY <1>0, ProductsOrder
  <2>3. U = f
    BY <1>0, <1>2, <1>4, <2>1, <2>2
  <2> QED BY <1>0, <2>2, <2>3
<1>6. R < M
  <2>1. R * P < M * P
    <3>1. R * P = P * R
      BY <1>0
    <3> QED BY <1>0, <1>5, <3>1
  <2> QED BY <1>0, <2>1, ProductsOrder
<1>7. A % M = R
  <2>1. A = M * k + R
    <3>1. M * k = k * M
      BY <1>0
    <3> QED BY <1>0, <1>1, <1>4, <3>1
  <2> QED BY <1>0, <1>6, <2>1, DivisionUnique
<1>8. U \div P = R
  <2>1. U = P * R + 0 /\ 0 < P
    BY <1>0, <1>5
  <2>2. 0 \in Nat
    OBVIOUS
  <2>3. \A q, r \in Nat : \A x \in Nat \ {0} : U = x * q + r /\ r < x => U \div x = q
    BY SMTT(20), <1>0, SplitByDivisor
  <2>4. \A r \in Nat : \A x \in Nat \ {0} : U = x * R + r /\ r < x => U \div x = R
    BY <1>4, <2>3
  <2>5. \A x \in Nat \ {0} : U = x * R + 0 /\ 0 < x => U \div x = R
    BY <2>2, <2>4
  <2> QED BY <1>0, <2>1, <2>5
<1> QED BY <1>0, <1>7, <1>8

\* The remainder handed over, when the loop has ended.
LEMMA DivisionRemainderHolds == DivInv => RemainderIsExact
<1> SUFFICES ASSUME DivInv, divisionPc = "done"
             PROVE  WordsValue(DivisionRemainder) = WordsValue(divisionA) % WordsValue(divisionM)
  BY DEF RemainderIsExact
<1>1. /\ DivSetting /\ Dividing(un, vn, divisionN, offset)
      /\ Rest(WordsValue(un), WordsValue(vn), Dividend, 0)
  BY DEF DivInv
<1>2. PICK n \in Nat : n = divisionN /\ n >= 2 /\ n <= Len(un)
  <2>1. divisionN \in Nat /\ offset \in Nat /\ un \in Seq(Limb) /\ divisionN >= 2
    BY <1>1 DEF Dividing
  <2>2. offset + divisionN < Len(un) /\ Len(un) \in Nat
    BY <1>1, <2>1 DEF Dividing
  <2> QED BY <2>1, <2>2
<1>3. un \in Seq(Limb) /\ WordsValue(vn) < Weight(n)
  BY <1>1, <1>2, ModulusRule DEF Dividing
<1>4. PICK s \in Nat : s = Shift /\ s \in 0 .. LimbBits - 1
  BY <1>1 DEF DivSetting
<1>5. PICK P \in Nat \ {0} : P = PowerOf(2, s)
  BY TwoPowers
<1>6. PICK A \in Nat, M \in Nat \ {0}, U \in Nat, V \in Nat :
        /\ A = WordsValue(divisionA) /\ M = WordsValue(divisionM) /\ U = WordsValue(un)
        /\ V = WordsValue(vn) /\ V = M * P /\ Dividend = A * P
  <2>1. /\ WordsValue(divisionM) \in Nat \ {0} /\ divisionA \in Seq(Limb)
        /\ WordsValue(vn) = WordsValue(divisionM) * PowerOf(2, Shift)
    BY <1>1 DEF DivSetting
  <2>2. WordsValue(divisionA) \in Nat
    BY <2>1, WordsBound
  <2>3. WordsValue(un) \in Nat /\ WordsValue(vn) \in Nat
    BY <1>1 DEF Rest
  <2>4. Dividend = WordsValue(divisionA) * P
    BY <1>4, <1>5 DEF Dividend
  <2> QED BY <1>4, <1>5, <2>1, <2>2, <2>3, <2>4
<1>7. PICK k \in Nat : A * P = k * (M * P) + U /\ U < V
  <2>1. PICK k \in Nat : Dividend = k * V + U
    BY <1>1, <1>6 DEF Rest
  <2>2. U < V * Weight(0) /\ Weight(0) = 1
    BY <1>1, <1>6, WeightRule DEF Rest
  <2>3. U < V
    BY <1>6, <2>2
  <2> QED BY <1>6, <2>1, <2>3
<1>8. U \div P = A % M
  <2>1. U < M * P
    BY <1>6, <1>7
  <2>2. LeftOver(A, M, P, k, U)
    BY <1>5, <1>6, <1>7, <2>1 DEF LeftOver
  <2> QED BY <2>2, RemainderRule
<1>9. WordsValue(un) < Weight(n)
  <2>1. Weight(n) \in Nat
    BY WeightRule
  <2>2. V < Weight(n)
    BY <1>3, <1>6
  <2> QED BY <1>6, <1>7, <2>1, <2>2
<1>10. WordsValue(DivisionRemainder) = U \div P
  <2>1. CASE Shift = 0
    <3>1. DivisionRemainder = SubSeq(un, 1, n)
      BY <1>2, <2>1 DEF DivisionRemainder
    <3>2. WordsValue(DivisionRemainder) = WordsValue(un)
      BY <1>2, <1>3, <1>9, <3>1, CutAtZeros
    <3>3. P = 1
      BY <1>4, <1>5, <2>1, TwoPowers
    <3>4. U \div 1 = U
      BY <1>6
    <3> QED BY <1>6, <3>2, <3>3, <3>4
  <2>2. CASE Shift # 0
    <3>1. PICK j \in Nat, e \in Nat \ {0} : j = LimbBits - s /\ e = PowerOf(2, j) /\ Base = P * e
      <4>1. LimbBits - s \in Nat /\ s + (LimbBits - s) = LimbBits /\ 2 \in Nat \ {0}
        BY <1>4, LimbBitsAssumption
      <4>2. PowerOf(2, s + (LimbBits - s)) = PowerOf(2, s) * PowerOf(2, LimbBits - s)
        BY <4>1, PowersMultiply
      <4>3. PowerOf(2, LimbBits - s) \in Nat \ {0}
        BY <4>1, TwoPowers
      <4> QED BY <1>5, <4>1, <4>2, <4>3 DEF Base
    <3>2. DivisionRemainder =
            [i \in 1 .. n |-> (un[i] \div P) + (IF i = n THEN 0 ELSE Low(un[i + 1] * e))]
      BY <1>2, <1>4, <1>5, <2>2, <3>1 DEF DivisionRemainder
    <3>3. BackShifted(DivisionRemainder, un, n, P, e)
      BY <1>2, <1>3, <3>1, <3>2 DEF BackShifted
    <3> QED BY <1>6, <1>9, <3>3, BackShiftedRule
  <2> QED BY <2>1, <2>2
<1> QED BY <1>6, <1>8, <1>10

=============================================================================
