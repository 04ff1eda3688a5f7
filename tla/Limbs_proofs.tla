----------------------------- MODULE Limbs_proofs -----------------------------
(*****************************************************************************)
(* The arithmetic of src/src/Util/Bignum on words of limbs, for every base   *)
(* and every length: sums, differences, the schoolbook, half-sum and square  *)
(* products, shifts, division by a word, bytes and bits.                     *)
(*                                                                           *)
(* The recursive functions of Limbs are read off first: each is the last of  *)
(* a sequence whose steps it names (Recursion).  A lemma that needs such a   *)
(* sequence gets it under a predicate of its own (Rows, Crossed, Rests...).  *)
(* Words are compared by the numbers they are worth in places of one base    *)
(* (PlacesValue), which sums, shifts and splits follow.                      *)
(*****************************************************************************)
EXTENDS Bignum, ProofLemmas

-----------------------------------------------------------------------------
(* Recursive functions over the naturals.                                  *)

(* The first n values of a function given by recursion from the step g.    *)
Recurses(f, n, a, g) == f[0] = a /\ \A i \in 1 .. n : f[i] = g[<<i, f[i - 1]>>]

\* f is the function that takes the step g from a on.
StepsFrom(f, S, a, g) ==
    /\ f \in [Nat -> S]
    /\ f = [k \in Nat |-> IF k = 0 THEN a ELSE g[<<k, f[k - 1]>>]]

(* A step from S to S at every number defines a function by recursion.     *)
LEMMA Recursion ==
    ASSUME NEW S, NEW a \in S, NEW g \in [Nat \X S -> S]
    PROVE  \E f : StepsFrom(f, S, a, g)
<1> DEFINE Made(f, n) == f \in [0 .. n -> S] /\ Recurses(f, n, a, g)
           T == {n \in Nat : \E f : Made(f, n)}
<1>1. 0 \in T
  <2>1. Made([i \in 0 .. 0 |-> a], 0)
    BY DEF Recurses
  <2> QED BY <2>1
<1>2. ASSUME NEW n \in Nat, n \in T PROVE n + 1 \in T
  <2>1. PICK f : Made(f, n)
    BY <1>2
  <2> DEFINE h == [i \in 0 .. n + 1 |-> IF i = n + 1 THEN g[<<n + 1, f[n]>>] ELSE f[i]]
  <2>2. n \in 0 .. n /\ f[n] \in S /\ f[0] = a
    BY <2>1 DEF Recurses
  <2>3. \A i \in 0 .. n + 1 : i # n + 1 => i \in 0 .. n /\ f[i] \in S
    BY <2>1
  <2>4. g[<<n + 1, f[n]>>] \in S
    BY <2>2
  <2>5. h \in [0 .. n + 1 -> S]
    BY <2>3, <2>4
  <2>6. h[0] = a
    BY <2>2
  <2>7. ASSUME NEW i \in 1 .. n + 1 PROVE h[i] = g[<<i, h[i - 1]>>]
    <3>1. i \in 0 .. n + 1 /\ i - 1 \in 0 .. n + 1 /\ i - 1 # n + 1
      OBVIOUS
    <3>2. h[i - 1] = f[i - 1]
      BY <3>1
    <3>3. CASE i = n + 1
      <4>1. h[i] = g[<<n + 1, f[n]>>] /\ i - 1 = n
        BY <3>1, <3>3
      <4> QED BY <3>2, <3>3, <4>1
    <3>4. CASE i # n + 1
      <4>1. i \in 1 .. n /\ h[i] = f[i]
        BY <3>1, <3>4
      <4>2. f[i] = g[<<i, f[i - 1]>>]
        BY <2>1, <4>1 DEF Recurses
      <4> QED BY <3>2, <4>1, <4>2
    <3> QED BY <3>3, <3>4
  <2> HIDE DEF h
  <2>8. Made(h, n + 1)
    BY <2>5, <2>6, <2>7 DEF Recurses
  <2> QED BY <2>8
<1>3. Nat \subseteq T
  <2> HIDE DEF T
  <2> QED BY <1>1, <1>2, SetInduction
<1> DEFINE F(n) == CHOOSE f : Made(f, n)
<1>4. ASSUME NEW n \in Nat PROVE Made(F(n), n)
  BY <1>3
<1> DEFINE f == [n \in Nat |-> F(n)[n]]
<1> HIDE DEF F
<1>5. f \in [Nat -> S]
  BY <1>4
<1>6. ASSUME NEW n \in Nat PROVE F(n + 1)[n] = F(n)[n]
  <2> DEFINE U == {k \in Nat : k <= n => F(n + 1)[k] = F(n)[k]}
             x == F(n + 1)
             y == F(n)
  <2>1. Recurses(x, n + 1, a, g) /\ Recurses(y, n, a, g)
    BY <1>4
  <2> HIDE DEF x, y
  <2>2. x[0] = y[0]
    BY <2>1 DEF Recurses
  <2>3. ASSUME NEW k \in Nat, k + 1 <= n, x[k] = y[k] PROVE x[k + 1] = y[k + 1]
    <3>1. k + 1 \in 1 .. n /\ k + 1 \in 1 .. n + 1 /\ (k + 1) - 1 = k
      BY <2>3
    <3>2. x[k + 1] = g[<<k + 1, x[(k + 1) - 1]>>] /\ y[k + 1] = g[<<k + 1, y[(k + 1) - 1]>>]
      BY <2>1, <3>1 DEF Recurses
    <3> QED BY <2>3, <3>1, <3>2
  <2>4. 0 \in U /\ \A k \in Nat : k \in U => k + 1 \in U
    BY <2>2, <2>3 DEF x, y
  <2>5. n \in U
    <3> HIDE DEF U
    <3> QED BY <2>4, SetInduction
  <2> QED BY <2>5
<1>7. ASSUME NEW n \in Nat PROVE f[n] = IF n = 0 THEN a ELSE g[<<n, f[n - 1]>>]
  <2>1. CASE n = 0
    BY <1>4, <2>1 DEF Recurses
  <2>2. CASE n # 0
    <3>1. n - 1 \in Nat /\ (n - 1) + 1 = n /\ n \in 1 .. n
      BY <2>2
    <3>2. F(n)[n - 1] = F(n - 1)[n - 1]
      BY <1>6, <3>1
    <3>3. F(n)[n] = g[<<n, F(n)[n - 1]>>]
      BY <1>4, <3>1 DEF Recurses
    <3>4. f[n - 1] = F(n - 1)[n - 1] /\ f[n] = F(n)[n]
      BY <3>1
    <3> QED BY <2>2, <3>2, <3>3, <3>4
  <2> QED BY <2>1, <2>2
<1> HIDE DEF f
<1>8. f = [k \in Nat |-> IF k = 0 THEN a ELSE g[<<k, f[k - 1]>>]]
  <2>1. DOMAIN f = Nat /\ f = [k \in Nat |-> f[k]]
    BY <1>5
  <2> QED BY <1>7, <2>1
<1> QED BY <1>5, <1>8 DEF StepsFrom

(* What is proved about a function that is given by recursion, once there  *)
(* is one within S: every value lies in S.                                 *)
LEMMA StaysWithin ==
    ASSUME NEW S, NEW f, f[0] \in S,
           \A k \in Nat : f[k] \in S => f[k + 1] \in S
    PROVE  \A k \in Nat : f[k] \in S
<1> DEFINE T == {k \in Nat : f[k] \in S}
<1>1. 0 \in T /\ \A k \in Nat : k \in T => k + 1 \in T
  OBVIOUS
<1>2. Nat \subseteq T
  <2> HIDE DEF T
  <2> QED BY <1>1, SetInduction
<1> QED BY <1>2

-----------------------------------------------------------------------------
(* Powers, and numbers written in places.                                  *)

(* Powers.                                                                 *)
LEMMA PowerRule ==
    ASSUME NEW radix \in Nat \ {0}
    PROVE  /\ PowerOf(radix, 0) = 1
           /\ \A k \in Nat : /\ PowerOf(radix, k) \in Nat \ {0}
                             /\ PowerOf(radix, k + 1) = radix * PowerOf(radix, k)
<1> DEFINE S == Nat \ {0}
           Rule(w) == w = [i \in Nat |-> IF i = 0 THEN 1 ELSE radix * w[i - 1]]
           power == CHOOSE w : Rule(w)
           g == [p \in Nat \X S |-> radix * p[2]]
<1>1. \A k : PowerOf(radix, k) = power[k]
  BY DEF PowerOf
<1>2. 1 \in S /\ g \in [Nat \X S -> S]
  OBVIOUS
<1>3. \A k \in Nat, s \in S : g[<<k, s>>] = radix * s
  OBVIOUS
<1>4. PICK f : f \in [Nat -> S] /\ f = [k \in Nat |-> IF k = 0 THEN 1 ELSE g[<<k, f[k - 1]>>]]
  <2> HIDE DEF g, S
  <2>1. PICK f : StepsFrom(f, S, 1, g)
    BY <1>2, Recursion
  <2> QED BY <2>1 DEF StepsFrom
<1> HIDE DEF g
<1>5. Rule(f)
  <2>1. \A k \in Nat : f[k] = IF k = 0 THEN 1 ELSE radix * f[k - 1]
    <3>1. \A k \in Nat : k # 0 => k - 1 \in Nat /\ f[k - 1] \in S
      BY <1>4
    <3> QED BY <1>3, <1>4, <3>1
  <2>2. f = [k \in Nat |-> f[k]]
    BY <1>4
  <2> QED BY <2>1, <2>2
<1>6. Rule(power)
  <2> HIDE DEF Rule
  <2> QED BY <1>5
<1> HIDE DEF power
<1>7. power[0] = 1 /\ \A k \in Nat : power[k + 1] = radix * power[k]
  <2>1. \A k \in Nat : power[k] = IF k = 0 THEN 1 ELSE radix * power[k - 1]
    BY <1>6
  <2>2. \A k \in Nat : k + 1 \in Nat /\ k + 1 # 0 /\ (k + 1) - 1 = k
    OBVIOUS
  <2> QED BY <2>1, <2>2
<1> HIDE DEF Rule
<1>8. \A k \in Nat : power[k] \in S
  <2>1. power[0] \in S /\ \A k \in Nat : power[k] \in S => power[k + 1] \in S
    BY <1>7
  <2> HIDE DEF S
  <2> QED BY <2>1, StaysWithin
<1> QED BY <1>1, <1>7, <1>8

(* Powers of one radix multiply.                                           *)
LEMMA PowersMultiply ==
    ASSUME NEW radix \in Nat \ {0}, NEW m \in Nat
    PROVE  \A k \in Nat : PowerOf(radix, m + k) = PowerOf(radix, m) * PowerOf(radix, k)
<1> DEFINE P(k) == PowerOf(radix, k)
           T == {k \in Nat : P(m + k) = P(m) * P(k)}
<1>0. P(0) = 1 /\ \A k \in Nat : P(k) \in Nat \ {0} /\ P(k + 1) = radix * P(k)
  BY PowerRule
<1> HIDE DEF P
<1>1. 0 \in T
  <2>1. m + 0 = m /\ P(m) * 1 = P(m)
    BY <1>0
  <2> QED BY <1>0, <2>1
<1>2. ASSUME NEW k \in Nat, k \in T PROVE k + 1 \in T
  <2>1. m + (k + 1) = (m + k) + 1 /\ m + k \in Nat
    OBVIOUS
  <2>2. P(m + (k + 1)) = radix * P(m + k) /\ P(k + 1) = radix * P(k)
    BY <1>0, <2>1
  <2>3. P(m + k) = P(m) * P(k)
    BY <1>2
  <2>4. P(m) \in Nat /\ P(k) \in Nat
    BY <1>0
  <2>5. radix * (P(m) * P(k)) = P(m) * (radix * P(k))
    BY <2>4
  <2> QED BY <2>2, <2>3, <2>5
<1>3. Nat \subseteq T
  <2> HIDE DEF T
  <2> QED BY <1>1, <1>2, SetInduction
<1> QED BY <1>3 DEF P

(* A power of a power.                                                     *)
LEMMA PowerOfPower ==
    ASSUME NEW radix \in Nat \ {0}, NEW m \in Nat
    PROVE  \A k \in Nat : PowerOf(PowerOf(radix, m), k) = PowerOf(radix, m * k)
<1> DEFINE T == {k \in Nat : PowerOf(PowerOf(radix, m), k) = PowerOf(radix, m * k)}
<1>0. PowerOf(radix, m) \in Nat \ {0}
  BY PowerRule
<1>1. 0 \in T
  <2>1. m * 0 = 0
    OBVIOUS
  <2>2. PowerOf(PowerOf(radix, m), 0) = 1 /\ PowerOf(radix, 0) = 1
    BY <1>0, PowerRule
  <2> QED BY <2>1, <2>2
<1>2. ASSUME NEW k \in Nat, k \in T PROVE k + 1 \in T
  <2>1. m * (k + 1) = m + m * k /\ m * k \in Nat
    OBVIOUS
  <2>2. PowerOf(PowerOf(radix, m), k + 1) = PowerOf(radix, m) * PowerOf(PowerOf(radix, m), k)
    BY <1>0, PowerRule
  <2>3. PowerOf(radix, m + m * k) = PowerOf(radix, m) * PowerOf(radix, m * k)
    BY <2>1, PowersMultiply
  <2> QED BY <1>2, <2>1, <2>2, <2>3
<1>3. Nat \subseteq T
  <2> HIDE DEF T
  <2> QED BY <1>1, <1>2, SetInduction
<1> QED BY <1>3

(* The values of the places: one place more adds its digit times its power. *)
LEMMA PlacesRule ==
    ASSUME NEW radix \in Nat \ {0}, NEW p \in [Nat -> Int]
    PROVE  /\ PlacesValue(p, 0, radix) = 0
           /\ \A k \in Nat : /\ PlacesValue(p, k, radix) \in Int
                             /\ PlacesValue(p, k + 1, radix)
                                  = PlacesValue(p, k, radix) + p[k] * PowerOf(radix, k)
<1> DEFINE Rule(w) == w = [k \in Nat |-> IF k = 0 THEN 0
                                        ELSE w[k - 1] + p[k - 1] * PowerOf(radix, k - 1)]
           sum == CHOOSE w : Rule(w)
           g == [q \in Nat \X Int |-> IF q[1] = 0 THEN 0 ELSE q[2] + p[q[1] - 1] * PowerOf(radix, q[1] - 1)]
<1>1. \A k : PlacesValue(p, k, radix) = sum[k]
  BY DEF PlacesValue
<1>2. \A k \in Nat : p[k] * PowerOf(radix, k) \in Int
  <2>1. \A k \in Nat : PowerOf(radix, k) \in Nat
    BY PowerRule
  <2> QED BY <2>1
<1>3. \A k \in Nat, s \in Int : k # 0 => k - 1 \in Nat /\ g[<<k, s>>] = s + p[k - 1] * PowerOf(radix, k - 1)
  OBVIOUS
<1>4. g \in [Nat \X Int -> Int]
  BY <1>2
<1> HIDE DEF g
<1>5. PICK f : f \in [Nat -> Int] /\ f = [k \in Nat |-> IF k = 0 THEN 0 ELSE g[<<k, f[k - 1]>>]]
  <2>1. 0 \in Int
    OBVIOUS
  <2>2. PICK f : StepsFrom(f, Int, 0, g)
    BY <1>4, <2>1, Recursion
  <2> QED BY <2>2 DEF StepsFrom
<1>6. Rule(f)
  <2>1. \A k \in Nat : f[k] = IF k = 0 THEN 0 ELSE f[k - 1] + p[k - 1] * PowerOf(radix, k - 1)
    <3>1. \A k \in Nat : k # 0 => f[k - 1] \in Int
      BY <1>5
    <3> QED BY <1>3, <1>5, <3>1
  <2>2. f = [k \in Nat |-> f[k]]
    BY <1>5
  <2> QED BY <2>1, <2>2
<1>7. Rule(sum)
  <2> HIDE DEF Rule
  <2> QED BY <1>6
<1> HIDE DEF sum
<1>8. sum[0] = 0 /\ \A k \in Nat : sum[k + 1] = sum[k] + p[k] * PowerOf(radix, k)
  <2>1. \A k \in Nat : sum[k] = IF k = 0 THEN 0 ELSE sum[k - 1] + p[k - 1] * PowerOf(radix, k - 1)
    BY <1>7
  <2>2. \A k \in Nat : k + 1 \in Nat /\ k + 1 # 0 /\ (k + 1) - 1 = k
    OBVIOUS
  <2> QED BY <2>1, <2>2
<1> HIDE DEF Rule
<1>9. \A k \in Nat : sum[k] \in Int
  <2>1. sum[0] \in Int /\ \A k \in Nat : sum[k] \in Int => sum[k + 1] \in Int
    BY <1>2, <1>8
  <2> QED BY <2>1, StaysWithin
<1> QED BY <1>1, <1>8, <1>9

(* Places that agree have the same value.                                  *)
LEMMA PlacesEqual ==
    ASSUME NEW radix \in Nat \ {0}, NEW p \in [Nat -> Int], NEW q \in [Nat -> Int],
           NEW n \in Nat, \A k \in 0 .. n - 1 : p[k] = q[k]
    PROVE  PlacesValue(p, n, radix) = PlacesValue(q, n, radix)
<1> DEFINE T == {k \in Nat : k <= n => PlacesValue(p, k, radix) = PlacesValue(q, k, radix)}
<1>1. 0 \in T
  BY PlacesRule
<1>2. ASSUME NEW k \in Nat, k \in T PROVE k + 1 \in T
  <2> SUFFICES ASSUME k + 1 <= n
               PROVE  PlacesValue(p, k + 1, radix) = PlacesValue(q, k + 1, radix)
    OBVIOUS
  <2>1. PlacesValue(p, k, radix) = PlacesValue(q, k, radix) /\ k \in 0 .. n - 1
    BY <1>2
  <2>2. p[k] = q[k]
    BY <2>1
  <2>3. /\ PlacesValue(p, k + 1, radix) = PlacesValue(p, k, radix) + p[k] * PowerOf(radix, k)
        /\ PlacesValue(q, k + 1, radix) = PlacesValue(q, k, radix) + q[k] * PowerOf(radix, k)
    BY PlacesRule
  <2> QED BY <2>1, <2>2, <2>3
<1>3. n \in T
  <2> HIDE DEF T
  <2> QED BY <1>1, <1>2, SetInduction
<1> QED BY <1>3

\* s is p plus c times q, for n places.
Combined(s, p, q, c, n) == \A k \in 0 .. n - 1 : s[k] = p[k] + c * q[k]

(* Sums and multiples, place by place.                                     *)
LEMMA PlacesLinear ==
    ASSUME NEW radix \in Nat \ {0}, NEW p \in [Nat -> Int], NEW q \in [Nat -> Int],
           NEW s \in [Nat -> Int], NEW c \in Int,
           NEW n \in Nat, Combined(s, p, q, c, n)
    PROVE  PlacesValue(s, n, radix) = PlacesValue(p, n, radix) + c * PlacesValue(q, n, radix)
<1> DEFINE V(x, k) == PlacesValue(x, k, radix)
           T == {k \in Nat : k <= n => V(s, k) = V(p, k) + c * V(q, k)}
<1>0. /\ V(p, 0) = 0 /\ V(q, 0) = 0 /\ V(s, 0) = 0
      /\ \A k \in Nat : /\ V(p, k) \in Int /\ V(q, k) \in Int /\ V(s, k) \in Int
                        /\ V(p, k + 1) = V(p, k) + p[k] * PowerOf(radix, k)
                        /\ V(q, k + 1) = V(q, k) + q[k] * PowerOf(radix, k)
                        /\ V(s, k + 1) = V(s, k) + s[k] * PowerOf(radix, k)
  BY PlacesRule
<1> HIDE DEF V
<1>1. 0 \in T
  BY <1>0
<1>2. ASSUME NEW k \in Nat, k \in T PROVE k + 1 \in T
  <2> SUFFICES ASSUME k + 1 <= n PROVE V(s, k + 1) = V(p, k + 1) + c * V(q, k + 1)
    OBVIOUS
  <2> DEFINE w == PowerOf(radix, k)
  <2>1. V(s, k) = V(p, k) + c * V(q, k) /\ k \in 0 .. n - 1 /\ s[k] = p[k] + c * q[k]
    BY <1>2 DEF Combined
  <2>2. w \in Nat /\ p[k] \in Int /\ q[k] \in Int
    BY PowerRule
  <2> HIDE DEF w
  <2>3. /\ V(p, k + 1) = V(p, k) + p[k] * w /\ V(q, k + 1) = V(q, k) + q[k] * w
        /\ V(s, k + 1) = V(s, k) + (p[k] + c * q[k]) * w
    BY <1>0, <2>1 DEF w
  <2>4. \A x, y, v, a, b \in Int : x + c * y + (a + c * b) * v = (x + a * v) + c * (y + b * v)
    OBVIOUS
  <2>5. V(p, k) \in Int /\ V(q, k) \in Int
    BY <1>0
  <2> QED BY <2>1, <2>2, <2>3, <2>4, <2>5
<1>3. n \in T
  <2> HIDE DEF T
  <2> QED BY <1>1, <1>2, SetInduction
<1> QED BY <1>3 DEF V

\* q is what p has from place m on, for n places.
Above(q, p, m, n) == \A k \in 0 .. n - 1 : q[k] = p[m + k]

(* The low m places and those above.                                       *)
LEMMA PlacesSplit ==
    ASSUME NEW radix \in Nat \ {0}, NEW p \in [Nat -> Int], NEW q \in [Nat -> Int],
           NEW m \in Nat, NEW n \in Nat, Above(q, p, m, n)
    PROVE  PlacesValue(p, m + n, radix)
             = PlacesValue(p, m, radix) + PowerOf(radix, m) * PlacesValue(q, n, radix)
<1> DEFINE V(x, k) == PlacesValue(x, k, radix)
           w == PowerOf(radix, m)
           T == {k \in Nat : k <= n => V(p, m + k) = V(p, m) + w * V(q, k)}
<1>0. /\ V(p, 0) = 0 /\ V(q, 0) = 0
      /\ \A k \in Nat : /\ V(p, k) \in Int /\ V(q, k) \in Int
                        /\ V(p, k + 1) = V(p, k) + p[k] * PowerOf(radix, k)
                        /\ V(q, k + 1) = V(q, k) + q[k] * PowerOf(radix, k)
  BY PlacesRule
<1>w. w \in Nat
  BY PowerRule
<1>p. \A k \in Nat : PowerOf(radix, m + k) = w * PowerOf(radix, k)
  BY PowersMultiply
<1> HIDE DEF V, w
<1>1. 0 \in T
  BY <1>0, <1>w
<1>2. ASSUME NEW k \in Nat, k \in T PROVE k + 1 \in T
  <2> SUFFICES ASSUME k + 1 <= n PROVE V(p, m + (k + 1)) = V(p, m) + w * V(q, k + 1)
    OBVIOUS
  <2> DEFINE u == PowerOf(radix, k)
  <2>1. V(p, m + k) = V(p, m) + w * V(q, k) /\ k \in 0 .. n - 1 /\ q[k] = p[m + k]
    BY <1>2 DEF Above
  <2>2. u \in Nat /\ q[k] \in Int /\ m + (k + 1) = (m + k) + 1 /\ m + k \in Nat
    BY PowerRule
  <2>3. PowerOf(radix, m + k) = w * u
    BY <1>p
  <2>4. V(p, (m + k) + 1) = V(p, m + k) + p[m + k] * PowerOf(radix, m + k)
    BY <1>0, <2>2
  <2>5. V(q, k + 1) = V(q, k) + q[k] * u
    BY <1>0
  <2> HIDE DEF u
  <2>6. V(p, m + (k + 1)) = V(p, m) + w * V(q, k) + q[k] * (w * u)
    BY <2>1, <2>2, <2>3, <2>4
  <2>7. \A x, y, d \in Int : x + w * y + d * (w * u) = x + w * (y + d * u)
    BY <1>w, <2>2
  <2>8. V(p, m) \in Int /\ V(q, k) \in Int
    BY <1>0
  <2>9. V(p, m) + w * V(q, k) + q[k] * (w * u) = V(p, m) + w * (V(q, k) + q[k] * u)
    BY <2>2, <2>7, <2>8
  <2> QED BY <2>5, <2>6, <2>9
<1>3. n \in T
  <2> HIDE DEF T
  <2> QED BY <1>1, <1>2, SetInduction
<1> QED BY <1>3 DEF V, w

(* Digits stay below the power of their number.                            *)
LEMMA PlacesBound ==
    ASSUME NEW radix \in Nat \ {0}, NEW p \in [Nat -> Int],
           NEW n \in Nat, \A k \in 0 .. n - 1 : p[k] \in 0 .. radix - 1
    PROVE  PlacesValue(p, n, radix) \in 0 .. PowerOf(radix, n) - 1
<1> DEFINE V(k) == PlacesValue(p, k, radix)
           W(k) == PowerOf(radix, k)
           T == {k \in Nat : k <= n => V(k) \in 0 .. W(k) - 1}
<1>0. /\ V(0) = 0 /\ W(0) = 1
      /\ \A k \in Nat : /\ V(k) \in Int /\ W(k) \in Nat \ {0}
                        /\ V(k + 1) = V(k) + p[k] * W(k)
                        /\ W(k + 1) = radix * W(k)
  BY PlacesRule, PowerRule
<1> HIDE DEF V, W
<1>1. 0 \in T
  <2>1. V(0) = 0 /\ W(0) = 1
    BY <1>0
  <2>2. V(0) \in 0 .. W(0) - 1
    BY <2>1
  <2> QED BY <2>2
<1>2. ASSUME NEW k \in Nat, k \in T PROVE k + 1 \in T
  <2> SUFFICES ASSUME k + 1 <= n PROVE V(k + 1) \in 0 .. W(k + 1) - 1
    OBVIOUS
  <2>1. V(k) \in 0 .. W(k) - 1 /\ k \in 0 .. n - 1 /\ p[k] \in 0 .. radix - 1
    BY <1>2
  <2>2. /\ W(k) \in Nat \ {0} /\ V(k + 1) = V(k) + p[k] * W(k)
        /\ W(k + 1) = radix * W(k)
    BY <1>0
  <2>3. \A v, w, d \in Nat : v < w /\ d <= radix - 1 => v + d * w < radix * w /\ v + d * w \in Nat
    <3> TAKE v, w, d \in Nat
    <3> HAVE v < w /\ d <= radix - 1
    <3>1. d * w <= (radix - 1) * w
      <4>1. radix - 1 \in Nat /\ (radix - 1) - d \in Nat
        OBVIOUS
      <4>2. ((radix - 1) - d) * w \in Nat /\ ((radix - 1) - d) * w = (radix - 1) * w - d * w
        BY <4>1
      <4>3. d * w \in Nat /\ (radix - 1) * w \in Nat
        BY <4>1
      <4> QED BY <4>2, <4>3
    <3>2. (radix - 1) * w = radix * w - w /\ d * w \in Nat /\ radix * w \in Nat
      OBVIOUS
    <3> QED BY <3>1, <3>2
  <2>4. V(k) \in Nat /\ p[k] \in Nat /\ W(k) \in Nat /\ V(k) < W(k) /\ p[k] <= radix - 1
    BY <2>1, <2>2
  <2>5. radix * W(k) \in Nat
    BY <2>4
  <2>6. V(k) + p[k] * W(k) < radix * W(k) /\ V(k) + p[k] * W(k) \in Nat
    BY <2>3, <2>4
  <2> QED BY <2>2, <2>5, <2>6
<1>3. n \in T
  <2> HIDE DEF T
  <2> QED BY <1>1, <1>2, SetInduction
<1> QED BY <1>3 DEF V, W

(* The digits of a number and what they leave of it.                       *)
LEMMA PlacesOfDigits ==
    ASSUME NEW radix \in Nat \ {0}, NEW p \in [Nat -> Int], NEW v \in Nat, NEW n \in Nat,
           \A k \in 0 .. n - 1 : p[k] = (v \div PowerOf(radix, k)) % radix
    PROVE  /\ v = PlacesValue(p, n, radix) + PowerOf(radix, n) * (v \div PowerOf(radix, n))
           /\ v \div PowerOf(radix, n) \in Nat
<1> DEFINE V(k) == PlacesValue(p, k, radix)
           W(k) == PowerOf(radix, k)
           T == {k \in Nat : k <= n => v = V(k) + W(k) * (v \div W(k)) /\ v \div W(k) \in Nat}
<1>0. /\ V(0) = 0 /\ W(0) = 1
      /\ \A k \in Nat : /\ V(k) \in Int /\ W(k) \in Nat \ {0}
                        /\ V(k + 1) = V(k) + p[k] * W(k)
                        /\ W(k + 1) = radix * W(k)
  BY PlacesRule, PowerRule
<1>d. \A k \in 0 .. n - 1 : p[k] = (v \div W(k)) % radix
  OBVIOUS
<1> HIDE DEF V, W
<1>1. 0 \in T
  <2>1. v \div W(0) = v
    BY <1>0
  <2>2. v = V(0) + W(0) * v
    BY <1>0
  <2> QED BY <2>1, <2>2
<1>2. ASSUME NEW k \in Nat, k \in T PROVE k + 1 \in T
  <2> SUFFICES ASSUME k + 1 <= n
               PROVE  v = V(k + 1) + W(k + 1) * (v \div W(k + 1)) /\ v \div W(k + 1) \in Nat
    OBVIOUS
  <2> DEFINE x == v \div W(k)
             w == W(k)
             y == x \div radix
             d == x % radix
             s == V(k)
  <2>1. v = s + w * x /\ x \in Nat /\ k \in 0 .. n - 1 /\ s \in Int
    BY <1>0, <1>2
  <2>2. w \in Nat \ {0} /\ V(k + 1) = s + p[k] * w /\ W(k + 1) = radix * w /\ p[k] = d
    BY <1>0, <1>d, <2>1
  <2>3. v \div (radix * w) = y
    BY <2>2, TwoDivisions
  <2> HIDE DEF w, s, x
  <2>4. x = radix * y + d /\ y \in Nat /\ d \in 0 .. radix - 1
    BY <2>1, Division
  <2> HIDE DEF y, d
  <2>5. w * (radix * y + d) = (radix * w) * y + d * w
    BY <2>2, <2>4
  <2>6. v = (s + d * w) + (radix * w) * y
    <3>1. d * w \in Int /\ (radix * w) * y \in Int
      BY <2>2, <2>4
    <3> QED BY <2>1, <2>4, <2>5, <3>1
  <2> QED BY <2>2, <2>3, <2>4, <2>6
<1>3. n \in T
  <2> HIDE DEF T
  <2> QED BY <1>1, <1>2, SetInduction
<1> QED BY <1>3 DEF V, W

-----------------------------------------------------------------------------
(* Limbs, their values, and the ripple of carries.                         *)

\* The weight of limb k, and what the first n places of p are worth in base
\* Base.
Weight(k) == PowerOf(Base, k)
Value(p, n) == PlacesValue(p, n, Base)

(* What a limb and a byte hold.                                            *)
LEMMA BaseRule ==
    /\ Base \in Nat \ {0} /\ Base >= 2
    /\ ByteBits \in Nat \ {0} /\ ByteRadix \in Nat \ {0} /\ ByteRadix >= 2
    /\ Base = PowerOf(ByteRadix, BytesPerLimb)
<1>1. \A k \in Nat : k # 0 => PowerOf(2, k) \in Nat \ {0} /\ PowerOf(2, k) >= 2
  <2> TAKE k \in Nat
  <2> HAVE k # 0
  <2>1. k - 1 \in Nat /\ (k - 1) + 1 = k
    OBVIOUS
  <2>2. PowerOf(2, k - 1) \in Nat \ {0} /\ PowerOf(2, (k - 1) + 1) = 2 * PowerOf(2, k - 1)
    BY <2>1, PowerRule
  <2> QED BY <2>1, <2>2
<1>2. LimbBits = BytesPerLimb * ByteBits /\ ByteBits \in Nat \ {0}
  <2>1. LimbBits \in Nat \ {0} /\ BytesPerLimb \in Nat \ {0} /\ LimbBits % BytesPerLimb = 0
    BY LimbBitsAssumption
  <2>2. /\ LimbBits \div BytesPerLimb \in Nat
        /\ LimbBits = BytesPerLimb * (LimbBits \div BytesPerLimb) + (LimbBits % BytesPerLimb)
    BY <2>1, Division
  <2>3. LimbBits = BytesPerLimb * ByteBits /\ ByteBits \in Nat
    BY <2>1, <2>2 DEF ByteBits
  <2>4. ByteBits # 0
    BY <2>1, <2>3
  <2> QED BY <2>3, <2>4
<1>3. PowerOf(PowerOf(2, ByteBits), BytesPerLimb) = PowerOf(2, ByteBits * BytesPerLimb)
  BY <1>2, LimbBitsAssumption, PowerOfPower
<1>4. ByteBits * BytesPerLimb = LimbBits
  BY <1>2, LimbBitsAssumption
<1> QED
  BY <1>1, <1>2, <1>3, <1>4, LimbBitsAssumption DEF Base, ByteRadix

(* Powers of the base.                                                     *)
LEMMA WeightRule ==
    /\ Weight(0) = 1 /\ Weight(1) = Base
    /\ \A k \in Nat : Weight(k) \in Nat \ {0} /\ Weight(k + 1) = Base * Weight(k)
    /\ \A m, k \in Nat : Weight(m + k) = Weight(m) * Weight(k)
<1>1. /\ PowerOf(Base, 0) = 1
      /\ \A k \in Nat : PowerOf(Base, k) \in Nat \ {0} /\ PowerOf(Base, k + 1) = Base * PowerOf(Base, k)
  BY BaseRule, PowerRule
<1>2. \A m \in Nat : \A k \in Nat : PowerOf(Base, m + k) = PowerOf(Base, m) * PowerOf(Base, k)
  BY BaseRule, PowersMultiply
<1>3. PowerOf(Base, 0 + 1) = Base * 1
  BY <1>1
<1>4. PowerOf(Base, 1) = Base
  BY <1>3, BaseRule
<1> QED BY <1>1, <1>2, <1>4 DEF Weight

(* Larger exponents give larger powers.                                    *)
LEMMA WeightGrows ==
    ASSUME NEW m \in Nat, NEW k \in Nat, m <= k
    PROVE  Weight(m) <= Weight(k)
<1>1. k - m \in Nat /\ k = m + (k - m)
  OBVIOUS
<1>2. Weight(k) = Weight(m) * Weight(k - m) /\ Weight(m) \in Nat \ {0} /\ Weight(k - m) \in Nat \ {0}
  BY <1>1, WeightRule
<1>3. \A x, y \in Nat \ {0} : x <= x * y
  OBVIOUS
<1> QED BY <1>2, <1>3

(* The value of places by Base.                                            *)
LEMMA ValueRule ==
    ASSUME NEW p \in [Nat -> Int]
    PROVE  /\ Value(p, 0) = 0
           /\ \A k \in Nat : Value(p, k) \in Int /\ Value(p, k + 1) = Value(p, k) + p[k] * Weight(k)
BY BaseRule, PlacesRule DEF Value, Weight

(* The value of the low m places and of those above.                       *)
LEMMA ValueSplit ==
    ASSUME NEW p \in [Nat -> Int], NEW q \in [Nat -> Int], NEW m \in Nat, NEW n \in Nat,
           Above(q, p, m, n)
    PROVE  Value(p, m + n) = Value(p, m) + Weight(m) * Value(q, n)
<1>1. \A B \in Nat \ {0} : PlacesValue(p, m + n, B)
                              = PlacesValue(p, m, B) + PowerOf(B, m) * PlacesValue(q, n, B)
  BY PlacesSplit
<1> QED BY <1>1, BaseRule DEF Value, Weight

(* Places that agree have the same value by Base.                          *)
LEMMA ValueEqual ==
    ASSUME NEW p \in [Nat -> Int], NEW q \in [Nat -> Int], NEW n \in Nat,
           \A k \in 0 .. n - 1 : p[k] = q[k]
    PROVE  Value(p, n) = Value(q, n)
BY BaseRule, PlacesEqual DEF Value

(* Sums and multiples by Base.                                             *)
LEMMA ValueLinear ==
    ASSUME NEW p \in [Nat -> Int], NEW q \in [Nat -> Int], NEW s \in [Nat -> Int],
           NEW c \in Int, NEW n \in Nat, Combined(s, p, q, c, n)
    PROVE  Value(s, n) = Value(p, n) + c * Value(q, n)
<1>1. \A B \in Nat \ {0} : PlacesValue(s, n, B) = PlacesValue(p, n, B) + c * PlacesValue(q, n, B)
  BY PlacesLinear
<1> QED BY <1>1, BaseRule DEF Value

(* A carry is a quotient, and a limb a rest, also below zero.              *)
LEMMA LowHigh ==
    ASSUME NEW x \in Int
    PROVE  /\ Low(x) \in Limb /\ Low(x) \in Nat /\ High(x) \in Int
           /\ x = Base * High(x) + Low(x)
<1> DEFINE B == Base
<1>1. B \in Nat \ {0}
  BY BaseRule
<1> HIDE DEF B
<1>2. x \div B \in Int /\ x % B \in 0 .. B - 1 /\ x = B * (x \div B) + (x % B)
  BY <1>1
<1> QED BY <1>1, <1>2 DEF Low, High, Limb, B

(* How the carry of Ripple goes from place to place.                       *)
Carries(c, p) == c[0] = 0 /\ \A k \in Nat : c[k] \in Int /\ c[k + 1] = High(p[k] + c[k])

\* The carries of a ripple over p: limb k is the low part of its place and the
\* carry into it, and the high part goes on.
LEMMA RippleRule ==
    ASSUME NEW p \in [Nat -> Int]
    PROVE  \E c : /\ Carries(c, p)
                  /\ \A n \in Nat : Ripple(p, n) = [w |-> [i \in 1 .. n |-> Low(p[i - 1] + c[i - 1])],
                                                    carry |-> c[n]]
<1> DEFINE Rule(w) == w = [i \in Nat |-> IF i = 0 THEN 0 ELSE High(p[i - 1] + w[i - 1])]
           c == CHOOSE w : Rule(w)
           g == [q \in Nat \X Int |-> IF q[1] = 0 THEN 0 ELSE High(p[q[1] - 1] + q[2])]
<1>1. \A n : Ripple(p, n) = [w |-> [i \in 1 .. n |-> Low(p[i - 1] + c[i - 1])], carry |-> c[n]]
  BY DEF Ripple
<1>2. \A x \in Int : High(x) \in Int
  BY LowHigh
<1>3. \A k \in Nat, s \in Int : k # 0 => k - 1 \in Nat /\ g[<<k, s>>] = High(p[k - 1] + s)
  OBVIOUS
<1>4. g \in [Nat \X Int -> Int]
  <2>1. ASSUME NEW q \in Nat \X Int PROVE g[q] \in Int
    <3>1. CASE q[1] = 0
      BY <3>1
    <3>2. CASE q[1] # 0
      <4>1. q[1] - 1 \in Nat /\ q[2] \in Int
        BY <3>2
      <4>2. p[q[1] - 1] + q[2] \in Int
        BY <4>1
      <4> QED BY <1>2, <3>2, <4>2
    <3> QED BY <3>1, <3>2
  <2> QED BY <2>1
<1> HIDE DEF g
<1>5. PICK f : f \in [Nat -> Int] /\ f = [k \in Nat |-> IF k = 0 THEN 0 ELSE g[<<k, f[k - 1]>>]]
  <2>1. PICK f : StepsFrom(f, Int, 0, g)
    BY SMTT(20), <1>4, Recursion
  <2> QED BY <2>1 DEF StepsFrom
<1>6. Rule(f)
  <2>1. \A k \in Nat : f[k] = IF k = 0 THEN 0 ELSE High(p[k - 1] + f[k - 1])
    <3>1. \A k \in Nat : k # 0 => f[k - 1] \in Int
      BY <1>5
    <3> QED BY <1>3, <1>5, <3>1
  <2>2. f = [k \in Nat |-> f[k]]
    BY <1>5
  <2> QED BY <2>1, <2>2
<1>7. Rule(c)
  <2> HIDE DEF Rule
  <2> QED BY <1>6
<1> HIDE DEF c
<1>8. c[0] = 0 /\ \A k \in Nat : c[k + 1] = High(p[k] + c[k])
  <2>1. \A k \in Nat : c[k] = IF k = 0 THEN 0 ELSE High(p[k - 1] + c[k - 1])
    BY <1>7
  <2>2. \A k \in Nat : k + 1 \in Nat /\ k + 1 # 0 /\ (k + 1) - 1 = k
    OBVIOUS
  <2> QED BY <2>1, <2>2
<1> HIDE DEF Rule
<1>9. \A k \in Nat : c[k] \in Int
  <2>1. ASSUME NEW k \in Nat, c[k] \in Int PROVE c[k + 1] \in Int
    <3>1. p[k] + c[k] \in Int
      BY <2>1
    <3> QED BY <1>2, <1>8, <3>1
  <2>2. c[0] \in Int
    BY <1>8
  <2> QED BY <2>1, <2>2, StaysWithin
<1>10. Carries(c, p)
  BY <1>8, <1>9 DEF Carries
<1> QED BY <1>1, <1>10

(* Arrays of limbs as places.                                              *)
LEMMA PlacesOfWords ==
    ASSUME NEW w \in Seq(Int)
    PROVE  /\ Places(w) \in [Nat -> Int] /\ Len(w) \in Nat
           /\ \A k \in Nat : Places(w)[k] = At(w, k)
           /\ \A k \in 0 .. Len(w) - 1 : Places(w)[k] = w[k + 1]
           /\ \A k \in Nat : k >= Len(w) => Places(w)[k] = 0
           /\ WordsValue(w) = Value(Places(w), Len(w))
<1>1. \A k \in Nat : At(w, k) \in Int
  BY DEF At
<1>2. Places(w) = [k \in Nat |-> At(w, k)]
  BY DEF Places
<1>3. \A k \in Nat : Places(w)[k] = At(w, k)
  BY <1>2
<1>4. \A k \in 0 .. Len(w) - 1 : k \in Nat /\ At(w, k) = w[k + 1]
  BY DEF At
<1>5. \A k \in Nat : k >= Len(w) => At(w, k) = 0
  BY DEF At
<1>6. WordsValue(w) = Value(Places(w), Len(w))
  BY DEF WordsValue, Positional, Value
<1>7. Places(w) \in [Nat -> Int] /\ Len(w) \in Nat
  BY <1>1, <1>2
<1> QED BY <1>3, <1>4, <1>5, <1>6, <1>7

(* Limbs are integers.                                                     *)
LEMMA LimbsAreIntegers ==
    ASSUME NEW w \in Seq(Limb)
    PROVE  /\ w \in Seq(Int) /\ Len(w) \in Nat
           /\ \A k \in Nat : At(w, k) \in Limb /\ At(w, k) \in Nat
<1>1. Limb \subseteq Int /\ 0 \in Limb /\ Limb \subseteq Nat
  BY BaseRule DEF Limb
<1>3. Len(w) \in Nat /\ w = [i \in 1 .. Len(w) |-> w[i]] /\ \A i \in 1 .. Len(w) : w[i] \in Limb
  OBVIOUS
<1>2. w \in Seq(Int) /\ Len(w) \in Nat
  <2> DEFINE n == Len(w)
  <2>1. n \in Nat /\ [i \in 1 .. n |-> w[i]] \in [1 .. n -> Int]
    BY <1>1, <1>3
  <2> HIDE DEF n
  <2>2. [i \in 1 .. n |-> w[i]] \in Seq(Int)
    BY <2>1
  <2> QED BY <1>3, <2>2 DEF n
<1>4. \A k \in Nat : At(w, k) \in Limb
  <2> TAKE k \in Nat
  <2>1. k < Len(w) => k + 1 \in 1 .. Len(w)
    BY <1>2
  <2> QED BY <1>1, <1>3, <2>1 DEF At
<1> QED BY <1>1, <1>2, <1>4

(* Zeros above the array do not count.                                     *)
LEMMA ValueBeyond ==
    ASSUME NEW w \in Seq(Int), NEW n \in Nat, n >= Len(w)
    PROVE  Value(Places(w), n) = WordsValue(w)
<1> DEFINE p == Places(w)
           T == {k \in Nat : k >= Len(w) => Value(p, k) = WordsValue(w)}
<1>0. /\ p \in [Nat -> Int] /\ Len(w) \in Nat /\ WordsValue(w) = Value(p, Len(w))
      /\ \A k \in Nat : k >= Len(w) => p[k] = 0
  BY PlacesOfWords
<1>r. /\ Value(p, 0) = 0
      /\ \A k \in Nat : Value(p, k) \in Int /\ Value(p, k + 1) = Value(p, k) + p[k] * Weight(k)
  BY <1>0, ValueRule
<1>w. \A k \in Nat : Weight(k) \in Nat
  BY WeightRule
<1> HIDE DEF p
<1>1. 0 \in T
  <2>1. 0 >= Len(w) => Len(w) = 0
    BY <1>0
  <2> QED BY <1>0, <2>1
<1>2. ASSUME NEW k \in Nat, k \in T PROVE k + 1 \in T
  <2> SUFFICES ASSUME k + 1 >= Len(w) PROVE Value(p, k + 1) = WordsValue(w)
    OBVIOUS
  <2>1. CASE k + 1 = Len(w)
    BY <1>0, <2>1
  <2>2. CASE k + 1 # Len(w)
    <3>1. k >= Len(w)
      BY <1>0, <2>2
    <3>2. p[k] = 0 /\ Value(p, k) = WordsValue(w)
      BY <1>0, <1>2, <3>1
    <3>3. 0 * Weight(k) = 0
      BY <1>w
    <3>4. Value(p, k) + 0 = Value(p, k)
      BY <1>r
    <3> QED BY <1>r, <3>2, <3>3, <3>4
  <2> QED BY <2>1, <2>2
<1>3. n \in T
  <2> HIDE DEF T
  <2> QED BY <1>1, <1>2, SetInduction
<1> QED BY <1>3 DEF p

(* An array given by places has their value.                               *)
LEMMA ValueOfPlaces ==
    ASSUME NEW w \in Seq(Int), NEW p \in [Nat -> Int],
           \A k \in 0 .. Len(w) - 1 : w[k + 1] = p[k]
    PROVE  WordsValue(w) = Value(p, Len(w))
<1>1. /\ Places(w) \in [Nat -> Int] /\ Len(w) \in Nat
      /\ WordsValue(w) = Value(Places(w), Len(w))
      /\ \A k \in 0 .. Len(w) - 1 : Places(w)[k] = p[k]
  BY PlacesOfWords
<1>2. PlacesValue(Places(w), Len(w), Base) = PlacesValue(p, Len(w), Base)
  BY <1>1, BaseRule, PlacesEqual
<1> QED BY <1>1, <1>2 DEF Value

(* Limbs stay below the power of their number.                             *)
LEMMA WordsBound ==
    ASSUME NEW w \in Seq(Limb)
    PROVE  /\ WordsValue(w) \in 0 .. Weight(Len(w)) - 1
           /\ WordsValue(w) \in Nat /\ WordsValue(w) < Weight(Len(w))
<1>1. w \in Seq(Int) /\ \A k \in Nat : At(w, k) \in Limb
  BY LimbsAreIntegers
<1>2. /\ Places(w) \in [Nat -> Int] /\ Len(w) \in Nat
      /\ WordsValue(w) = Value(Places(w), Len(w))
      /\ \A k \in Nat : Places(w)[k] = At(w, k)
  BY <1>1, PlacesOfWords
<1>3. \A k \in 0 .. Len(w) - 1 : Places(w)[k] \in 0 .. Base - 1
  <2> TAKE k \in 0 .. Len(w) - 1
  <2>1. k \in Nat
    OBVIOUS
  <2>2. At(w, k) \in Limb /\ Places(w)[k] = At(w, k)
    BY <1>1, <1>2, <2>1
  <2> QED BY <2>2 DEF Limb
<1>4. PlacesValue(Places(w), Len(w), Base) \in 0 .. PowerOf(Base, Len(w)) - 1
  BY <1>2, <1>3, BaseRule, PlacesBound
<1>5. WordsValue(w) \in 0 .. Weight(Len(w)) - 1 /\ Weight(Len(w)) \in Nat
  BY <1>2, <1>4, WeightRule DEF Value, Weight
<1> QED BY <1>5

(* Zeros stand for zero.                                                   *)
LEMMA ZerosRule ==
    ASSUME NEW n \in Nat
    PROVE  /\ Zeros(n) \in Seq(Limb) /\ Len(Zeros(n)) = n
           /\ \A i \in 1 .. n : Zeros(n)[i] = 0
           /\ WordsValue(Zeros(n)) = 0
<1> DEFINE z == [i \in 1 .. n |-> 0]
           p == [k \in Nat |-> 0]
<1>1. 0 \in Limb
  BY BaseRule DEF Limb
<1>2. z \in Seq(Limb) /\ Len(z) = n
  BY <1>1
<1>3. <<>> \in Seq(Limb) /\ <<>> \o z = z
  BY <1>2
<1>4. Zeros(n) = z
  BY <1>3 DEF Zeros
<1>5. Zeros(n) \in Seq(Limb) /\ Len(Zeros(n)) = n /\ \A i \in 1 .. n : Zeros(n)[i] = 0
  BY <1>2, <1>4
<1> HIDE DEF z
<1>6. p \in [Nat -> Int] /\ \A k \in 0 .. n - 1 : Zeros(n)[k + 1] = p[k]
  BY <1>5
<1>7. Zeros(n) \in Seq(Int)
  BY <1>5, LimbsAreIntegers
<1>8. WordsValue(Zeros(n)) = Value(p, n)
  BY <1>5, <1>6, <1>7, ValueOfPlaces
<1> DEFINE T == {k \in Nat : Value(p, k) = 0}
<1>9. 0 \in T /\ \A k \in Nat : k \in T => k + 1 \in T
  <2>1. /\ Value(p, 0) = 0
        /\ \A k \in Nat : Value(p, k + 1) = Value(p, k) + p[k] * Weight(k)
    BY <1>6, ValueRule
  <2>2. \A k \in Nat : p[k] = 0 /\ Weight(k) \in Nat
    BY WeightRule
  <2> HIDE DEF p
  <2>3. \A k \in Nat : 0 * Weight(k) = 0
    BY <2>2
  <2>4. \A k \in Nat : Value(p, k) = 0 => Value(p, k + 1) = 0
    BY <2>1, <2>2, <2>3
  <2> QED BY <2>1, <2>4
<1>10. n \in T
  <2> HIDE DEF T
  <2> QED BY <1>9, SetInduction
<1> QED BY <1>5, <1>8, <1>10

(* Two arrays, the second above the first.                                 *)
LEMMA JoinedWords ==
    ASSUME NEW a \in Seq(Limb), NEW b \in Seq(Limb)
    PROVE  /\ a \o b \in Seq(Limb) /\ Len(a \o b) = Len(a) + Len(b)
           /\ WordsValue(a \o b) = WordsValue(a) + Weight(Len(a)) * WordsValue(b)
<1> DEFINE j == a \o b
           m == Len(a)
           n == Len(b)
<1>1. /\ j \in Seq(Limb) /\ Len(j) = m + n
      /\ \A i \in 1 .. m : j[i] = a[i]
      /\ \A i \in 1 .. n : j[m + i] = b[i]
  BY Joined
<1> HIDE DEF j
<1>2. a \in Seq(Int) /\ b \in Seq(Int) /\ j \in Seq(Int) /\ m \in Nat /\ n \in Nat
  BY <1>1, LimbsAreIntegers
<1>3. /\ Places(a) \in [Nat -> Int] /\ WordsValue(a) = Value(Places(a), m)
      /\ \A k \in 0 .. m - 1 : Places(a)[k] = a[k + 1]
  BY <1>2, PlacesOfWords
<1>4. /\ Places(b) \in [Nat -> Int] /\ WordsValue(b) = Value(Places(b), n)
      /\ \A k \in 0 .. n - 1 : Places(b)[k] = b[k + 1]
  BY <1>2, PlacesOfWords
<1>5. /\ Places(j) \in [Nat -> Int] /\ WordsValue(j) = Value(Places(j), m + n)
      /\ \A k \in 0 .. (m + n) - 1 : Places(j)[k] = j[k + 1]
  BY <1>1, <1>2, PlacesOfWords
<1> HIDE DEF m, n
<1>6. \A k \in 0 .. n - 1 : Places(b)[k] = Places(j)[m + k]
  <2> TAKE k \in 0 .. n - 1
  <2>1. m + k \in 0 .. (m + n) - 1 /\ (m + k) + 1 = m + (k + 1) /\ k + 1 \in 1 .. n
    BY <1>2
  <2> QED BY <1>1, <1>4, <1>5, <2>1
<1>7. \A k \in 0 .. m - 1 : Places(a)[k] = Places(j)[k]
  <2> TAKE k \in 0 .. m - 1
  <2>1. k \in 0 .. (m + n) - 1 /\ k + 1 \in 1 .. m
    BY <1>2
  <2> QED BY <1>1, <1>3, <1>5, <2>1
<1>8. Value(Places(j), m + n) = Value(Places(j), m) + Weight(m) * Value(Places(b), n)
  <2>1. PICK p \in [Nat -> Int] : p = Places(j)
    BY <1>5
  <2>2. PICK q \in [Nat -> Int] : q = Places(b)
    BY <1>4
  <2>3. Above(q, p, m, n)
    BY <1>6, <2>1, <2>2 DEF Above
  <2>4. Value(p, m + n) = Value(p, m) + Weight(m) * Value(q, n)
    BY <1>2, <2>3, ValueSplit
  <2> QED BY <2>1, <2>2, <2>4
<1>9. Value(Places(j), m) = Value(Places(a), m)
  BY <1>2, <1>3, <1>5, <1>7, ValueEqual
<1> QED
  BY <1>1, <1>3, <1>4, <1>5, <1>8, <1>9 DEF j, m, n

(* An array cut in two.                                                    *)
LEMMA CutWords ==
    ASSUME NEW w \in Seq(Limb), NEW k \in 0 .. Len(w)
    PROVE  /\ SubSeq(w, 1, k) \in Seq(Limb) /\ Len(SubSeq(w, 1, k)) = k
           /\ SubSeq(w, k + 1, Len(w)) \in Seq(Limb) /\ Len(SubSeq(w, k + 1, Len(w))) = Len(w) - k
           /\ WordsValue(w) = WordsValue(SubSeq(w, 1, k))
                                + Weight(k) * WordsValue(SubSeq(w, k + 1, Len(w)))
<1>1. /\ SubSeq(w, 1, k) \in Seq(Limb) /\ Len(SubSeq(w, 1, k)) = k
      /\ SubSeq(w, k + 1, Len(w)) \in Seq(Limb) /\ Len(SubSeq(w, k + 1, Len(w))) = Len(w) - k
      /\ w = SubSeq(w, 1, k) \o SubSeq(w, k + 1, Len(w))
  BY ZenonT(40), TakeDrop
<1> DEFINE a == SubSeq(w, 1, k)
           b == SubSeq(w, k + 1, Len(w))
<1> HIDE DEF a, b
<1>2. a \in Seq(Limb) /\ b \in Seq(Limb) /\ Len(a) = k /\ w = a \o b
  BY <1>1 DEF a, b
<1>3. WordsValue(a \o b) = WordsValue(a) + Weight(Len(a)) * WordsValue(b)
  BY <1>2, JoinedWords
<1>4. WordsValue(w) = WordsValue(a) + Weight(k) * WordsValue(b)
  BY <1>2, <1>3
<1> QED BY <1>1, <1>4 DEF a, b

(* An array of limbs given place by place.                                 *)
LEMMA WordsFromPlaces ==
    ASSUME NEW n \in Nat, NEW p \in [Nat -> Int], \A k \in 0 .. n - 1 : p[k] \in Limb,
           NEW w, w = [i \in 1 .. n |-> p[i - 1]]
    PROVE  w \in Seq(Limb) /\ Len(w) = n /\ WordsValue(w) = Value(p, n)
<1>1. \A i \in 1 .. n : i - 1 \in 0 .. n - 1 /\ p[i - 1] \in Limb
  OBVIOUS
<1>2. w \in Seq(Limb) /\ Len(w) = n
  BY <1>1
<1>3. \A k \in 0 .. n - 1 : w[k + 1] = p[k]
  <2> TAKE k \in 0 .. n - 1
  <2>1. k + 1 \in 1 .. n /\ (k + 1) - 1 = k
    OBVIOUS
  <2> QED BY <2>1
<1>4. w \in Seq(Int)
  BY <1>2, LimbsAreIntegers
<1> QED BY <1>2, <1>3, <1>4, ValueOfPlaces

(* The limbs of a number.                                                  *)
LEMMA WordsOfRule ==
    ASSUME NEW v \in Nat, NEW n \in Nat
    PROVE  /\ WordsOf(v, n) \in Seq(Limb) /\ Len(WordsOf(v, n)) = n
           /\ WordsValue(WordsOf(v, n)) = v % Weight(n)
           /\ v < Weight(n) => WordsValue(WordsOf(v, n)) = v
<1> DEFINE p == [k \in Nat |-> Low(v \div PowerOf(Base, k))]
           w == WordsOf(v, n)
<1>1. \A k \in Nat : v \div PowerOf(Base, k) \in Nat
  <2> TAKE k \in Nat
  <2>1. PowerOf(Base, k) \in Nat \ {0}
    BY BaseRule, PowerRule
  <2> QED BY <2>1, Division
<1>2. \A k \in Nat : Low(v \div PowerOf(Base, k)) \in Limb /\ Low(v \div PowerOf(Base, k)) \in Int
  <2> TAKE k \in Nat
  <2>1. v \div PowerOf(Base, k) \in Int
    BY <1>1
  <2> QED BY <2>1, LowHigh
<1>3. p \in [Nat -> Int] /\ \A k \in 0 .. n - 1 : p[k] \in Limb
  BY <1>2
<1>4. w = [i \in 1 .. n |-> p[i - 1]]
  BY DEF WordsOf
<1>5. \A k \in 0 .. n - 1 : p[k] = (v \div PowerOf(Base, k)) % Base
  BY DEF Low
<1> HIDE DEF p, w
<1>6. w \in Seq(Limb) /\ Len(w) = n /\ WordsValue(w) = Value(p, n)
  BY <1>3, <1>4, WordsFromPlaces
<1>7. v = Value(p, n) + Weight(n) * (v \div Weight(n)) /\ v \div Weight(n) \in Nat
  BY <1>3, <1>5, BaseRule, PlacesOfDigits DEF Value, Weight
<1>8. WordsValue(w) \in Nat /\ WordsValue(w) < Weight(n) /\ Weight(n) \in Nat \ {0}
  BY <1>6, WordsBound, WeightRule
<1> DEFINE x == WordsValue(w)
           q == v \div Weight(n)
           u == Weight(n)
<1>9. v = u * q + x /\ q \in Nat /\ x \in Nat /\ x < u /\ u \in Nat \ {0}
  BY <1>6, <1>7, <1>8
<1> HIDE DEF x, q, u
<1>10. v % u = x
  BY <1>9, DivisionUnique
<1>11. v < u => v = u * 0 + v
  BY <1>9
<1>12. v < u => v % u = v
  BY <1>9, <1>11, DivisionUnique
<1> QED BY <1>6, <1>10, <1>12 DEF x, u, w

(* A ripple keeps the value; its carry stays in every set it cannot leave. *)
LEMMA RippleExact ==
    ASSUME NEW p \in [Nat -> Int], NEW n \in Nat,
           NEW C, C \subseteq Int, 0 \in C, \A k \in Nat : \A c \in C : High(p[k] + c) \in C
    PROVE  /\ Ripple(p, n).w \in Seq(Limb) /\ Len(Ripple(p, n).w) = n
           /\ Ripple(p, n).carry \in C
           /\ Value(p, n) = WordsValue(Ripple(p, n).w) + Ripple(p, n).carry * Weight(n)
<1>1. PICK c : /\ Carries(c, p)
               /\ \A m \in Nat : Ripple(p, m) = [w |-> [i \in 1 .. m |-> Low(p[i - 1] + c[i - 1])],
                                                 carry |-> c[m]]
  BY RippleRule
<1>2. \A k \in Nat : c[k] \in C
  <2>1. c[0] \in C
    BY <1>1 DEF Carries
  <2>2. \A k \in Nat : c[k] \in C => c[k + 1] \in C
    BY <1>1 DEF Carries
  <2> QED BY <2>1, <2>2, StaysWithin
<1> DEFINE d == [k \in Nat |-> Low(p[k] + c[k])]
           w == [i \in 1 .. n |-> Low(p[i - 1] + c[i - 1])]
<1>3. \A k \in Nat : /\ c[k] \in Int /\ p[k] + c[k] \in Int
                     /\ Low(p[k] + c[k]) \in Limb /\ Low(p[k] + c[k]) \in Int
                     /\ p[k] + c[k] = Base * c[k + 1] + Low(p[k] + c[k])
  <2> TAKE k \in Nat
  <2>1. p[k] + c[k] \in Int /\ c[k] \in Int /\ c[k + 1] = High(p[k] + c[k])
    <3>1. c[k] \in Int /\ c[k + 1] = High(p[k] + c[k])
      BY <1>1 DEF Carries
    <3>2. p[k] \in Int
      OBVIOUS
    <3> QED BY <3>1, <3>2
  <2> QED BY <2>1, LowHigh
<1>4. d \in [Nat -> Int] /\ (\A k \in 0 .. n - 1 : d[k] \in Limb) /\ \A k \in Nat : d[k] = Low(p[k] + c[k])
  BY <1>3
<1>5. w = [i \in 1 .. n |-> d[i - 1]]
  BY <1>4
<1> HIDE DEF d, w
<1>6. w \in Seq(Limb) /\ Len(w) = n /\ WordsValue(w) = Value(d, n)
  BY <1>4, <1>5, WordsFromPlaces
<1> DEFINE T == {k \in Nat : Value(p, k) = Value(d, k) + c[k] * Weight(k)}
<1>7. 0 \in T
  <2>1. Value(p, 0) = 0 /\ Value(d, 0) = 0 /\ c[0] = 0 /\ Weight(0) = 1
    BY <1>1, <1>4, ValueRule, WeightRule DEF Carries
  <2> QED BY <2>1
<1>8. ASSUME NEW k \in Nat, k \in T PROVE k + 1 \in T
  <2> DEFINE u == Weight(k)
             x == Value(d, k)
             y == d[k]
             z == c[k + 1]
  <2>0. u \in Nat /\ x \in Int
    BY <1>4, ValueRule, WeightRule
  <2>1. Value(p, k) = x + c[k] * u /\ u \in Nat /\ x \in Int /\ y \in Int /\ z \in Int /\ c[k] \in Int
    <3>1. y \in Int /\ z \in Int /\ c[k] \in Int
      BY <1>3, <1>4
    <3>2. Value(p, k) = x + c[k] * u
      BY <1>8
    <3> QED BY <2>0, <3>1, <3>2
  <2>2. p[k] + c[k] = Base * z + y
    BY <1>3, <1>4
  <2>3. /\ Value(p, k + 1) = Value(p, k) + p[k] * u
        /\ Value(d, k + 1) = x + y * u
        /\ Weight(k + 1) = Base * u
    BY <1>4, ValueRule, WeightRule
  <2> HIDE DEF u, x, y, z
  <2>4. p[k] \in Int /\ Base \in Int
    BY BaseRule
  <2>5. x + c[k] * u + p[k] * u = x + (p[k] + c[k]) * u
    BY <2>1, <2>4
  <2>6. (Base * z + y) * u = z * (Base * u) + y * u
    BY <2>1, <2>4
  <2>7. Value(p, k + 1) = x + (z * (Base * u) + y * u)
    BY <2>1, <2>2, <2>3, <2>5, <2>6
  <2>8. y * u \in Int /\ z * (Base * u) \in Int
    BY <2>1, <2>4
  <2>9. Value(p, k + 1) = Value(d, k + 1) + z * Weight(k + 1)
    BY <2>1, <2>3, <2>7, <2>8
  <2> QED BY <2>9 DEF z
<1>9. n \in T
  <2> HIDE DEF T
  <2> QED BY <1>7, <1>8, SetInduction
<1>10. Ripple(p, n) = [w |-> w, carry |-> c[n]]
  BY <1>1 DEF w
<1>11. Ripple(p, n).w = w /\ Ripple(p, n).carry = c[n]
  BY <1>10
<1>12. Value(p, n) = Value(d, n) + c[n] * Weight(n) /\ c[n] \in C
  BY <1>2, <1>9
<1> QED BY <1>6, <1>11, <1>12

(* The sum of the low n limbs of two arrays.                               *)
LEMMA SumInPlaces ==
    ASSUME NEW a \in Seq(Limb), NEW b \in Seq(Limb), NEW n \in Nat
    PROVE  /\ AddWords(a, b, n).w \in Seq(Limb) /\ Len(AddWords(a, b, n).w) = n
           /\ AddWords(a, b, n).carry \in {0, 1}
           /\ Value(Places(a), n) + Value(Places(b), n)
                = WordsValue(AddWords(a, b, n).w) + AddWords(a, b, n).carry * Weight(n)
<1> DEFINE p == [i \in Nat |-> At(a, i) + At(b, i)]
           C == {0, 1}
           r == Ripple(p, n)
<1>1. /\ a \in Seq(Int) /\ Len(a) \in Nat /\ \A k \in Nat : At(a, k) \in Limb /\ At(a, k) \in Nat
      /\ b \in Seq(Int) /\ Len(b) \in Nat /\ \A k \in Nat : At(b, k) \in Limb /\ At(b, k) \in Nat
  BY LimbsAreIntegers
<1>2. p \in [Nat -> Int] /\ \A k \in Nat : p[k] = At(a, k) + At(b, k)
  BY <1>1
<1>3. \A k \in Nat : \A c \in C : High(p[k] + c) \in C
  <2> TAKE k \in Nat
  <2> TAKE c \in C
  <2> DEFINE x == p[k] + c
             B == Base
  <2>1. x \in 0 .. B + B - 1 /\ B \in Nat \ {0}
    <3>1. At(a, k) \in Limb /\ At(b, k) \in Limb /\ p[k] = At(a, k) + At(b, k) /\ c \in {0, 1}
      BY <1>1, <1>2
    <3>2. B \in Nat \ {0}
      BY BaseRule
    <3> QED BY <3>1, <3>2 DEF Limb
  <2>2. High(x) = x \div B
    BY DEF High
  <2> HIDE DEF x, B
  <2>3. x \div B \in {0, 1}
    <3>0. x \in Nat /\ B \in Nat \ {0}
      BY <2>1
    <3>1. \A q, s \in Nat : x = B * q + s /\ s < B => x \div B = q
      BY <3>0, DivisionUnique
    <3>2. CASE x < B
      <4>1. x = B * 0 + x
        BY <2>1
      <4> QED BY <2>1, <3>1, <3>2, <4>1
    <3>3. CASE ~(x < B)
      <4>1. x = B * 1 + (x - B) /\ x - B \in Nat /\ x - B < B
        BY <2>1, <3>3
      <4> QED BY <3>1, <4>1
    <3> QED BY <3>2, <3>3
  <2> QED BY <2>2, <2>3 DEF x
<1>4. AddWords(a, b, n) = r
  BY DEF AddWords
<1>5. C \subseteq Int /\ 0 \in C
  OBVIOUS
<1> HIDE DEF p, C
<1>6. /\ r.w \in Seq(Limb) /\ Len(r.w) = n /\ r.carry \in C
      /\ Value(p, n) = WordsValue(r.w) + r.carry * Weight(n)
  BY <1>2, <1>3, <1>5, RippleExact
<1>7. Value(p, n) = Value(Places(a), n) + Value(Places(b), n)
  <2>0. PICK x \in [Nat -> Int] : x = Places(a) /\ \A k \in Nat : x[k] = At(a, k)
    BY <1>1, PlacesOfWords
  <2>1. PICK y \in [Nat -> Int] : y = Places(b) /\ \A k \in Nat : y[k] = At(b, k)
    BY <1>1, PlacesOfWords
  <2>3. Combined(p, x, y, 1, n)
    BY <1>1, <1>2, <2>0, <2>1 DEF Combined
  <2>4. Value(p, n) = Value(x, n) + 1 * Value(y, n)
    <3>1. \A c \in Int : Combined(p, x, y, c, n) => Value(p, n) = Value(x, n) + c * Value(y, n)
      BY ZenonT(40), <1>2, ValueLinear
    <3> QED BY <2>3, <3>1
  <2>5. Value(y, n) \in Int
    BY <2>1, ValueRule
  <2> QED BY <2>0, <2>1, <2>4, <2>5
<1> HIDE DEF r
<1> QED BY <1>4, <1>6, <1>7 DEF C

(* The sum of two arrays that fit n limbs.                                 *)
LEMMA SumOfWords ==
    ASSUME NEW a \in Seq(Limb), NEW b \in Seq(Limb), NEW n \in Nat, n >= Len(a), n >= Len(b)
    PROVE  /\ AddWords(a, b, n).w \in Seq(Limb) /\ Len(AddWords(a, b, n).w) = n
           /\ AddWords(a, b, n).carry \in {0, 1}
           /\ WordsValue(a) + WordsValue(b)
                = WordsValue(AddWords(a, b, n).w) + AddWords(a, b, n).carry * Weight(n)
<1>1. a \in Seq(Int) /\ b \in Seq(Int)
  BY LimbsAreIntegers
<1>2. Value(Places(a), n) = WordsValue(a) /\ Value(Places(b), n) = WordsValue(b)
  BY <1>1, ValueBeyond
<1> QED BY <1>2, SumInPlaces

-----------------------------------------------------------------------------
(* Sums and differences of words.                                          *)

(* The sum and the difference of places.                                   *)
LEMMA ValueSum ==
    ASSUME NEW s \in [Nat -> Int], NEW p \in [Nat -> Int], NEW q \in [Nat -> Int], NEW n \in Nat,
           NEW c \in Int, Combined(s, p, q, c, n)
    PROVE  /\ c = 1 => Value(s, n) = Value(p, n) + Value(q, n)
           /\ c = -1 => Value(s, n) = Value(p, n) - Value(q, n)
<1>1. Value(s, n) = Value(p, n) + c * Value(q, n)
  BY ValueLinear
<1>2. Value(p, n) \in Int /\ Value(q, n) \in Int
  BY ValueRule
<1> QED BY <1>1, <1>2

(* The difference of two arrays in n limbs.                                *)
LEMMA DifferenceOfWords ==
    ASSUME NEW a \in Seq(Limb), NEW b \in Seq(Limb), NEW n \in Nat, n >= Len(a), n >= Len(b)
    PROVE  /\ SubWords(a, b, n).w \in Seq(Limb) /\ Len(SubWords(a, b, n).w) = n
           /\ SubWords(a, b, n).borrow \in {0, 1}
           /\ WordsValue(a) - WordsValue(b)
                = WordsValue(SubWords(a, b, n).w) - SubWords(a, b, n).borrow * Weight(n)
<1> DEFINE p == [i \in Nat |-> At(a, i) - At(b, i)]
           C == {-1, 0}
           r == Ripple(p, n)
<1>1. /\ a \in Seq(Int) /\ Len(a) \in Nat /\ \A k \in Nat : At(a, k) \in Limb /\ At(a, k) \in Nat
      /\ b \in Seq(Int) /\ Len(b) \in Nat /\ \A k \in Nat : At(b, k) \in Limb /\ At(b, k) \in Nat
  BY LimbsAreIntegers
<1>2. p \in [Nat -> Int] /\ \A k \in Nat : p[k] = At(a, k) - At(b, k)
  <2>1. ASSUME NEW k \in Nat PROVE At(a, k) - At(b, k) \in Int
    <3>1. PICK x \in Nat, y \in Nat : x = At(a, k) /\ y = At(b, k)
      BY <1>1
    <3>2. x - y \in Int
      OBVIOUS
    <3> QED BY <3>1, <3>2
  <2> QED BY <2>1
<1>3. \A k \in Nat : \A c \in C : High(p[k] + c) \in C
  <2> TAKE k \in Nat
  <2> TAKE c \in C
  <2> DEFINE x == p[k] + c
             B == Base
             q == High(x)
             l == Low(x)
  <2>1. x \in (0 - B) .. B - 1 /\ B \in Nat \ {0}
    <3>1. At(a, k) \in Limb /\ At(b, k) \in Limb /\ p[k] = At(a, k) - At(b, k) /\ c \in {-1, 0}
      BY <1>1, <1>2
    <3>2. B \in Nat \ {0}
      BY BaseRule
    <3> QED BY <3>1, <3>2 DEF Limb
  <2>2. q \in Int /\ l \in 0 .. B - 1 /\ x = B * q + l
    <3>1. x \in Int
      BY <2>1
    <3> QED BY <3>1, LowHigh DEF Limb
  <2> HIDE DEF x, B, q, l
  <2>3. q < 1
    <3>1. q >= 1 => B * q >= B
      BY <2>1, <2>2
    <3> QED BY <2>1, <2>2, <3>1
  <2>4. q > -2
    <3>1. q <= -2 => B * q <= 0 - (B + B)
      BY <2>1, <2>2
    <3> QED BY <2>1, <2>2, <3>1
  <2>5. q \in {-1, 0}
    BY <2>2, <2>3, <2>4
  <2> QED BY <2>5 DEF q, x
<1>4. SubWords(a, b, n) = [w |-> r.w, borrow |-> - r.carry]
  BY DEF SubWords
<1>5. C \subseteq Int /\ 0 \in C
  OBVIOUS
<1> HIDE DEF p, C
<1>6. /\ r.w \in Seq(Limb) /\ Len(r.w) = n /\ r.carry \in C
      /\ Value(p, n) = WordsValue(r.w) + r.carry * Weight(n)
  BY <1>2, <1>3, <1>5, RippleExact
<1>7. Value(p, n) = WordsValue(a) - WordsValue(b)
  <2>0. PICK x \in [Nat -> Int] : x = Places(a) /\ \A k \in Nat : x[k] = At(a, k)
    BY <1>1, PlacesOfWords
  <2>1. PICK y \in [Nat -> Int] : y = Places(b) /\ \A k \in Nat : y[k] = At(b, k)
    BY <1>1, PlacesOfWords
  <2>2. Value(x, n) = WordsValue(a) /\ Value(y, n) = WordsValue(b)
    BY <1>1, <2>0, <2>1, ValueBeyond
  <2>3. \E c \in Int : c = -1 /\ Combined(p, x, y, c, n)
    BY SMTT(20), <1>1, <1>2, <2>0, <2>1 DEF Combined
  <2>4. Value(p, n) = Value(x, n) - Value(y, n)
    BY ZenonT(40), <1>2, <2>3, ValueSum
  <2> QED BY <2>2, <2>4
<1> HIDE DEF r
<1>8. /\ SubWords(a, b, n).w = r.w /\ SubWords(a, b, n).borrow = - r.carry
      /\ r.carry \in {-1, 0}
  BY <1>4, <1>6 DEF C
<1>9. Weight(n) \in Nat /\ WordsValue(r.w) \in Nat
  BY <1>6, WeightRule, WordsBound
<1>10. r.carry * Weight(n) = - (SubWords(a, b, n).borrow * Weight(n))
  BY <1>8, <1>9
<1>11. SubWords(a, b, n).borrow \in {0, 1}
  BY <1>8
<1> QED BY <1>6, <1>7, <1>8, <1>9, <1>10, <1>11

(* A quotient of what fits two limbs is a limb.                            *)
LEMMA HighIsLimb ==
    ASSUME NEW y \in Nat, y < Base * Base
    PROVE  High(y) \in Limb
<1> DEFINE B == Base
           q == y \div B
<1>1. B \in Nat \ {0} /\ y < B * B
  BY BaseRule
<1>2. q \in Nat /\ y = B * q + (y % B) /\ y % B \in 0 .. B - 1
  BY <1>1, Division
<1> HIDE DEF B, q
<1>3. q < B
  <2>1. q >= B => B * q >= B * B
    BY <1>1, <1>2
  <2> QED BY <1>1, <1>2, <2>1
<1> QED BY <1>1, <1>2, <1>3 DEF High, Limb, B, q

\* f and g agree below place i and for n places from place i + m on.
Around(f, g, i, m, n) ==
    (\A k \in 0 .. i - 1 : f[k] = g[k]) /\ \A k \in 0 .. n - 1 : f[i + m + k] = g[i + m + k]

\* l = i + m + n places of f and g differ only in the m places from place i on,
\* which are x and y.
Windowed(f, g, x, y, i, m, n, l) ==
    /\ f \in [Nat -> Int] /\ g \in [Nat -> Int] /\ x \in [Nat -> Int] /\ y \in [Nat -> Int]
    /\ i \in Nat /\ m \in Nat /\ n \in Nat /\ l = i + m + n
    /\ Above(x, f, i, m) /\ Above(y, g, i, m) /\ Around(f, g, i, m, n)

(* Places that differ only in a window of m from place i.                  *)
LEMMA WindowReplaced ==
    ASSUME NEW f, NEW g, NEW x, NEW y, NEW i, NEW m, NEW n, NEW l,
           Windowed(f, g, x, y, i, m, n, l)
    PROVE  Value(f, l) = Value(g, l) + Weight(i) * (Value(x, m) - Value(y, m))
<1>t. /\ f \in [Nat -> Int] /\ g \in [Nat -> Int] /\ x \in [Nat -> Int] /\ y \in [Nat -> Int]
      /\ i \in Nat /\ m \in Nat /\ n \in Nat
  BY DEF Windowed
<1>0. /\ l = i + m + n
      /\ Above(x, f, i, m) /\ Above(y, g, i, m) /\ Around(f, g, i, m, n)
  BY DEF Windowed
<1>1. PICK z \in [Nat -> Int] : \A k \in Nat : z[k] = f[i + m + k]
  <2>1. [k \in Nat |-> f[i + m + k]] \in [Nat -> Int]
    BY <1>t
  <2> QED BY <2>1
<1>2. Above(z, f, i + m, n) /\ Above(z, g, i + m, n) /\ i + m \in Nat
  <2>1. \A k \in 0 .. n - 1 : k \in Nat /\ z[k] = f[i + m + k]
    BY <1>1
  <2>2. \A k \in 0 .. n - 1 : z[k] = g[i + m + k]
    BY <1>0, <2>1 DEF Around
  <2>3. i + m \in Nat
    BY <1>t
  <2>4. Above(z, f, i + m, n)
    BY <2>1 DEF Above
  <2>5. Above(z, g, i + m, n)
    BY <2>2 DEF Above
  <2> QED BY <2>3, <2>4, <2>5
<1>j. PICK j \in Nat : j = i + m
  BY <1>t
<1>k. /\ Value(f, j + n) = Value(f, j) + Weight(j) * Value(z, n)
      /\ Value(g, j + n) = Value(g, j) + Weight(j) * Value(z, n)
  <2>1. Above(z, f, j, n) /\ Above(z, g, j, n)
    BY <1>2, <1>j
  <2> QED BY <1>t, <2>1, ValueSplit
<1>3. /\ Value(f, i + m + n) = Value(f, i + m) + Weight(i + m) * Value(z, n)
      /\ Value(g, i + m + n) = Value(g, i + m) + Weight(i + m) * Value(z, n)
  BY <1>j, <1>k
<1>4. /\ Value(f, i + m) = Value(f, i) + Weight(i) * Value(x, m)
      /\ Value(g, i + m) = Value(g, i) + Weight(i) * Value(y, m)
  <2>1. Above(x, f, i, m) /\ Above(y, g, i, m)
    BY <1>0
  <2>2. Value(f, i + m) = Value(f, i) + Weight(i) * Value(x, m)
    BY <1>t, <2>1, ValueSplit
  <2>3. Value(g, i + m) = Value(g, i) + Weight(i) * Value(y, m)
    BY <1>t, <2>1, ValueSplit
  <2> QED BY <2>2, <2>3
<1>5. Value(f, i) = Value(g, i)
  <2>1. \A k \in 0 .. i - 1 : f[k] = g[k]
    BY <1>0 DEF Around
  <2> QED BY <1>t, <2>1, ValueEqual
<1>6. /\ Value(f, i) \in Int /\ Value(x, m) \in Int /\ Value(y, m) \in Int /\ Value(z, n) \in Int
      /\ Weight(i) \in Int /\ Weight(i + m) * Value(z, n) \in Int
  <2>1. Weight(i) \in Nat /\ Weight(i + m) \in Nat
    BY <1>t, <1>2, WeightRule
  <2>2. Value(f, i) \in Int /\ Value(x, m) \in Int /\ Value(y, m) \in Int /\ Value(z, n) \in Int
    BY <1>t, ValueRule
  <2> QED BY <2>1, <2>2
<1>7. \A u, v, w, a, t \in Int : (a + u * v) + t = ((a + u * w) + t) + u * (v - w)
  OBVIOUS
<1>8. (Value(f, i) + Weight(i) * Value(x, m)) + Weight(i + m) * Value(z, n)
        = ((Value(f, i) + Weight(i) * Value(y, m)) + Weight(i + m) * Value(z, n))
            + Weight(i) * (Value(x, m) - Value(y, m))
  BY <1>6, <1>7
<1> QED BY <1>0, <1>3, <1>4, <1>5, <1>8

-----------------------------------------------------------------------------
(* The schoolbook product, row by row.                                     *)

(* A product of two limbs and two more fit two limbs.                      *)
LEMMA CarryIsLimb ==
    ASSUME NEW u \in Limb, NEW x \in Limb, NEW v \in Limb, NEW c \in Limb
    PROVE  High(u * x + v + c) \in Limb
<1>1. PICK B \in Nat \ {0} : B = Base
  BY BaseRule
<1>2. u \in 0 .. B - 1 /\ x \in 0 .. B - 1 /\ v \in 0 .. B - 1 /\ c \in 0 .. B - 1
  BY <1>1 DEF Limb
<1>3. \A s, t \in Nat : s <= B - 1 /\ t <= B - 1 => s * t <= (B - 1) * t /\ (B - 1) * t <= (B - 1) * (B - 1)
  <2> TAKE s, t \in Nat
  <2> HAVE s <= B - 1 /\ t <= B - 1
  <2>1. (B - 1) - s \in Nat /\ (B - 1) - t \in Nat /\ B - 1 \in Nat
    BY <1>1
  <2>2. ((B - 1) - s) * t \in Nat /\ (B - 1) * ((B - 1) - t) \in Nat
    BY <2>1
  <2>3. ((B - 1) - s) * t = (B - 1) * t - s * t
    BY <1>1
  <2>4. (B - 1) * ((B - 1) - t) = (B - 1) * (B - 1) - (B - 1) * t
    BY <1>1
  <2>5. s * t \in Nat /\ (B - 1) * t \in Nat /\ (B - 1) * (B - 1) \in Nat
    BY <2>1
  <2> QED BY <2>2, <2>3, <2>4, <2>5
<1>4. u \in Nat /\ x \in Nat /\ v \in Nat /\ c \in Nat /\ u * x \in Nat /\ (B - 1) * x \in Nat
  BY <1>1, <1>2
<1>5. u * x <= (B - 1) * x /\ (B - 1) * x <= (B - 1) * (B - 1)
  BY <1>2, <1>3, <1>4
<1>6. (B - 1) * (B - 1) = B * B - B - B + 1 /\ B * B \in Nat
  BY <1>1
<1>7. u * x + v + c \in Nat /\ u * x + v + c < B * B
  BY <1>1, <1>2, <1>4, <1>5, <1>6
<1> QED BY <1>1, <1>7, HighIsLimb

\* The limbs s stand in r from place i on, the limb c above them, and the rest
\* is w.
RowStored(r, w, s, c, i, m) ==
    /\ \A k \in 1 .. Len(w) : k <= i \/ k > i + m + 1 => r[k] = w[k]
    /\ \A k \in 1 .. Len(w) : k = i + m + 1 => r[k] = c
    /\ \A k \in 1 .. Len(w) : k > i /\ k <= i + m => r[k] = s[k - i]

\* A row of a product is given: the words so far w, the row s of m limbs, the
\* carry c, and the place i where the row goes.
RowGiven(r, w, s, c, i, m) ==
    /\ w \in Seq(Limb) /\ s \in Seq(Limb) /\ c \in Limb /\ i \in Nat /\ m \in Nat /\ Len(s) = m
    /\ r = Placed(w, i, s, c)

(* A row of limbs stored over an array.                                    *)
LEMMA RowLimbs ==
    ASSUME NEW w, NEW s, NEW c, NEW i, NEW m, NEW r, RowGiven(r, w, s, c, i, m)
    PROVE  r \in Seq(Limb) /\ Len(r) = Len(w) /\ RowStored(r, w, s, c, i, m)
<1>0. /\ w \in Seq(Limb) /\ s \in Seq(Limb) /\ c \in Limb /\ i \in Nat /\ m \in Nat /\ Len(s) = m
      /\ r = [k \in DOMAIN w |-> CASE k <= i \/ k > i + m + 1 -> w[k]
                                    [] k = i + m + 1 -> c
                                    [] OTHER -> s[k - i]]
  BY DEF RowGiven, Placed
<1>1. PICK n \in Nat : n = Len(w) /\ DOMAIN w = 1 .. n
  BY <1>0
<1>2. ASSUME NEW k \in 1 .. n
      PROVE  /\ k <= i \/ k > i + m + 1 => r[k] = w[k]
             /\ k = i + m + 1 => r[k] = c
             /\ k > i /\ k <= i + m => r[k] = s[k - i]
  <2>1. r[k] = CASE k <= i \/ k > i + m + 1 -> w[k]
                 [] k = i + m + 1 -> c
                 [] OTHER -> s[k - i]
    BY <1>0, <1>1
  <2>2. CASE k <= i \/ k > i + m + 1
    <3>1. k # i + m + 1 /\ ~(k > i /\ k <= i + m)
      BY <1>0, <2>2
    <3> QED BY <2>1, <2>2, <3>1
  <2>3. CASE k = i + m + 1
    <3>1. ~(k <= i \/ k > i + m + 1) /\ ~(k > i /\ k <= i + m)
      BY <1>0, <2>3
    <3> QED BY <2>1, <2>3, <3>1
  <2>4. CASE k > i /\ k <= i + m
    <3>1. ~(k <= i \/ k > i + m + 1) /\ k # i + m + 1
      BY <1>0, <2>4
    <3> QED BY <2>1, <3>1
  <2> QED BY <2>2, <2>3, <2>4
<1>3. RowStored(r, w, s, c, i, m)
  BY <1>1, <1>2 DEF RowStored
<1>4. ASSUME NEW k \in 1 .. n PROVE r[k] \in Limb
  <2>1. w[k] \in Limb
    BY <1>0, <1>1
  <2>2. ASSUME k > i /\ k <= i + m PROVE s[k - i] \in Limb
    <3>1. k - i \in 1 .. m
      BY <1>0, <2>2
    <3> QED BY <1>0, <3>1
  <2>3. (k <= i \/ k > i + m + 1) \/ k = i + m + 1 \/ (k > i /\ k <= i + m)
    <3>1. i \in Nat /\ m \in Nat /\ k \in Nat
      BY <1>0
    <3> QED BY <3>1
  <2>4. c \in Limb
    BY <1>0
  <2> QED BY <1>2, <2>1, <2>2, <2>3, <2>4
<1>5. r = [k \in 1 .. n |-> r[k]]
  BY <1>0, <1>1
<1>6. r \in [1 .. n -> Limb]
  BY <1>4, <1>5
<1>7. r \in Seq(Limb) /\ Len(r) = n
  BY <1>6
<1> QED BY <1>1, <1>3, <1>7

\* Such a row, placed where there is room for its last limb; z is what was there.
RowFits(r, w, s, c, i, m, z) ==
    /\ w \in Seq(Limb) /\ s \in Seq(Limb) /\ c \in Limb /\ i \in Nat /\ m \in Nat /\ Len(s) = m
    /\ r \in Seq(Limb) /\ Len(r) = Len(w) /\ RowStored(r, w, s, c, i, m)
    /\ i + m < Len(w)
    /\ z \in [Nat -> Int] /\ \A k \in Nat : z[k] = At(w, i + k)

(* What such a row adds to the value.                                      *)
LEMMA RowValue ==
    ASSUME NEW w, NEW s, NEW c, NEW i, NEW m, NEW r, NEW z, RowFits(r, w, s, c, i, m, z)
    PROVE  WordsValue(r) = WordsValue(w)
                             + Weight(i) * ((WordsValue(s) + c * Weight(m)) - Value(z, m + 1))
<1>0. /\ w \in Seq(Limb) /\ s \in Seq(Limb) /\ c \in Limb /\ i \in Nat /\ m \in Nat /\ Len(s) = m
      /\ r \in Seq(Limb) /\ Len(r) = Len(w) /\ RowStored(r, w, s, c, i, m)
      /\ i + m < Len(w)
  BY DEF RowFits
<1>z. z \in [Nat -> Int] /\ \A k \in Nat : z[k] = At(w, i + k)
  BY DEF RowFits
<1>1. /\ w \in Seq(Int) /\ r \in Seq(Int) /\ s \in Seq(Int) /\ c \in Int
      /\ Limb \subseteq Int
  BY <1>0, LimbsAreIntegers, BaseRule DEF Limb
<1>2. PICK N \in Nat : N = Len(w)
  BY <1>0
<1>3. PICK n \in Nat : N = i + (m + 1) + n
  <2>1. N - (i + (m + 1)) \in Nat /\ N = i + (m + 1) + (N - (i + (m + 1)))
    BY <1>0, <1>2
  <2> QED BY <1>0, <2>1
<1>4. PICK f \in [Nat -> Int] : WordsValue(r) = Value(f, N) /\ \A k \in 0 .. N - 1 : f[k] = r[k + 1]
  <2>1. Places(r) \in [Nat -> Int] /\ WordsValue(r) = Value(Places(r), N)
        /\ \A k \in 0 .. N - 1 : Places(r)[k] = r[k + 1]
    BY <1>0, <1>1, <1>2, PlacesOfWords
  <2> QED BY <1>0, <2>1
<1>5. PICK g \in [Nat -> Int] : /\ WordsValue(w) = Value(g, N)
                                /\ \A k \in 0 .. N - 1 : g[k] = w[k + 1]
                                /\ \A k \in Nat : g[k] = At(w, k)
  <2>1. /\ Places(w) \in [Nat -> Int] /\ WordsValue(w) = Value(Places(w), N)
        /\ \A k \in 0 .. N - 1 : Places(w)[k] = w[k + 1]
        /\ \A k \in Nat : Places(w)[k] = At(w, k)
    BY <1>0, <1>1, <1>2, PlacesOfWords
  <2> QED BY <1>0, <2>1
<1>6. PICK y \in [Nat -> Int] : \A k \in Nat : y[k] = f[i + k]
  <2>1. [k \in Nat |-> f[i + k]] \in [Nat -> Int]
    BY <1>0
  <2> QED BY <1>0, <2>1
<1>7. \A k \in Nat : z[k] = g[i + k]
  <2> TAKE k \in Nat
  <2>1. i + k \in Nat
    BY <1>0
  <2> QED BY <1>0, <1>z, <1>5, <2>1
<1>8. Above(y, f, i, m + 1) /\ Above(z, g, i, m + 1) /\ m + 1 \in Nat
  <2>1. \A k \in 0 .. (m + 1) - 1 : k \in Nat
    BY <1>0
  <2>2. \A k \in 0 .. (m + 1) - 1 : y[k] = f[i + k]
    BY <1>0, <1>6, <2>1
  <2>3. \A k \in 0 .. (m + 1) - 1 : z[k] = g[i + k]
    BY <1>0, <1>7, <2>1
  <2>4. m + 1 \in Nat
    BY <1>0
  <2> QED BY <1>0, <2>2, <2>3, <2>4 DEF Above
<1>s. /\ \A k \in 1 .. N : k <= i \/ k > i + m + 1 => r[k] = w[k]
      /\ \A k \in 1 .. N : k = i + m + 1 => r[k] = c
      /\ \A k \in 1 .. N : k > i /\ k <= i + m => r[k] = s[k - i]
  BY <1>0, <1>2 DEF RowStored
<1>9. \A k \in 0 .. i - 1 : f[k] = g[k]
  <2> TAKE k \in 0 .. i - 1
  <2>1. k \in 0 .. N - 1 /\ k + 1 \in 1 .. N /\ k + 1 <= i
    BY <1>0, <1>3
  <2> QED BY <1>0, <1>s, <1>4, <1>5, <2>1
<1>10. \A k \in 0 .. n - 1 : f[i + (m + 1) + k] = g[i + (m + 1) + k]
  <2> TAKE k \in 0 .. n - 1
  <2>1. PICK j \in Nat : j = i + (m + 1) + k
    BY <1>0
  <2>2. j \in 0 .. N - 1 /\ j + 1 \in 1 .. N /\ j + 1 > i + m + 1
    BY <1>0, <1>3, <2>1
  <2>3. f[j] = g[j]
    BY <1>0, <1>s, <1>4, <1>5, <2>2
  <2> QED BY <1>0, <2>1, <2>3
<1>11. Value(f, i + (m + 1) + n) = Value(g, i + (m + 1) + n)
                                     + Weight(i) * (Value(y, m + 1) - Value(z, m + 1))
  <2>1. PICK M \in Nat : M = m + 1
    BY <1>0, <1>8
  <2>2. /\ Above(y, f, i, M) /\ Above(z, g, i, M)
        /\ Around(f, g, i, M, n)
    BY <1>0, <1>8, <1>9, <1>10, <2>1 DEF Around
  <2>3. Value(f, i + M + n) = Value(g, i + M + n) + Weight(i) * (Value(y, M) - Value(z, M))
    <3>1. PICK l \in Nat : l = i + M + n
      BY <1>0
    <3>2. Value(f, l) = Value(g, l) + Weight(i) * (Value(y, M) - Value(z, M))
      <4>1. Windowed(f, g, y, z, i, M, n, l)
        BY <1>0, <1>z, <2>2, <3>1 DEF Windowed
      <4> QED BY <1>0, <4>1, WindowReplaced
    <3> QED BY <1>0, <3>1, <3>2
  <2> QED BY <1>0, <2>1, <2>3
<1>12. Value(y, m + 1) = Value(y, m) + y[m] * Weight(m)
  BY <1>0, ValueRule
<1>13. y[m] = c
  <2>1. i + m \in 0 .. N - 1 /\ (i + m) + 1 = i + m + 1 /\ i + m + 1 \in 1 .. N
    BY <1>0, <1>2
  <2>2. y[m] = f[i + m]
    BY <1>0, <1>6
  <2>3. f[i + m] = r[i + m + 1]
    BY <1>0, <1>4, <2>1
  <2> QED BY <1>0, <1>s, <2>1, <2>2, <2>3
<1>14. Value(y, m) = WordsValue(s)
  <2>1. \A k \in 0 .. m - 1 : s[k + 1] = y[k]
    <3> TAKE k \in 0 .. m - 1
    <3>1. PICK j \in Nat : j = i + k
      BY <1>0
    <3>2. /\ j \in 0 .. N - 1 /\ j + 1 \in 1 .. N /\ j + 1 > i /\ j + 1 <= i + m
          /\ (j + 1) - i = k + 1 /\ k \in Nat
      BY <1>0, <1>2, <3>1
    <3>3. y[k] = f[j] /\ f[j] = r[j + 1]
      BY <1>0, <1>4, <1>6, <3>1, <3>2
    <3>4. r[j + 1] = s[(j + 1) - i]
      BY <1>0, <1>s, <3>2
    <3>5. s[(j + 1) - i] = s[k + 1]
      BY <1>0, <3>2
    <3> QED BY <1>0, <3>3, <3>4, <3>5
  <2> QED BY <1>0, <1>1, <2>1, ValueOfPlaces
<1>15. Value(y, m + 1) = WordsValue(s) + c * Weight(m)
  BY <1>12, <1>13, <1>14
<1> QED BY <1>0, <1>3, <1>4, <1>5, <1>11, <1>15

\* The limbs of a row, and its value: x times a added at place i.
RowAdded(r, w, a, x, i) ==
    /\ r \in Seq(Limb) /\ Len(r) = Len(w)
    /\ \A k \in 1 .. Len(w) : k > i + Len(a) + 1 => r[k] = w[k]
    /\ i + Len(a) < Len(w) /\ w[i + Len(a) + 1] = 0
         => WordsValue(r) = WordsValue(w) + Weight(i) * (x * WordsValue(a))

(* One row of a product: no carry is lost, and the last one has its place. *)
LEMMA RowOfProduct ==
    ASSUME NEW w \in Seq(Limb), NEW a \in Seq(Limb), NEW x \in Limb, NEW i \in Nat
    PROVE  RowAdded(ProductRow(w, a, x, i), w, a, x, i)
<1>1. PICK m \in Nat : m = Len(a)
  OBVIOUS
<1>2. /\ \A k \in Nat : At(a, k) \in Limb
      /\ \A k \in Nat : At(w, k) \in Limb
      /\ Limb \subseteq Int /\ 0 \in Limb
  <2>1. Limb \subseteq Int /\ 0 \in Limb
    BY BaseRule DEF Limb
  <2> QED BY <2>1, LimbsAreIntegers
<1>3. \A j \in Nat : i + j \in Nat /\ At(w, i + j) \in Limb
  BY <1>2
<1>4. PICK z \in [Nat -> Int] : \A k \in Nat : z[k] = At(w, i + k)
  <2>1. [k \in Nat |-> At(w, i + k)] \in [Nat -> Int]
    BY <1>2, <1>3
  <2> QED BY <2>1
<1> DEFINE p == [j \in Nat |-> At(a, j) * x + At(w, i + j)]
           row == Ripple(p, m)
<1>5. \A j \in Nat : At(a, j) * x + At(w, i + j) \in Int
  <2> TAKE j \in Nat
  <2>1. At(a, j) \in Int /\ At(w, i + j) \in Int /\ x \in Int
    BY <1>2, <1>3
  <2> QED BY <2>1
<1>6. p \in [Nat -> Int] /\ \A j \in Nat : p[j] = At(a, j) * x + At(w, i + j)
  BY <1>5
<1>7. \A k \in Nat : \A c \in Limb : High(p[k] + c) \in Limb
  <2> TAKE k \in Nat
  <2> TAKE c \in Limb
  <2>1. High(At(a, k) * x + At(w, i + k) + c) \in Limb
    BY <1>2, <1>3, CarryIsLimb
  <2> QED BY <1>6, <2>1
<1>8. ProductRow(w, a, x, i) = Placed(w, i, row.w, row.carry)
  BY <1>1 DEF ProductRow
<1> HIDE DEF p
<1>9. /\ row.w \in Seq(Limb) /\ Len(row.w) = m /\ row.carry \in Limb
      /\ Value(p, m) = WordsValue(row.w) + row.carry * Weight(m)
  BY <1>2, <1>6, <1>7, RippleExact
<1>10. PICK s \in Seq(Limb), c \in Limb : s = row.w /\ c = row.carry
  BY <1>9
<1> HIDE DEF row
<1>11. PICK r : r = ProductRow(w, a, x, i)
  OBVIOUS
<1>12. r \in Seq(Limb) /\ Len(r) = Len(w) /\ RowStored(r, w, s, c, i, m)
  <2>1. r = Placed(w, i, s, c)
    BY <1>8, <1>10, <1>11
  <2>2. Len(s) = m
    BY <1>9, <1>10
  <2>3. RowGiven(r, w, s, c, i, m)
    BY <2>1, <2>2 DEF RowGiven
  <2> QED BY <2>3, RowLimbs
<1>13. Value(p, m) = Value(z, m) + x * WordsValue(a)
  <2>1. PICK h \in [Nat -> Int] : WordsValue(a) = Value(h, m) /\ \A k \in Nat : h[k] = At(a, k)
    <3>1. a \in Seq(Int)
      BY LimbsAreIntegers
    <3>2. /\ Places(a) \in [Nat -> Int] /\ WordsValue(a) = Value(Places(a), m)
          /\ \A k \in Nat : Places(a)[k] = At(a, k)
      BY <1>1, <3>1, PlacesOfWords
    <3> QED BY <3>2
  <2>2. ASSUME NEW k \in Nat PROVE p[k] = z[k] + x * h[k]
    <3>1. p[k] = At(a, k) * x + At(w, i + k) /\ h[k] = At(a, k) /\ z[k] = At(w, i + k)
      BY <1>4, <1>6, <2>1
    <3>2. At(a, k) \in Int /\ At(w, i + k) \in Int /\ x \in Int
      BY <1>2, <1>3
    <3> QED BY <3>1, <3>2
  <2>3. Combined(p, z, h, x, m)
    BY <2>2 DEF Combined
  <2>4. x \in Int
    BY <1>2
  <2>5. Value(p, m) = Value(z, m) + x * Value(h, m)
    BY ZenonT(40), <1>6, <2>3, <2>4, ValueLinear
  <2> QED BY <2>1, <2>5
<1>14. ASSUME i + m < Len(w), w[i + m + 1] = 0
       PROVE  WordsValue(r) = WordsValue(w) + Weight(i) * (x * WordsValue(a))
  <2>1. WordsValue(r) = WordsValue(w)
                          + Weight(i) * ((WordsValue(s) + c * Weight(m)) - Value(z, m))
    <3>1. Len(s) = m
      BY <1>9, <1>10
    <3>2. RowFits(r, w, s, c, i, m, z)
      BY <1>4, <1>12, <1>14, <3>1 DEF RowFits
    <3>3. Value(z, m + 1) = Value(z, m) + z[m] * Weight(m) /\ Value(z, m) \in Int /\ Weight(m) \in Nat
      BY ValueRule, WeightRule
    <3>4. z[m] = 0
      <4>1. PICK l \in Nat : l = Len(w)
        BY <1>2
      <4>2. i + m \in Nat /\ i + m < l /\ (i + m) + 1 = i + m + 1
        BY <1>14, <4>1
      <4> QED BY <1>4, <1>14, <4>1, <4>2 DEF At
    <3>5. \A x1 \in Nat, v1 \in Int : v1 + 0 * x1 = v1
      OBVIOUS
    <3>6. Value(z, m + 1) = Value(z, m)
      BY <3>3, <3>4, <3>5
    <3>7. WordsValue(r) = WordsValue(w)
                            + Weight(i) * ((WordsValue(s) + c * Weight(m)) - Value(z, m + 1))
      BY <3>2, RowValue
    <3> QED BY <3>6, <3>7
  <2>2. WordsValue(s) + c * Weight(m) = Value(z, m) + x * WordsValue(a)
    BY <1>9, <1>10, <1>13
  <2>3. Value(z, m) \in Int /\ x * WordsValue(a) \in Int
    <3>1. WordsValue(a) \in Int /\ x \in Int
      BY <1>2, WordsBound
    <3>2. x * WordsValue(a) \in Int
      BY <3>1
    <3>3. Value(z, m) \in Int
      BY ValueRule
    <3> QED BY <3>2, <3>3
  <2>4. (WordsValue(s) + c * Weight(m)) - Value(z, m) = x * WordsValue(a)
    BY <2>2, <2>3
  <2> QED BY <2>1, <2>4
<1>15. \A k \in 1 .. Len(w) : k > i + m + 1 => r[k] = w[k]
  BY <1>12 DEF RowStored
<1> QED BY <1>1, <1>11, <1>12, <1>14, <1>15 DEF RowAdded

\* The rows of a product from the first limb of a on.
Rows(rows, a, b) ==
    /\ rows[0] = Zeros(Len(a) + Len(b))
    /\ \A i \in Nat : rows[i] \in Seq(Limb) /\ rows[i + 1] = ProductRow(rows[i], b, At(a, i), i)

\* MulWords adds up its rows one by one.
LEMMA RowsRule ==
    ASSUME NEW a \in Seq(Limb), NEW b \in Seq(Limb)
    PROVE  \E rows : Rows(rows, a, b) /\ MulWords(a, b) = rows[Len(a)]
<1> DEFINE S == Seq(Limb)
           z == Zeros(Len(a) + Len(b))
           Rule(w) == w = [i \in Nat |-> IF i = 0 THEN z ELSE ProductRow(w[i - 1], b, At(a, i - 1), i - 1)]
           rows == CHOOSE w : Rule(w)
           g == [q \in Nat \X S |-> IF q[1] = 0 THEN z ELSE ProductRow(q[2], b, At(a, q[1] - 1), q[1] - 1)]
<1>1. MulWords(a, b) = rows[Len(a)]
  BY DEF MulWords
<1>2. z \in S
  BY ZerosRule
<1>3. \A k \in Nat, s \in S : k # 0 => k - 1 \in Nat /\ g[<<k, s>>] = ProductRow(s, b, At(a, k - 1), k - 1)
  OBVIOUS
<1>4. \A i \in Nat, s \in S : ProductRow(s, b, At(a, i), i) \in S
  <2> TAKE i \in Nat, s \in S
  <2>1. At(a, i) \in Limb
    BY LimbsAreIntegers
  <2>2. RowAdded(ProductRow(s, b, At(a, i), i), s, b, At(a, i), i)
    BY <2>1, RowOfProduct
  <2> QED BY <2>2 DEF RowAdded
<1> HIDE DEF z
<1>5. g \in [Nat \X S -> S]
  <2>1. ASSUME NEW q \in Nat \X S PROVE g[q] \in S
    <3>1. CASE q[1] = 0
      BY <1>2, <3>1
    <3>2. CASE q[1] # 0
      <4>1. PICK i \in Nat, s \in S : i = q[1] - 1 /\ s = q[2]
        BY <3>2
      <4>2. g[q] = ProductRow(s, b, At(a, i), i)
        BY <3>2, <4>1
      <4> QED BY <1>4, <4>2
    <3> QED BY <3>1, <3>2
  <2> QED BY <2>1
<1> HIDE DEF g, S
<1>6. PICK f : f \in [Nat -> S] /\ f = [k \in Nat |-> IF k = 0 THEN z ELSE g[<<k, f[k - 1]>>]]
  <2>1. PICK f : StepsFrom(f, S, z, g)
    BY <1>2, <1>5, Recursion
  <2> QED BY <2>1 DEF StepsFrom
<1>7. Rule(f)
  <2>1. \A k \in Nat : f[k] = IF k = 0 THEN z ELSE ProductRow(f[k - 1], b, At(a, k - 1), k - 1)
    <3>1. \A k \in Nat : k # 0 => f[k - 1] \in S
      BY <1>6
    <3> QED BY <1>3, <1>6, <3>1
  <2>2. f = [k \in Nat |-> f[k]]
    BY <1>6
  <2> QED BY <2>1, <2>2
<1>8. Rule(rows)
  <2> HIDE DEF Rule
  <2> QED BY <1>7
<1> HIDE DEF rows
<1>9. rows[0] = z /\ \A k \in Nat : rows[k + 1] = ProductRow(rows[k], b, At(a, k), k)
  <2>1. \A k \in Nat : rows[k] = IF k = 0 THEN z ELSE ProductRow(rows[k - 1], b, At(a, k - 1), k - 1)
    BY <1>8
  <2>2. \A k \in Nat : k + 1 \in Nat /\ k + 1 # 0 /\ (k + 1) - 1 = k
    OBVIOUS
  <2> QED BY <2>1, <2>2
<1> HIDE DEF Rule
<1>10. \A k \in Nat : rows[k] \in S
  <2>1. rows[0] \in S
    BY <1>2, <1>9
  <2>2. \A k \in Nat : rows[k] \in S => rows[k + 1] \in S
    BY <1>4, <1>9
  <2> QED BY <2>1, <2>2, StaysWithin
<1> QED BY <1>1, <1>9, <1>10 DEF Rows, S, z

(* A product of two arrays is exact.                                       *)
LEMMA ProductOfWords ==
    ASSUME NEW a \in Seq(Limb), NEW b \in Seq(Limb)
    PROVE  /\ MulWords(a, b) \in Seq(Limb) /\ Len(MulWords(a, b)) = Len(a) + Len(b)
           /\ WordsValue(MulWords(a, b)) = WordsValue(a) * WordsValue(b)
<1>1. PICK rows : Rows(rows, a, b) /\ MulWords(a, b) = rows[Len(a)]
  BY RowsRule
<1>2. PICK m \in Nat : m = Len(a)
  OBVIOUS
<1>3. PICK n \in Nat : n = Len(b)
  OBVIOUS
<1>4. PICK p \in [Nat -> Int] : WordsValue(a) = Value(p, m) /\ \A k \in Nat : p[k] = At(a, k)
  <2>1. a \in Seq(Int)
    BY LimbsAreIntegers
  <2>2. /\ Places(a) \in [Nat -> Int] /\ WordsValue(a) = Value(Places(a), m)
        /\ \A k \in Nat : Places(a)[k] = At(a, k)
    BY <1>2, <2>1, PlacesOfWords
  <2> QED BY <2>2
<1>5. PICK v \in Int : v = WordsValue(b)
  BY WordsBound
<1> DEFINE Added(i) == /\ Len(rows[i]) = m + n
                       /\ \A k \in 1 .. m + n : k > i + n => rows[i][k] = 0
                       /\ WordsValue(rows[i]) = Value(p, i) * v
           T == {i \in Nat : i <= m => Added(i)}
<1>6. rows[0] = Zeros(m + n) /\ \A i \in Nat : rows[i] \in Seq(Limb) /\ rows[i + 1] = ProductRow(rows[i], b, At(a, i), i)
  BY <1>1, <1>2, <1>3 DEF Rows
<1>7. 0 \in T
  <2>1. m + n \in Nat
    OBVIOUS
  <2>2. Len(rows[0]) = m + n /\ (\A k \in 1 .. m + n : rows[0][k] = 0) /\ WordsValue(rows[0]) = 0
    BY <1>6, <2>1, ZerosRule
  <2>3. Value(p, 0) = 0 /\ 0 * v = 0
    BY ValueRule
  <2> QED BY <2>2, <2>3
<1>8. ASSUME NEW i \in Nat, i \in T PROVE i + 1 \in T
  <2> SUFFICES ASSUME i + 1 <= m PROVE Added(i + 1)
    OBVIOUS
  <2>1. Added(i)
    <3>1. i <= m => Added(i)
      <4> HIDE DEF Added
      <4> QED BY <1>8
    <3> QED BY <3>1
  <2>2. PICK w \in Seq(Limb) : w = rows[i]
    BY <1>6
  <2>3. PICK r : r = rows[i + 1]
    OBVIOUS
  <2>4. PICK x \in Limb : x = At(a, i) /\ p[i] = x
    BY <1>4, LimbsAreIntegers
  <2>5. RowAdded(r, w, b, x, i)
    BY <1>6, <2>2, <2>3, <2>4, RowOfProduct
  <2>6. Len(w) = m + n /\ (\A k \in 1 .. m + n : k > i + n => w[k] = 0) /\ WordsValue(w) = Value(p, i) * v
    BY <2>1, <2>2
  <2>7. i + n < m + n /\ i + n + 1 \in 1 .. m + n /\ i + n + 1 > i + n
    OBVIOUS
  <2>8. w[i + n + 1] = 0
    BY <2>6, <2>7
  <2>9. /\ Len(r) = m + n
        /\ \A k \in 1 .. m + n : k > i + n + 1 => r[k] = w[k]
        /\ WordsValue(r) = WordsValue(w) + Weight(i) * (x * v)
    BY <1>3, <1>5, <2>5, <2>6, <2>7, <2>8 DEF RowAdded
  <2>10. \A k \in 1 .. m + n : k > (i + 1) + n => r[k] = 0
    <3> TAKE k \in 1 .. m + n
    <3> HAVE k > (i + 1) + n
    <3>1. k > i + n + 1 /\ k > i + n
      OBVIOUS
    <3> QED BY <2>6, <2>9, <3>1
  <2>11. Value(p, i + 1) = Value(p, i) + x * Weight(i) /\ Value(p, i) \in Int /\ Weight(i) \in Int
    <3>1. Value(p, i + 1) = Value(p, i) + p[i] * Weight(i) /\ Value(p, i) \in Int
      BY ValueRule
    <3>2. Weight(i) \in Int
      BY WeightRule
    <3> QED BY <2>4, <3>1, <3>2
  <2>12. x \in Int
    BY BaseRule DEF Limb
  <2>13. \A y, u \in Int : y * v + u * (x * v) = (y + x * u) * v
    BY <2>12
  <2>14. WordsValue(r) = Value(p, i + 1) * v
    BY <2>6, <2>9, <2>11, <2>13
  <2> QED BY <2>3, <2>9, <2>10, <2>14
<1>9. m \in T
  <2> HIDE DEF T
  <2> QED BY <1>7, <1>8, SetInduction
<1>10. Added(m)
  <2>1. m <= m => Added(m)
    <3> HIDE DEF Added
    <3> QED BY <1>9
  <2> QED BY <2>1
<1>11. Len(rows[m]) = m + n /\ WordsValue(rows[m]) = Value(p, m) * v
  BY <1>10
<1>12. rows[m] \in Seq(Limb)
  BY <1>6
<1> QED BY <1>1, <1>2, <1>3, <1>4, <1>5, <1>11, <1>12

-----------------------------------------------------------------------------
(* The half-sum product of Karatsuba.                                      *)

(* The low n limbs of an array are all of a number that fits them.         *)
LEMMA LowPlaces ==
    ASSUME NEW w \in Seq(Limb), NEW n \in Nat, WordsValue(w) < Weight(n)
    PROVE  Value(Places(w), n) = WordsValue(w)
<1>1. w \in Seq(Int) /\ Len(w) \in Nat
  BY LimbsAreIntegers
<1>2. CASE n >= Len(w)
  BY <1>1, <1>2, ValueBeyond
<1>3. CASE n < Len(w)
  <2>1. n \in 0 .. Len(w)
    BY <1>1, <1>3
  <2>2. PICK lo \in Seq(Limb), hi \in Seq(Limb) :
          /\ lo = SubSeq(w, 1, n) /\ Len(lo) = n
          /\ WordsValue(w) = WordsValue(lo) + Weight(n) * WordsValue(hi)
    BY <2>1, CutWords
  <2>3. /\ WordsValue(lo) \in Nat /\ WordsValue(hi) \in Nat /\ Weight(n) \in Nat \ {0}
    BY WordsBound, WeightRule
  <2>4. \A x, y \in Nat, u \in Nat \ {0} : x + u * y < u => y = 0
    <3> TAKE x, y \in Nat, u \in Nat \ {0}
    <3> HAVE x + u * y < u
    <3>1. y >= 1 => u * y >= u
      OBVIOUS
    <3>2. u * y \in Nat
      OBVIOUS
    <3> QED BY <3>1, <3>2
  <2>5. WordsValue(hi) = 0
    BY <2>2, <2>3, <2>4
  <2>6. Weight(n) * 0 = 0
    BY <2>3
  <2>7. WordsValue(w) = WordsValue(lo)
    BY <2>2, <2>3, <2>5, <2>6
  <2>8. \A k \in 0 .. Len(lo) - 1 : lo[k + 1] = Places(w)[k]
    <3> TAKE k \in 0 .. Len(lo) - 1
    <3>1. k \in 0 .. Len(w) - 1 /\ k + 1 \in 1 .. n
      BY <1>1, <1>3, <2>2
    <3>2. lo[k + 1] = w[k + 1]
      BY <2>1, <2>2, <3>1
    <3> QED BY <1>1, <3>1, <3>2, PlacesOfWords
  <2>9. lo \in Seq(Int) /\ Places(w) \in [Nat -> Int]
    BY <1>1, LimbsAreIntegers, PlacesOfWords
  <2>10. WordsValue(lo) = Value(Places(w), n)
    BY <2>2, <2>8, <2>9, ValueOfPlaces
  <2> QED BY <2>7, <2>10
<1> QED BY <1>1, <1>2, <1>3

(* A value added from place offset up, where the sum fits the array.       *)
LEMMA ShiftedSum ==
    ASSUME NEW w \in Seq(Limb), NEW x \in Seq(Limb), NEW off \in Nat,
           WordsValue(w) + Weight(off) * WordsValue(x) < Weight(Len(w))
    PROVE  /\ AddShifted(w, x, off) \in Seq(Limb) /\ Len(AddShifted(w, x, off)) = Len(w)
           /\ WordsValue(AddShifted(w, x, off)) = WordsValue(w) + Weight(off) * WordsValue(x)
<1>1. PICK n \in Nat : n = Len(w)
  OBVIOUS
<1>2. PICK y \in Seq(Limb) : y = Zeros(off) \o x /\ WordsValue(y) = Weight(off) * WordsValue(x)
  <2>1. Zeros(off) \in Seq(Limb) /\ Len(Zeros(off)) = off /\ WordsValue(Zeros(off)) = 0
    BY ZerosRule
  <2>2. /\ Zeros(off) \o x \in Seq(Limb)
        /\ WordsValue(Zeros(off) \o x) = WordsValue(Zeros(off)) + Weight(Len(Zeros(off))) * WordsValue(x)
    BY <2>1, JoinedWords
  <2>3. Weight(off) * WordsValue(x) \in Int
    <3>1. Weight(off) \in Int /\ WordsValue(x) \in Int
      BY WeightRule, WordsBound
    <3> QED BY <3>1
  <2>4. WordsValue(Zeros(off) \o x) = 0 + Weight(off) * WordsValue(x)
    BY <2>1, <2>2
  <2>5. WordsValue(Zeros(off) \o x) = Weight(off) * WordsValue(x)
    BY <2>3, <2>4
  <2> QED BY <2>2, <2>5
<1>3. /\ WordsValue(w) \in Nat /\ WordsValue(y) \in Nat /\ Weight(n) \in Nat
      /\ WordsValue(w) + WordsValue(y) < Weight(n)
  BY <1>1, <1>2, WordsBound, WeightRule
<1>4. Value(Places(w), n) = WordsValue(w) /\ Value(Places(y), n) = WordsValue(y)
  <2>1. WordsValue(w) < Weight(n) /\ WordsValue(y) < Weight(n)
    BY <1>3
  <2> QED BY <2>1, LowPlaces
<1>5. PICK s, c : /\ s = AddWords(w, y, n).w /\ c = AddWords(w, y, n).carry
                  /\ s \in Seq(Limb) /\ Len(s) = n /\ c \in {0, 1}
                  /\ WordsValue(w) + WordsValue(y) = WordsValue(s) + c * Weight(n)
  BY <1>4, SumInPlaces
<1>6. WordsValue(s) \in Nat
  BY <1>5, WordsBound
<1>7. c = 0
  <2>1. c = 1 => c * Weight(n) = Weight(n)
    BY <1>3
  <2> QED BY <1>3, <1>5, <1>6, <2>1
<1>8. WordsValue(s) = WordsValue(w) + WordsValue(y)
  <2>1. c * Weight(n) = 0
    BY <1>3, <1>7
  <2> QED BY <1>5, <1>6, <2>1
<1>9. AddShifted(w, x, off) = s
  BY <1>1, <1>2, <1>5 DEF AddShifted
<1> QED BY <1>1, <1>2, <1>5, <1>8, <1>9

(* The largest of some numbers up to n.                                    *)
LEMMA LargestOf ==
    ASSUME NEW n \in Nat, NEW E, E \subseteq 0 .. n, E # {}
    PROVE  /\ Max(E) \in E /\ \A j \in E : j <= Max(E)
<1> DEFINE T == {x \in Nat : n - x \in E}
<1>1. T # {}
  <2>1. PICK j \in E : TRUE
    OBVIOUS
  <2>2. n - j \in Nat /\ n - (n - j) = j
    OBVIOUS
  <2> QED BY <2>2
<1>2. PICK x \in T : \A y \in T : x <= y
  <2>1. T \subseteq Nat
    OBVIOUS
  <2> HIDE DEF T
  <2> QED BY <1>1, <2>1, Smallest
<1>3. ASSUME NEW j \in E PROVE j <= n - x
  <2>1. j \in 0 .. n /\ n - j \in Nat /\ n - (n - j) = j
    OBVIOUS
  <2>2. x <= n - j
    BY <1>2, <2>1
  <2> QED BY <2>1, <2>2
<1>4. n - x \in E
  OBVIOUS
<1>5. \A j \in E : n - x >= j
  <2>1. \A j \in E : j \in Int
    OBVIOUS
  <2> QED BY <1>3, <1>4, <2>1
<1>6. Max(E) = CHOOSE y \in E : \A j \in E : y >= j
  BY DEF Max
<1>7. Max(E) \in E /\ \A j \in E : Max(E) >= j
  BY <1>4, <1>5, <1>6
<1> QED BY <1>7

(* Without the zero limbs on top the value is the same, and the top one is *)
(* none of them.                                                           *)
LEMMA SignificantRule ==
    ASSUME NEW w \in Seq(Limb)
    PROVE  /\ Significant(w) \in 0 .. Len(w)
           /\ Significant(w) > 0 => w[Significant(w)] # 0
           /\ \A i \in 1 .. Len(w) : i > Significant(w) => w[i] = 0
           /\ SubSeq(w, 1, Significant(w)) \in Seq(Limb)
           /\ Len(SubSeq(w, 1, Significant(w))) = Significant(w)
           /\ WordsValue(SubSeq(w, 1, Significant(w))) = WordsValue(w)
<1>1. PICK n \in Nat : n = Len(w) /\ DOMAIN w = 1 .. n
  OBVIOUS
<1> DEFINE D == {i \in DOMAIN w : w[i] # 0}
           E == {0} \cup D
<1>2. E \subseteq 0 .. n /\ E # {}
  BY <1>1
<1>3. Significant(w) = Max(E)
  BY DEF Significant
<1> HIDE DEF E
<1>4. PICK k \in E : k = Max(E) /\ \A j \in E : j <= k
  BY <1>2, LargestOf
<1>5. k \in 0 .. n /\ (k > 0 => w[k] # 0)
  <2>1. k \in 0 .. n
    BY <1>2
  <2>2. k > 0 => w[k] # 0
    BY <2>1 DEF E
  <2> QED BY <2>1, <2>2
<1>6. \A i \in 1 .. n : i > k => w[i] = 0
  <2> TAKE i \in 1 .. n
  <2> HAVE i > k
  <2>1. ~(i <= k)
    BY <1>5
  <2>2. i \notin E
    BY <1>4, <2>1
  <2> QED BY <1>1, <2>2 DEF E
<1>7. PICK lo \in Seq(Limb) : lo = SubSeq(w, 1, k) /\ Len(lo) = k
  BY <1>1, <1>5, CutWords
<1>8. WordsValue(lo) = WordsValue(w)
  <2>1. w \in Seq(Int) /\ lo \in Seq(Int)
    BY LimbsAreIntegers
  <2>2. PICK f \in [Nat -> Int] : Value(f, k) = WordsValue(lo) /\ Value(f, n) = WordsValue(lo)
                                  /\ (\A j \in Nat : f[j] = At(lo, j))
    <3>1. /\ Places(lo) \in [Nat -> Int] /\ WordsValue(lo) = Value(Places(lo), k)
          /\ \A j \in Nat : Places(lo)[j] = At(lo, j)
      BY <1>7, <2>1, PlacesOfWords
    <3>2. Value(Places(lo), n) = WordsValue(lo)
      <4>1. n >= Len(lo)
        BY <1>5, <1>7
      <4> QED BY <2>1, <4>1, ValueBeyond
    <3> QED BY <3>1, <3>2
  <2>3. ASSUME NEW j \in 0 .. Len(w) - 1 PROVE w[j + 1] = f[j]
    <3>1. f[j] = IF j < k THEN lo[j + 1] ELSE 0
      BY SMTT(20), <1>7, <2>2 DEF At
    <3>2. CASE j < k
      <4>1. j + 1 \in 1 .. k
        BY <1>5, <3>2
      <4>2. lo[j + 1] = w[j + 1]
        BY <1>1, <1>5, <1>7, <4>1
      <4> QED BY <3>1, <3>2, <4>2
    <3>3. CASE ~(j < k)
      <4>1. j + 1 \in 1 .. n /\ j + 1 > k
        BY <1>1, <1>5, <3>3
      <4> QED BY <1>6, <3>1, <3>3, <4>1
    <3> QED BY <3>2, <3>3
  <2>4. WordsValue(w) = Value(f, Len(w))
    BY <2>1, <2>3, ValueOfPlaces
  <2> QED BY <1>1, <2>2, <2>4
<1> QED BY <1>1, <1>3, <1>4, <1>5, <1>6, <1>7, <1>8

(* An array of one limb, and of none.                                      *)
LEMMA OneLimb ==
    /\ <<>> \in Seq(Limb) /\ WordsValue(<<>>) = 0
    /\ \A x \in Limb : <<x>> \in Seq(Limb) /\ Len(<<x>>) = 1 /\ WordsValue(<<x>>) = x
<1>0. \A x \in Limb : x \in Int
  BY BaseRule DEF Limb
<1>1. ASSUME NEW w \in Seq(Int)
      PROVE  /\ Places(w) \in [Nat -> Int] /\ WordsValue(w) = Value(Places(w), Len(w))
             /\ \A k \in 0 .. Len(w) - 1 : Places(w)[k] = w[k + 1]
  BY PlacesOfWords
<1>2. <<>> \in Seq(Limb) /\ <<>> \in Seq(Int) /\ Len(<<>>) = 0
  OBVIOUS
<1>3. WordsValue(<<>>) = 0
  BY <1>1, <1>2, ValueRule
<1>4. ASSUME NEW x \in Limb PROVE <<x>> \in Seq(Limb) /\ Len(<<x>>) = 1 /\ WordsValue(<<x>>) = x
  <2>1. <<x>> \in Seq(Limb) /\ <<x>> \in Seq(Int) /\ Len(<<x>>) = 1 /\ x \in Int
    BY <1>0
  <2>2. PICK p \in [Nat -> Int] : WordsValue(<<x>>) = Value(p, 1) /\ p[0] = x
    <3>1. 0 \in 0 .. Len(<<x>>) - 1 /\ <<x>>[0 + 1] = x
      BY <2>1
    <3> QED BY <1>1, <2>1, <3>1
  <2>3. Value(p, 0) = 0 /\ Value(p, 0 + 1) = Value(p, 0) + p[0] * Weight(0) /\ Weight(0) = 1
    BY ValueRule, WeightRule
  <2>4. Value(p, 1) = x
    <3>1. Value(p, 1) = 0 + x * 1
      BY <2>2, <2>3
    <3> QED BY <2>1, <3>1
  <2> QED BY <2>1, <2>2, <2>4
<1> QED BY <1>2, <1>3, <1>4

(* One limb more on top.                                                   *)
LEMMA AppendedLimb ==
    ASSUME NEW w \in Seq(Limb), NEW x \in Limb
    PROVE  /\ Append(w, x) \in Seq(Limb) /\ Len(Append(w, x)) = Len(w) + 1
           /\ WordsValue(Append(w, x)) = WordsValue(w) + x * Weight(Len(w))
<1>1. Append(w, x) \in Seq(Limb) /\ Len(Append(w, x)) = Len(w) + 1 /\ Append(w, x) = w \o <<x>>
  OBVIOUS
<1>2. <<x>> \in Seq(Limb) /\ WordsValue(<<x>>) = x
  BY OneLimb
<1>3. WordsValue(w \o <<x>>) = WordsValue(w) + Weight(Len(w)) * x
  BY ZenonT(40), <1>2, JoinedWords
<1>4. Weight(Len(w)) * x = x * Weight(Len(w))
  <2>1. x \in Int /\ Weight(Len(w)) \in Int
    BY BaseRule, WeightRule DEF Limb
  <2> QED BY <2>1
<1> QED BY <1>1, <1>3, <1>4

(* A difference of numbers that is not negative borrows nothing.           *)
LEMMA ExactDifference ==
    ASSUME NEW a \in Seq(Limb), NEW b \in Seq(Limb), NEW n \in Nat, n >= Len(a), n >= Len(b)
    PROVE  /\ SubWords(a, b, n).w \in Seq(Limb) /\ Len(SubWords(a, b, n).w) = n
           /\ SubWords(a, b, n).borrow = (IF WordsValue(a) < WordsValue(b) THEN 1 ELSE 0)
           /\ WordsValue(a) >= WordsValue(b)
                => WordsValue(SubWords(a, b, n).w) = WordsValue(a) - WordsValue(b)
<1>1. PICK w, c : /\ w = SubWords(a, b, n).w /\ c = SubWords(a, b, n).borrow
                  /\ w \in Seq(Limb) /\ Len(w) = n /\ c \in {0, 1}
                  /\ WordsValue(a) - WordsValue(b) = WordsValue(w) - c * Weight(n)
  BY DifferenceOfWords
<1>2. PICK u \in Nat : u = Weight(n)
  BY WeightRule
<1>3. PICK v \in Nat : v = WordsValue(w) /\ v < u
  BY <1>1, <1>2, WordsBound
<1>4. WordsValue(a) \in Nat /\ WordsValue(b) \in Nat
  BY WordsBound
<1>5. CASE c = 0
  <2>1. c * u = 0
    BY <1>2, <1>5
  <2> QED BY <1>1, <1>2, <1>3, <1>4, <1>5, <2>1
<1>6. CASE c = 1
  <2>1. c * u = u
    BY <1>2, <1>6
  <2> QED BY <1>1, <1>2, <1>3, <1>4, <1>6, <2>1
<1> QED BY <1>1, <1>5, <1>6

(* The sum of the two halves of an array.                                  *)
LEMMA HalfSum ==
    ASSUME NEW x \in Seq(Limb), NEW y \in Seq(Limb), NEW n \in Nat, n >= Len(x), n >= Len(y)
    PROVE  \E h \in Seq(Limb) :
             /\ h = Append(AddWords(x, y, n).w, AddWords(x, y, n).carry)
             /\ Len(h) = n + 1 /\ WordsValue(h) = WordsValue(x) + WordsValue(y)
<1>1. PICK w, c : /\ w = AddWords(x, y, n).w /\ c = AddWords(x, y, n).carry
                  /\ w \in Seq(Limb) /\ Len(w) = n /\ c \in {0, 1}
                  /\ WordsValue(x) + WordsValue(y) = WordsValue(w) + c * Weight(n)
  BY SumOfWords
<1>2. c \in Limb
  BY <1>1, BaseRule DEF Limb
<1>3. Append(w, c) \in Seq(Limb) /\ Len(Append(w, c)) = n + 1
      /\ WordsValue(Append(w, c)) = WordsValue(w) + c * Weight(n)
  BY <1>1, <1>2, AppendedLimb
<1> QED BY <1>1, <1>3

(* A product of two numbers below their bounds.                            *)
LEMMA ProductBelow ==
    ASSUME NEW x \in Nat, NEW y \in Nat, NEW u \in Nat, NEW v \in Nat, x < u, y < v
    PROVE  x * y < u * v
<1>1. u - x \in Nat /\ v - y \in Nat /\ u > 0 /\ v - y > 0
  OBVIOUS
<1>2. (u - x) * y \in Nat /\ u * (v - y) \in Nat /\ u * (v - y) > 0
  BY <1>1
<1>3. (u - x) * y = u * y - x * y /\ u * (v - y) = u * v - u * y
  OBVIOUS
<1>4. PICK p \in Nat, q \in Nat, r \in Nat : p = x * y /\ q = u * y /\ r = u * v
  OBVIOUS
<1>5. q - p \in Nat /\ r - q > 0
  BY <1>2, <1>3, <1>4
<1>6. p < r
  BY <1>5
<1> QED BY <1>4, <1>6

(* The product of two arrays fits as many limbs as both have.              *)
LEMMA ProductFits ==
    ASSUME NEW a \in Seq(Limb), NEW b \in Seq(Limb)
    PROVE  /\ WordsValue(a) * WordsValue(b) \in Nat
           /\ WordsValue(a) * WordsValue(b) < Weight(Len(a) + Len(b))
<1>1. Weight(Len(a) + Len(b)) = Weight(Len(a)) * Weight(Len(b))
  <2>1. Len(a) \in Nat /\ Len(b) \in Nat
    OBVIOUS
  <2> QED BY <2>1, WeightRule
<1>2. /\ WordsValue(a) \in Nat /\ WordsValue(a) < Weight(Len(a)) /\ Weight(Len(a)) \in Nat
      /\ WordsValue(b) \in Nat /\ WordsValue(b) < Weight(Len(b)) /\ Weight(Len(b)) \in Nat
  <2>1. Len(a) \in Nat /\ Len(b) \in Nat
    OBVIOUS
  <2> QED BY <2>1, WordsBound, WeightRule
<1>3. WordsValue(a) * WordsValue(b) < Weight(Len(a)) * Weight(Len(b))
  BY <1>2, ProductBelow
<1>4. WordsValue(a) * WordsValue(b) \in Nat
  BY <1>2
<1> QED BY <1>1, <1>3, <1>4

(* One Karatsuba split gives the exact product.                            *)
LEMMA KaratsubaExact ==
    ASSUME NEW a \in Seq(Limb), NEW b \in Seq(Limb), Len(a) = Len(b)
    PROVE  /\ KaratsubaWords(a, b) \in Seq(Limb) /\ Len(KaratsubaWords(a, b)) = Len(a) + Len(b)
           /\ WordsValue(KaratsubaWords(a, b)) = WordsValue(a) * WordsValue(b)
<1>1. PICK n \in Nat : n = Len(a) /\ n = Len(b)
  OBVIOUS
<1>2. PICK low \in Nat : low = n \div 2 /\ low <= n
  OBVIOUS
<1>3. PICK high \in Nat : high = n - low /\ low <= high
  BY <1>2
<1>4. PICK a0 \in Seq(Limb), a1 \in Seq(Limb) :
        /\ a0 = SubSeq(a, 1, low) /\ Len(a0) = low
        /\ a1 = SubSeq(a, low + 1, n) /\ Len(a1) = high
        /\ WordsValue(a) = WordsValue(a0) + Weight(low) * WordsValue(a1)
  <2>1. low \in 0 .. Len(a)
    BY <1>1, <1>2
  <2>2. /\ SubSeq(a, 1, low) \in Seq(Limb) /\ Len(SubSeq(a, 1, low)) = low
        /\ SubSeq(a, low + 1, Len(a)) \in Seq(Limb)
        /\ Len(SubSeq(a, low + 1, Len(a))) = Len(a) - low
        /\ WordsValue(a) = WordsValue(SubSeq(a, 1, low))
                             + Weight(low) * WordsValue(SubSeq(a, low + 1, Len(a)))
    BY <2>1, CutWords
  <2> QED BY <1>1, <1>3, <2>2
<1>5. PICK b0 \in Seq(Limb), b1 \in Seq(Limb) :
        /\ b0 = SubSeq(b, 1, low) /\ Len(b0) = low
        /\ b1 = SubSeq(b, low + 1, n) /\ Len(b1) = high
        /\ WordsValue(b) = WordsValue(b0) + Weight(low) * WordsValue(b1)
  <2>1. low \in 0 .. Len(b)
    BY <1>1, <1>2
  <2>2. /\ SubSeq(b, 1, low) \in Seq(Limb) /\ Len(SubSeq(b, 1, low)) = low
        /\ SubSeq(b, low + 1, Len(b)) \in Seq(Limb)
        /\ Len(SubSeq(b, low + 1, Len(b))) = Len(b) - low
        /\ WordsValue(b) = WordsValue(SubSeq(b, 1, low))
                             + Weight(low) * WordsValue(SubSeq(b, low + 1, Len(b)))
    BY <2>1, CutWords
  <2> QED BY <1>1, <1>3, <2>2
<1>6. PICK ha \in Seq(Limb) :
        /\ ha = Append(AddWords(a0, a1, high).w, AddWords(a0, a1, high).carry)
        /\ Len(ha) = high + 1 /\ WordsValue(ha) = WordsValue(a0) + WordsValue(a1)
  <2>1. high >= Len(a0) /\ high >= Len(a1)
    BY <1>3, <1>4
  <2> QED BY <2>1, HalfSum
<1>7. PICK hb \in Seq(Limb) :
        /\ hb = Append(AddWords(b0, b1, high).w, AddWords(b0, b1, high).carry)
        /\ Len(hb) = high + 1 /\ WordsValue(hb) = WordsValue(b0) + WordsValue(b1)
  <2>1. high >= Len(b0) /\ high >= Len(b1)
    BY <1>3, <1>5
  <2> QED BY <2>1, HalfSum
<1>8. PICK z0 \in Seq(Limb) : z0 = MulWords(a0, b0) /\ Len(z0) = low + low
                              /\ WordsValue(z0) = WordsValue(a0) * WordsValue(b0)
  <2>1. /\ MulWords(a0, b0) \in Seq(Limb) /\ Len(MulWords(a0, b0)) = Len(a0) + Len(b0)
        /\ WordsValue(MulWords(a0, b0)) = WordsValue(a0) * WordsValue(b0)
    BY ProductOfWords
  <2> QED BY <1>4, <1>5, <2>1
<1>9. PICK z2 \in Seq(Limb) : z2 = MulWords(a1, b1) /\ Len(z2) = high + high
                              /\ WordsValue(z2) = WordsValue(a1) * WordsValue(b1)
  <2>1. /\ MulWords(a1, b1) \in Seq(Limb) /\ Len(MulWords(a1, b1)) = Len(a1) + Len(b1)
        /\ WordsValue(MulWords(a1, b1)) = WordsValue(a1) * WordsValue(b1)
    BY ProductOfWords
  <2> QED BY <1>4, <1>5, <2>1
<1>10. PICK whole \in Seq(Limb) : whole = MulWords(ha, hb) /\ Len(whole) = (high + 1) + (high + 1)
                                  /\ WordsValue(whole) = WordsValue(ha) * WordsValue(hb)
  <2>1. /\ MulWords(ha, hb) \in Seq(Limb) /\ Len(MulWords(ha, hb)) = Len(ha) + Len(hb)
        /\ WordsValue(MulWords(ha, hb)) = WordsValue(ha) * WordsValue(hb)
    BY ProductOfWords
  <2> QED BY <1>6, <1>7, <2>1
<1>v. PICK A0 \in Nat, A1 \in Nat, B0 \in Nat, B1 \in Nat :
        A0 = WordsValue(a0) /\ A1 = WordsValue(a1) /\ B0 = WordsValue(b0) /\ B1 = WordsValue(b1)
  BY WordsBound
<1>m. PICK P \in Nat, Q \in Nat, R \in Nat, T \in Nat :
        /\ P = A0 * B0 /\ Q = A0 * B1 /\ R = A1 * B0 /\ T = A1 * B1
        /\ (A0 + A1) * (B0 + B1) = P + Q + R + T
  <2>1. A0 * B0 \in Nat /\ A1 * B1 \in Nat /\ A0 * B1 \in Nat /\ A1 * B0 \in Nat
    OBVIOUS
  <2>2. (A0 + A1) * (B0 + B1) = A0 * B0 + A0 * B1 + A1 * B0 + A1 * B1
    OBVIOUS
  <2> QED BY <2>1, <2>2
<1>11. PICK less0 \in Seq(Limb) : /\ less0 = SubWords(whole, z0, Len(whole)).w /\ Len(less0) = Len(whole)
                                  /\ WordsValue(less0) = Q + R + T
  <2>0. Len(z0) = low + low /\ Len(whole) = (high + 1) + (high + 1)
    BY <1>8, <1>10
  <2>1. PICK k \in Nat : k = Len(whole) /\ k >= Len(z0)
    BY <1>3, <2>0
  <2>2. WordsValue(whole) = P + Q + R + T /\ WordsValue(z0) = P
    BY <1>v, <1>m, <1>6, <1>7, <1>8, <1>10
  <2>3. WordsValue(whole) >= WordsValue(z0)
    BY <2>2
  <2>4. /\ SubWords(whole, z0, k).w \in Seq(Limb) /\ Len(SubWords(whole, z0, k).w) = k
        /\ WordsValue(SubWords(whole, z0, k).w) = WordsValue(whole) - WordsValue(z0)
    BY <2>1, <2>3, ExactDifference
  <2>5. WordsValue(whole) - WordsValue(z0) = Q + R + T
    BY <2>2
  <2> QED BY <2>1, <2>4, <2>5
<1>12. PICK z1 \in Seq(Limb) : /\ z1 = SubWords(less0, z2, Len(whole)).w
                               /\ WordsValue(z1) = Q + R
  <2>1. PICK k \in Nat : k = Len(whole) /\ k >= Len(z2) /\ k = Len(less0)
    <3>1. Len(z2) = high + high /\ Len(whole) = (high + 1) + (high + 1) /\ Len(less0) = Len(whole)
      BY <1>9, <1>10, <1>11
    <3> QED BY <3>1
  <2>2. WordsValue(z2) = T
    BY <1>v, <1>m, <1>9
  <2>6. WordsValue(less0) = Q + R + T
    BY <1>11
  <2>3. WordsValue(less0) >= WordsValue(z2)
    BY <2>2, <2>6
  <2>4. /\ SubWords(less0, z2, k).w \in Seq(Limb) /\ Len(SubWords(less0, z2, k).w) = k
        /\ WordsValue(SubWords(less0, z2, k).w) = WordsValue(less0) - WordsValue(z2)
    BY <2>1, <2>3, ExactDifference
  <2>5. WordsValue(less0) - WordsValue(z2) = Q + R
    BY <2>2, <2>6
  <2> QED BY <2>1, <2>4, <2>5
<1> DEFINE Trimmed(x) == SubSeq(x, 1, Significant(x))
<1>13. \A x \in Seq(Limb) : Trimmed(x) \in Seq(Limb) /\ WordsValue(Trimmed(x)) = WordsValue(x)
  BY SignificantRule
<1>14. KaratsubaWords(a, b)
         = AddShifted(AddShifted(AddShifted(Zeros(2 * n), Trimmed(z0), 0), Trimmed(z1), low), Trimmed(z2), 2 * low)
  <2> DEFINE N  == Len(a)
             D  == N \div 2
             H  == N - D
             Half(x, y) == Append(AddWords(x, y, H).w, AddWords(x, y, H).carry)
             Z0 == MulWords(SubSeq(a, 1, D), SubSeq(b, 1, D))
             Z2 == MulWords(SubSeq(a, D + 1, N), SubSeq(b, D + 1, N))
             Z  == MulWords(Half(SubSeq(a, 1, D), SubSeq(a, D + 1, N)),
                            Half(SubSeq(b, 1, D), SubSeq(b, D + 1, N)))
             L0 == SubWords(Z, Z0, Len(Z)).w
             Z1 == SubWords(L0, Z2, Len(Z)).w
  <2>1. KaratsubaWords(a, b)
          = AddShifted(AddShifted(AddShifted(Zeros(2 * N), Trimmed(Z0), 0), Trimmed(Z1), D), Trimmed(Z2), 2 * D)
    BY DEF KaratsubaWords
  <2>2. N = n /\ D = low /\ H = high
    BY <1>1, <1>2, <1>3
  <2> HIDE DEF N, D, H
  <2>3. /\ SubSeq(a, 1, D) = a0 /\ SubSeq(a, D + 1, N) = a1
        /\ SubSeq(b, 1, D) = b0 /\ SubSeq(b, D + 1, N) = b1
    BY <1>4, <1>5, <2>2
  <2>4. Half(a0, a1) = ha /\ Half(b0, b1) = hb
    BY <1>6, <1>7, <2>2
  <2>5. Z0 = z0 /\ Z2 = z2
    BY <1>8, <1>9, <2>3
  <2> HIDE DEF Half, Z0, Z2
  <2>6. Z = whole
    BY <1>10, <2>3, <2>4
  <2> HIDE DEF Z
  <2>7. L0 = less0
    BY <1>11, <2>5, <2>6
  <2> HIDE DEF L0
  <2>8. Z1 = z1
    BY <1>12, <2>5, <2>6, <2>7
  <2> HIDE DEF Z1, Trimmed
  <2> QED BY <2>1, <2>2, <2>5, <2>8
<1> HIDE DEF Trimmed
<1>w. PICK U \in Nat, V \in Nat : /\ U = Weight(low) /\ V = Weight(2 * n)
                                  /\ Weight(0) = 1 /\ Weight(2 * low) = U * U
                                  /\ WordsValue(a) * WordsValue(b) < V
  <2>1. 2 * low = low + low /\ 2 * n = n + n /\ 2 * low \in Nat /\ 2 * n \in Nat
    OBVIOUS
  <2>2. /\ Weight(2 * low) = Weight(low) * Weight(low) /\ Weight(2 * n) = Weight(n) * Weight(n)
        /\ Weight(low) \in Nat /\ Weight(2 * n) \in Nat /\ Weight(n) \in Nat /\ Weight(0) = 1
    <3>1. /\ Weight(low + low) = Weight(low) * Weight(low) /\ Weight(n + n) = Weight(n) * Weight(n)
          /\ Weight(low) \in Nat /\ Weight(n + n) \in Nat /\ Weight(n) \in Nat /\ Weight(0) = 1
      <4>1. low + low \in Nat /\ n + n \in Nat
        OBVIOUS
      <4> QED BY <4>1, WeightRule
    <3> QED BY <2>1, <3>1
  <2>5. WordsValue(a) * WordsValue(b) < Weight(2 * n)
    <3>1. Len(a) + Len(b) = 2 * n
      BY <1>1
    <3> QED BY <3>1, ProductFits
  <2> QED BY <2>2, <2>5
<1>15. PICK M \in Nat, H \in Nat :
         /\ M = U * (Q + R) /\ H = (U * U) * T
         /\ WordsValue(a) * WordsValue(b) = P + M + H
  <2>1. WordsValue(a) = A0 + U * A1 /\ WordsValue(b) = B0 + U * B1
    BY <1>v, <1>w, <1>4, <1>5
  <2>2. (A0 + U * A1) * (B0 + U * B1) = A0 * B0 + U * (A0 * B1 + A1 * B0) + (U * U) * (A1 * B1)
    OBVIOUS
  <2>3. U * U \in Nat /\ Q + R \in Nat
    OBVIOUS
  <2>4. U * (Q + R) \in Nat /\ (U * U) * T \in Nat
    BY <2>3
  <2> QED BY <1>m, <2>1, <2>2, <2>4
<1>b. P + M + H < V
  BY <1>w, <1>15
<1>c. P < V /\ P + M < V
  BY <1>b
<1>16. PICK s0 \in Seq(Limb) : /\ s0 = AddShifted(Zeros(2 * n), Trimmed(z0), 0)
                               /\ Len(s0) = 2 * n /\ WordsValue(s0) = P
  <2>1. PICK z \in Seq(Limb) : z = Zeros(2 * n) /\ Len(z) = 2 * n /\ WordsValue(z) = 0
    <3>1. 2 * n \in Nat
      OBVIOUS
    <3> QED BY <3>1, ZerosRule
  <2>2. PICK t \in Seq(Limb) : t = Trimmed(z0) /\ WordsValue(t) = P
    BY ZenonT(40), <1>v, <1>m, <1>8, <1>13
  <2>3. WordsValue(z) + Weight(0) * WordsValue(t) = P
    BY <1>w, <1>15, <2>1, <2>2
  <2>4. WordsValue(z) + Weight(0) * WordsValue(t) < Weight(Len(z))
    BY <1>w, <1>c, <2>1, <2>3
  <2>5. /\ AddShifted(z, t, 0) \in Seq(Limb) /\ Len(AddShifted(z, t, 0)) = Len(z)
        /\ WordsValue(AddShifted(z, t, 0)) = WordsValue(z) + Weight(0) * WordsValue(t)
    <3>1. 0 \in Nat
      OBVIOUS
    <3> QED BY <2>4, <3>1, ShiftedSum
  <2> QED BY <2>1, <2>2, <2>3, <2>5
<1>17. PICK s1 \in Seq(Limb) : /\ s1 = AddShifted(s0, Trimmed(z1), low) /\ Len(s1) = 2 * n
                               /\ WordsValue(s1) = P + M
  <2>1. PICK t \in Seq(Limb) : t = Trimmed(z1) /\ WordsValue(t) = Q + R
    BY <1>12, <1>13
  <2>2. WordsValue(s0) + Weight(low) * WordsValue(t) = P + M
    BY <1>w, <1>15, <1>16, <2>1
  <2>3. WordsValue(s0) + Weight(low) * WordsValue(t) < Weight(Len(s0))
    BY <1>w, <1>c, <1>16, <2>2
  <2>4. /\ AddShifted(s0, t, low) \in Seq(Limb) /\ Len(AddShifted(s0, t, low)) = Len(s0)
        /\ WordsValue(AddShifted(s0, t, low)) = WordsValue(s0) + Weight(low) * WordsValue(t)
    BY <2>3, ShiftedSum
  <2> QED BY <1>16, <2>1, <2>2, <2>4
<1>18. PICK s2 \in Seq(Limb) : /\ s2 = AddShifted(s1, Trimmed(z2), 2 * low) /\ Len(s2) = 2 * n
                               /\ WordsValue(s2) = WordsValue(a) * WordsValue(b)
  <2>1. PICK t \in Seq(Limb) : t = Trimmed(z2) /\ WordsValue(t) = T
    BY ZenonT(40), <1>v, <1>m, <1>9, <1>13
  <2>0. PICK k \in Nat : k = 2 * low
    OBVIOUS
  <2>2. WordsValue(s1) + Weight(k) * WordsValue(t) = WordsValue(a) * WordsValue(b)
    BY <1>w, <1>15, <1>17, <2>0, <2>1
  <2>3. WordsValue(s1) + Weight(k) * WordsValue(t) < Weight(Len(s1))
    BY <1>w, <1>15, <1>17, <2>2
  <2>4. /\ AddShifted(s1, t, k) \in Seq(Limb) /\ Len(AddShifted(s1, t, k)) = Len(s1)
        /\ WordsValue(AddShifted(s1, t, k)) = WordsValue(s1) + Weight(k) * WordsValue(t)
    BY <2>3, ShiftedSum
  <2> QED BY <1>17, <2>0, <2>1, <2>2, <2>4
<1>19. KaratsubaWords(a, b) = s2 /\ 2 * n = Len(a) + Len(b)
  BY <1>1, <1>14, <1>16, <1>17, <1>18
<1> QED BY <1>18, <1>19

-----------------------------------------------------------------------------
(* Squares: the crossed products once, then doubled, then the diagonal.    *)

(* What is added to an array leaves an array as long.                      *)
LEMMA ShiftedType ==
    ASSUME NEW w \in Seq(Limb), NEW x \in Seq(Limb), NEW off \in Nat
    PROVE  AddShifted(w, x, off) \in Seq(Limb)
<1>1. Zeros(off) \o x \in Seq(Limb)
  <2>1. Zeros(off) \in Seq(Limb)
    BY ZerosRule
  <2> QED BY <2>1, JoinedWords
<1>2. Len(w) \in Nat
  OBVIOUS
<1>3. AddWords(w, Zeros(off) \o x, Len(w)).w \in Seq(Limb)
  BY <1>1, <1>2, SumInPlaces
<1> QED BY <1>3 DEF AddShifted

\* The products of limb i with the limbs from it on, added one after the other.
Crossed(c, w, a, i) ==
    /\ c[0] = AddShifted(w, WordsOf(At(a, i) * At(a, i), 3), i + i)
    /\ \A k \in Nat :
         /\ c[k] \in Seq(Limb)
         /\ c[k + 1] = AddShifted(c[k], WordsOf(2 * At(a, i) * At(a, i + (k + 1)), 3), i + (i + (k + 1)))

\* One row of a square adds its crossed products one by one.
LEMMA CrossedRule ==
    ASSUME NEW w \in Seq(Limb), NEW a \in Seq(Limb), NEW i \in Nat
    PROVE  \E c : Crossed(c, w, a, i) /\ SquareRow(w, a, i) = c[Len(a) - 1 - i]
<1> DEFINE S == Seq(Limb)
           x == At(a, i)
           Start == AddShifted(w, WordsOf(x * x, 3), i + i)
           Step(s, k) == AddShifted(s, WordsOf(2 * x * At(a, i + k), 3), i + (i + k))
           Rule(f) == f = [k \in Nat |-> IF k = 0 THEN Start ELSE Step(f[k - 1], k)]
           c == CHOOSE f : Rule(f)
           g == [q \in Nat \X S |-> IF q[1] = 0 THEN Start ELSE Step(q[2], q[1])]
<1>1. SquareRow(w, a, i) = c[Len(a) - 1 - i]
  BY DEF SquareRow
<1>2. \A k \in Nat : At(a, k) \in Nat
  BY LimbsAreIntegers
<1>3. Start \in S
  <2>1. x * x \in Nat /\ 3 \in Nat /\ i + i \in Nat
    BY SMTT(20), <1>2
  <2>2. WordsOf(x * x, 3) \in Seq(Limb)
    BY <2>1, WordsOfRule
  <2> QED BY <2>1, <2>2, ShiftedType
<1>4. \A k \in Nat, s \in S : Step(s, k) \in S
  <2> TAKE k \in Nat, s \in S
  <2>1. i + k \in Nat
    OBVIOUS
  <2>2. 2 * x * At(a, i + k) \in Nat /\ 3 \in Nat /\ i + (i + k) \in Nat
    <3>1. PICK u \in Nat, v \in Nat : u = x /\ v = At(a, i + k)
      BY <1>2, <2>1
    <3>2. 2 * u * v \in Nat
      OBVIOUS
    <3> QED BY <2>1, <3>1, <3>2
  <2>3. WordsOf(2 * x * At(a, i + k), 3) \in Seq(Limb)
    BY <2>2, WordsOfRule
  <2> QED BY <2>2, <2>3, ShiftedType
<1> HIDE DEF Start, Step
<1>5. \A k \in Nat, s \in S : k # 0 => g[<<k, s>>] = Step(s, k)
  OBVIOUS
<1>6. g \in [Nat \X S -> S]
  BY <1>3, <1>4
<1> HIDE DEF g, S
<1>7. PICK f : f \in [Nat -> S] /\ f = [k \in Nat |-> IF k = 0 THEN Start ELSE g[<<k, f[k - 1]>>]]
  <2>1. PICK f : StepsFrom(f, S, Start, g)
    BY <1>3, <1>6, Recursion
  <2> QED BY <2>1 DEF StepsFrom
<1>8. Rule(f)
  <2>1. \A k \in Nat : f[k] = IF k = 0 THEN Start ELSE Step(f[k - 1], k)
    <3>1. \A k \in Nat : k # 0 => f[k - 1] \in S
      BY <1>7
    <3> QED BY <1>5, <1>7, <3>1
  <2>2. f = [k \in Nat |-> f[k]]
    BY <1>7
  <2> QED BY <2>1, <2>2
<1>9. Rule(c)
  <2> HIDE DEF Rule
  <2> QED BY <1>8
<1> HIDE DEF c
<1>10. c[0] = Start /\ \A k \in Nat : c[k + 1] = Step(c[k], k + 1)
  <2>1. \A k \in Nat : c[k] = IF k = 0 THEN Start ELSE Step(c[k - 1], k)
    BY <1>9
  <2>2. \A k \in Nat : k + 1 \in Nat /\ k + 1 # 0 /\ (k + 1) - 1 = k
    OBVIOUS
  <2> QED BY <2>1, <2>2
<1> HIDE DEF Rule
<1>11. \A k \in Nat : c[k] \in S
  <2>1. c[0] \in S
    BY <1>3, <1>10
  <2>2. ASSUME NEW k \in Nat, c[k] \in S PROVE c[k + 1] \in S
    <3>1. k + 1 \in Nat /\ c[k + 1] = Step(c[k], k + 1)
      BY <1>10
    <3> QED BY <1>4, <2>2, <3>1
  <2> QED BY <2>1, <2>2, StaysWithin
<1>12. Crossed(c, w, a, i)
  BY <1>10, <1>11 DEF Crossed, Start, Step, S
<1> QED BY <1>1, <1>12

(* Limbs below add nothing to what those above stand for.                  *)
LEMMA ValueGrows ==
    ASSUME NEW p \in [Nat -> Nat], NEW m \in Nat
    PROVE  \A k \in Nat : Value(p, m) <= Value(p, m + k) /\ Value(p, m) \in Nat
<1>1. p \in [Nat -> Int]
  OBVIOUS
<1>2. /\ Value(p, 0) = 0
      /\ \A k \in Nat : Value(p, k) \in Int /\ Value(p, k + 1) = Value(p, k) + p[k] * Weight(k)
  BY <1>1, ValueRule
<1>3. \A k \in Nat : p[k] * Weight(k) \in Nat
  <2> TAKE k \in Nat
  <2>1. p[k] \in Nat /\ Weight(k) \in Nat
    BY WeightRule
  <2> QED BY <2>1
<1>4. \A k \in Nat : Value(p, k) <= Value(p, k + 1)
  <2> TAKE k \in Nat
  <2>1. PICK d \in Nat : d = p[k] * Weight(k)
    BY <1>3
  <2> QED BY <1>2, <2>1
<1> DEFINE T == {k \in Nat : Value(p, m) <= Value(p, m + k)}
           N == {k \in Nat : Value(p, k) \in Nat}
<1>5. 0 \in T
  BY <1>2
<1>6. ASSUME NEW k \in Nat, k \in T PROVE k + 1 \in T
  <2>1. m + k \in Nat /\ (m + k) + 1 = m + (k + 1)
    OBVIOUS
  <2>2. Value(p, m + k) <= Value(p, (m + k) + 1)
    BY <1>4, <2>1
  <2>3. Value(p, m) \in Int /\ Value(p, m + k) \in Int /\ Value(p, m + (k + 1)) \in Int
    BY <1>2, <2>1
  <2> QED BY <1>6, <2>1, <2>2, <2>3
<1>7. 0 \in N /\ \A k \in Nat : k \in N => k + 1 \in N
  BY <1>2, <1>3
<1>8. Nat \subseteq T /\ Nat \subseteq N
  <2> HIDE DEF T, N
  <2> QED BY <1>5, <1>6, <1>7, SetInduction
<1> QED BY <1>8

(* A product of three limbs added to an array.                             *)
LEMMA TripleAdded ==
    ASSUME NEW v \in Seq(Limb), NEW q \in Nat, q < Weight(3), NEW off \in Nat,
           WordsValue(v) + Weight(off) * q < Weight(Len(v))
    PROVE  \E r \in Seq(Limb) : /\ r = AddShifted(v, WordsOf(q, 3), off) /\ Len(r) = Len(v)
                                /\ WordsValue(r) = WordsValue(v) + Weight(off) * q
<1>1. PICK t \in Seq(Limb) : t = WordsOf(q, 3) /\ WordsValue(t) = q
  <2>1. 3 \in Nat
    OBVIOUS
  <2> QED BY <2>1, WordsOfRule
<1>2. WordsValue(v) + Weight(off) * WordsValue(t) < Weight(Len(v))
  BY <1>1
<1>3. /\ AddShifted(v, t, off) \in Seq(Limb) /\ Len(AddShifted(v, t, off)) = Len(v)
      /\ WordsValue(AddShifted(v, t, off)) = WordsValue(v) + Weight(off) * WordsValue(t)
  BY <1>2, ShiftedSum
<1> QED BY <1>1, <1>3

(* Twice a product of two limbs fits three.                                *)
LEMMA TwiceProduct ==
    ASSUME NEW x \in Limb, NEW y \in Limb
    PROVE  /\ x * y \in Nat /\ x * y < Weight(3)
           /\ 2 * x * y \in Nat /\ 2 * x * y < Weight(3)
<1>1. PICK B \in Nat : B = Base /\ B >= 2
  BY BaseRule
<1>2. x \in Nat /\ y \in Nat /\ x < B /\ y < B
  BY <1>1 DEF Limb
<1>3. Weight(3) = B * (B * B)
  <2>1. Weight(1 + 1) = Base * Weight(1) /\ Weight((1 + 1) + 1) = Base * Weight(1 + 1) /\ Weight(1) = Base
    BY WeightRule
  <2>2. (1 + 1) + 1 = 3
    OBVIOUS
  <2> QED BY <1>1, <2>1, <2>2
<1>4. x * y < B * B
  BY <1>1, <1>2, ProductBelow
<1>5. PICK p \in Nat, r \in Nat : p = x * y /\ r = B * B
  BY <1>2
<1>6. 2 * r <= B * r
  <2>1. (B - 2) * r \in Nat /\ (B - 2) * r = B * r - 2 * r
    BY <1>1
  <2>2. B * r \in Nat /\ 2 * r \in Nat
    OBVIOUS
  <2> QED BY <2>1, <2>2
<1>7. p < r
  BY <1>4, <1>5
<1>8. PICK t \in Nat : t = B * r /\ t = Weight(3)
  BY <1>3, <1>5
<1>9. 2 * p < t /\ p < t
  BY <1>6, <1>7, <1>8
<1>10. 2 * x * y = 2 * p
  BY <1>2, <1>5
<1> QED BY <1>5, <1>8, <1>9, <1>10

(* The step of a row, in numbers.                                          *)
LEMMA CrossStep ==
    ASSUME NEW v \in Nat, NEW A \in Nat, NEW e \in Nat, NEW d \in Nat, NEW g \in Nat,
           NEW h \in Nat, NEW t \in Nat, (v + e * e) + 2 * d * g = A * A, g = h + t
    PROVE  ((v + 2 * d * t) + e * e) + 2 * d * h = A * A /\ 2 * d * t \in Nat /\ v + 2 * d * t <= A * A
<1>1. 2 * d * g = 2 * d * h + 2 * d * t
  OBVIOUS
<1>2. PICK p \in Nat, q \in Nat, r \in Nat, s \in Nat :
        p = e * e /\ q = 2 * d * h /\ r = 2 * d * t /\ s = 2 * d * g
  OBVIOUS
<1>3. PICK z \in Nat : z = A * A
  OBVIOUS
<1>4. (v + p) + s = z /\ s = q + r
  BY <1>1, <1>2, <1>3
<1>5. ((v + r) + p) + q = z /\ v + r <= z
  BY <1>4
<1> QED BY <1>2, <1>3, <1>5

\* w holds what the square of A has beyond the square of what is left of A
\* above the first i limbs, whose places are p.
SquaredTo(w, p, n, A, i) ==
    /\ w \in Seq(Limb) /\ Len(w) = 2 * n
    /\ Value(p, i) <= A
    /\ WordsValue(w) + (A - Value(p, i)) * (A - Value(p, i)) = A * A

\* The array a, its length, its places and its value.
Operand(a, n, p, A) ==
    /\ a \in Seq(Limb) /\ n = Len(a) /\ n \in Nat
    /\ p \in [Nat -> Nat] /\ \A k \in Nat : p[k] = At(a, k) /\ p[k] \in Limb
    /\ A \in Nat /\ A = Value(p, n) /\ A * A < Weight(2 * n)

\* The operand of a square, as its length, its places and its value.
LEMMA OperandRule ==
    ASSUME NEW a \in Seq(Limb)
    PROVE  \E n, p, A : Operand(a, n, p, A) /\ A = WordsValue(a)
<1>1. PICK n \in Nat : n = Len(a)
  OBVIOUS
<1>2. a \in Seq(Int)
  BY LimbsAreIntegers
<1>3. PICK p : p = Places(a)
  OBVIOUS
<1>4. /\ p \in [Nat -> Int] /\ WordsValue(a) = Value(p, n)
      /\ \A k \in Nat : p[k] = At(a, k)
  BY <1>1, <1>2, <1>3, PlacesOfWords
<1>5. \A k \in Nat : p[k] \in Limb /\ p[k] \in Nat
  BY <1>4, LimbsAreIntegers
<1>6. p \in [Nat -> Nat]
  BY <1>4, <1>5
<1>7. PICK A \in Nat : A = WordsValue(a)
  BY WordsBound
<1>8. A * A < Weight(2 * n)
  <2>1. 2 * n = Len(a) + Len(a)
    BY <1>1
  <2>2. WordsValue(a) * WordsValue(a) < Weight(Len(a) + Len(a))
    BY ProductFits
  <2> QED BY <1>7, <2>1, <2>2
<1>9. Operand(a, n, p, A)
  BY <1>1, <1>4, <1>5, <1>6, <1>7, <1>8 DEF Operand
<1> QED BY <1>7, <1>9

(* One row of a square.                                                    *)
LEMMA SquareRowExact ==
    ASSUME NEW a, NEW n, NEW p, NEW A, Operand(a, n, p, A),
           NEW w, NEW i \in Nat, i < n, SquaredTo(w, p, n, A, i)
    PROVE  SquaredTo(SquareRow(w, a, i), p, n, A, i + 1)
<1>0. /\ a \in Seq(Limb) /\ n = Len(a) /\ n \in Nat
      /\ p \in [Nat -> Nat] /\ (\A k \in Nat : p[k] = At(a, k) /\ p[k] \in Limb)
      /\ A \in Nat /\ A = Value(p, n) /\ A * A < Weight(2 * n)
  BY DEF Operand
<1>1. /\ w \in Seq(Limb) /\ Len(w) = 2 * n
      /\ WordsValue(w) + (A - Value(p, i)) * (A - Value(p, i)) = A * A
  BY DEF SquaredTo
<1>2. PICK c : Crossed(c, w, a, i) /\ SquareRow(w, a, i) = c[n - 1 - i]
  BY <1>0, <1>1, CrossedRule
<1>3. /\ c[0] = AddShifted(w, WordsOf(At(a, i) * At(a, i), 3), i + i)
      /\ \A k \in Nat :
           /\ c[k] \in Seq(Limb)
           /\ c[k + 1] = AddShifted(c[k], WordsOf(2 * At(a, i) * At(a, i + (k + 1)), 3), i + (i + (k + 1)))
  BY <1>2 DEF Crossed
<1>4. PICK x \in Limb : x = At(a, i) /\ x = p[i] /\ x \in Nat
  <2>1. p[i] = At(a, i) /\ p[i] \in Limb
    BY <1>0
  <2>2. p[i] \in Nat
    BY <1>0
  <2> QED BY <2>1, <2>2
<1>5. PICK u \in Nat : u = Weight(i)
  BY WeightRule
<1>6. PICK d \in Nat : d = x * u
  BY <1>4
<1>n. n \in Nat /\ A \in Nat /\ A = Value(p, n)
  BY <1>0
<1>7. \A k \in Nat : Value(p, k) \in Nat /\ (k <= n => Value(p, k) <= A)
  <2> TAKE k \in Nat
  <2>1. Value(p, k) \in Nat
    BY <1>0, ValueGrows
  <2>2. ASSUME k <= n PROVE Value(p, k) <= A
    <3>1. PICK j \in Nat : n = k + j
      <4>1. n - k \in Nat /\ n = k + (n - k)
        BY <1>0, <2>2
      <4> QED BY <4>1
    <3>2. Value(p, k) <= Value(p, k + j)
      BY <1>0, ValueGrows
    <3> QED BY <1>0, <3>1, <3>2
  <2> QED BY <2>1, <2>2
<1>8. PICK e \in Nat : e = A - Value(p, i + 1) /\ A - Value(p, i) = e + d
  <2>1. p \in [Nat -> Int]
    BY <1>0
  <2>2. Value(p, i + 1) = Value(p, i) + p[i] * Weight(i)
    BY <2>1, ValueRule
  <2>3. Value(p, i + 1) = Value(p, i) + d
    BY <1>4, <1>5, <1>6, <2>2
  <2>4. Value(p, i + 1) \in Nat /\ Value(p, i + 1) <= A /\ Value(p, i) \in Nat
    <3>1. i + 1 \in Nat /\ i + 1 <= n
      BY <1>0
    <3> QED BY <1>7, <3>1
  <2> QED BY <1>n, <2>3, <2>4
<1>9. PICK Q \in Nat : Q = A * A /\ Q < Weight(2 * n)
  BY <1>0
<1> DEFINE Left(k) == A - Value(p, (i + 1) + k)
           Good(k) == Len(c[k]) = 2 * n /\ (WordsValue(c[k]) + e * e) + 2 * d * Left(k) = Q
           T == {k \in Nat : k <= n - 1 - i => Good(k)}
<1>10. 0 \in T
  <2>1. WordsValue(w) \in Nat
    BY <1>1, WordsBound
  <2>2. WordsValue(w) + (e + d) * (e + d) = Q
    BY <1>1, <1>8, <1>9
  <2>3. PICK z \in Nat : z = WordsValue(w)
    BY <2>1
  <2>4. (e + d) * (e + d) = e * e + 2 * d * e + d * d
    OBVIOUS
  <2>5. PICK E \in Nat, F \in Nat, D \in Nat : E = e * e /\ F = 2 * d * e /\ D = d * d
    OBVIOUS
  <2>6. z + (E + F + D) = Q
    BY <2>2, <2>3, <2>4, <2>5
  <2>7. z + D <= Q /\ ((z + D) + E) + F = Q
    BY <2>6
  <2>8. PICK q \in Nat : q = x * x /\ q < Weight(3)
    BY TwiceProduct
  <2>9. PICK j \in Nat : j = i + i
    OBVIOUS
  <2>10. Weight(j) * q = D
    <3>1. Weight(j) = u * u
      BY <1>5, <2>9, WeightRule
    <3>2. (u * u) * (x * x) = (x * u) * (x * u)
      BY <1>4
    <3> QED BY <1>6, <2>5, <2>8, <3>1, <3>2
  <2>11. WordsValue(w) + Weight(j) * q < Weight(Len(w))
    <3>1. PICK V \in Nat : V = Weight(2 * n) /\ Q < V
      <4>1. 2 * n \in Nat
        BY <1>0
      <4> QED BY <1>9, <4>1, WeightRule
    <3>2. z + D < V
      BY <2>7, <3>1
    <3> QED BY <1>1, <2>3, <2>10, <3>1, <3>2
  <2>12. PICK r \in Seq(Limb) : /\ r = AddShifted(w, WordsOf(q, 3), j) /\ Len(r) = Len(w)
                                /\ WordsValue(r) = WordsValue(w) + Weight(j) * q
    BY <1>1, <2>8, <2>11, TripleAdded
  <2>13. c[0] = r
    BY <1>3, <1>4, <2>8, <2>9, <2>12
  <2>14. Left(0) = e
    BY <1>8
  <2>15. Len(c[0]) = 2 * n /\ WordsValue(c[0]) = z + D
    BY <1>1, <2>3, <2>10, <2>12, <2>13
  <2> HIDE DEF Left
  <2>16. (WordsValue(c[0]) + e * e) + 2 * d * Left(0) = Q
    BY <2>5, <2>7, <2>14, <2>15
  <2> QED BY <2>15, <2>16
<1>11. ASSUME NEW k \in Nat, k \in T PROVE k + 1 \in T
  <2> SUFFICES ASSUME k + 1 <= n - 1 - i PROVE Good(k + 1)
    OBVIOUS
  <2>0. Good(k)
    <3>1. k <= n - 1 - i => Good(k)
      <4> HIDE DEF Good
      <4> QED BY <1>11
    <3> QED BY <1>0, <3>1
  <2>1. PICK v \in Seq(Limb) : v = c[k]
    BY <1>3
  <2>2. Len(v) = 2 * n /\ (WordsValue(v) + e * e) + 2 * d * Left(k) = Q
    BY <2>0, <2>1
  <2>3. PICK z \in Nat : z = WordsValue(v)
    BY WordsBound
  <2>4. PICK m \in Nat : m = i + (k + 1) /\ m = (i + 1) + k /\ m + 1 = (i + 1) + (k + 1) /\ m + 1 <= n
    BY <1>0
  <2>5. PICK y \in Limb : y = At(a, m) /\ y = p[m] /\ y \in Nat
    <3>1. p[m] = At(a, m) /\ p[m] \in Limb
      BY <1>0
    <3>2. p[m] \in Nat
      BY <1>0
    <3> QED BY <3>1, <3>2
  <2>6. PICK t \in Nat : t = y * Weight(m)
    <3>1. Weight(m) \in Nat
      BY WeightRule
    <3> QED BY <2>5, <3>1
  <2>7. PICK h \in Nat : h = Left(k + 1) /\ Left(k) = h + t
    <3>1. p \in [Nat -> Int]
      BY <1>0
    <3>2. Value(p, m + 1) = Value(p, m) + p[m] * Weight(m)
      BY <3>1, ValueRule
    <3>3. Value(p, m + 1) = Value(p, m) + t
      BY <2>5, <2>6, <3>2
    <3>4. m + 1 \in Nat /\ m + 1 <= n /\ m \in Nat
      BY <2>4
    <3>5. Value(p, m + 1) \in Nat /\ Value(p, m + 1) <= A
      BY <1>7, <3>4
    <3>6. Value(p, m) \in Nat
      BY <1>7, <3>4
    <3>7. PICK B \in Nat, C \in Nat : B = Value(p, m + 1) /\ C = Value(p, m) /\ B = C + t /\ B <= A
      BY <3>3, <3>5, <3>6
    <3>8. Left(k) = A - C /\ Left(k + 1) = A - B
      BY <2>4, <3>7
    <3> HIDE DEF Left
    <3>9. A - B \in Nat /\ A - C = (A - B) + t
      <4>1. \A b, f, o, s \in Nat : f = o + s /\ f <= b => b - f \in Nat /\ b - o = (b - f) + s
        OBVIOUS
      <4>2. A \in Nat
        BY <1>n
      <4> QED BY SMTT(20), <3>7, <4>1, <4>2
    <3> QED BY <3>8, <3>9
  <2>8. PICK g \in Nat : g = Left(k) /\ g = h + t
    <3> HIDE DEF Left
    <3> QED BY <2>7
  <2> HIDE DEF Left
  <2>9. (z + e * e) + 2 * d * g = A * A
    BY <1>9, <2>2, <2>3, <2>8
  <2>10. ((z + 2 * d * t) + e * e) + 2 * d * h = A * A /\ 2 * d * t \in Nat /\ z + 2 * d * t <= A * A
    BY <1>n, <2>8, <2>9, CrossStep
  <2>11. PICK q \in Nat : q = 2 * x * y /\ q < Weight(3)
    BY TwiceProduct
  <2>12. PICK j \in Nat : j = i + m
    OBVIOUS
  <2>13. Weight(j) * q = 2 * d * t
    <3>0. Weight(i + m) = Weight(i) * Weight(m) /\ Weight(m) \in Nat
      BY WeightRule
    <3>1. PICK o \in Nat : o = Weight(m) /\ Weight(j) = u * o
      BY <1>5, <2>12, <3>0
    <3>2. \A b, f \in Nat : (u * o) * (2 * b * f) = 2 * (b * u) * (f * o)
      OBVIOUS
    <3>3. (u * o) * (2 * x * y) = 2 * (x * u) * (y * o)
      BY <1>4, <2>5, <3>2
    <3> QED BY <1>6, <2>6, <2>11, <3>1, <3>3
  <2>14. WordsValue(v) + Weight(j) * q < Weight(Len(v))
    <3>1. PICK V \in Nat : V = Weight(2 * n) /\ Q < V
      <4>1. 2 * n \in Nat
        BY <1>0
      <4> QED BY <1>9, <4>1, WeightRule
    <3>2. PICK s \in Nat : s = 2 * d * t /\ z + s <= Q
      BY <1>9, <2>10
    <3>3. z + s < V
      BY <3>1, <3>2
    <3> QED BY <2>2, <2>3, <2>13, <3>1, <3>2, <3>3
  <2>15. PICK r \in Seq(Limb) : /\ r = AddShifted(v, WordsOf(q, 3), j) /\ Len(r) = Len(v)
                                /\ WordsValue(r) = WordsValue(v) + Weight(j) * q
    BY <2>11, <2>14, TripleAdded
  <2>16. c[k + 1] = r
    <3>1. c[k + 1] = AddShifted(c[k], WordsOf(2 * At(a, i) * At(a, i + (k + 1)), 3), i + (i + (k + 1)))
      BY <1>3
    <3> QED BY <1>4, <2>1, <2>4, <2>5, <2>11, <2>12, <2>15, <3>1
  <2>17. Len(c[k + 1]) = 2 * n /\ WordsValue(c[k + 1]) = z + 2 * d * t
    BY <2>2, <2>3, <2>13, <2>15, <2>16
  <2> QED BY <1>9, <2>7, <2>10, <2>17
<1>12. PICK k \in Nat : k = n - 1 - i
  BY <1>n
<1>13. Good(k)
  <2>1. k \in T
    <3> HIDE DEF T
    <3> QED BY <1>10, <1>11, SetInduction
  <2>2. k <= n - 1 - i => Good(k)
    <3> HIDE DEF Good
    <3> QED BY <2>1
  <2> QED BY <1>12, <2>2
<1>14. Left(k) = 0
  <2>1. (i + 1) + k = n
    BY <1>n, <1>12
  <2> QED BY <1>n, <2>1
<1>15. Len(c[k]) = 2 * n /\ WordsValue(c[k]) + e * e = Q
  <2>1. Len(c[k]) = 2 * n /\ (WordsValue(c[k]) + e * e) + 2 * d * Left(k) = Q
    BY <1>13
  <2>2. WordsValue(c[k]) \in Nat /\ e * e \in Nat
    <3>1. c[k] \in Seq(Limb)
      BY <1>3
    <3> QED BY <3>1, WordsBound
  <2> HIDE DEF Left
  <2>3. 2 * d * Left(k) = 0
    BY <1>14
  <2>4. \A b, o \in Nat : b + o + 0 = b + o
    OBVIOUS
  <2> QED BY <2>1, <2>2, <2>3, <2>4
<1>16. SquareRow(w, a, i) = c[k] /\ c[k] \in Seq(Limb) /\ Value(p, i + 1) <= A
  <2>1. i + 1 \in Nat /\ i + 1 <= n
    BY <1>0
  <2>2. Value(p, i + 1) <= A
    BY <1>7, <2>1
  <2>3. SquareRow(w, a, i) = c[k]
    BY <1>2, <1>12
  <2>4. c[k] \in Seq(Limb)
    BY <1>3
  <2> QED BY <2>2, <2>3, <2>4
<1> QED BY <1>8, <1>9, <1>15, <1>16 DEF SquaredTo

\* The rows of a square, one for each of its limbs.
SquareRows(rows, a) ==
    /\ rows[0] = Zeros(2 * Len(a))
    /\ \A k \in 0 .. Len(a) - 1 : rows[k] \in Seq(Limb) /\ rows[k + 1] = SquareRow(rows[k], a, k)

\* SquareWords adds up its rows one by one.
LEMMA SquareRowsRule ==
    ASSUME NEW a \in Seq(Limb)
    PROVE  \E rows : SquareRows(rows, a) /\ SquareWords(a) = rows[Len(a)]
<1>0. PICK n \in Nat : n = Len(a)
  OBVIOUS
<1> DEFINE S == Seq(Limb)
           z == Zeros(2 * n)
           Rule(w) == w = [i \in 0 .. n |-> IF i = 0 THEN z ELSE SquareRow(w[i - 1], a, i - 1)]
           rows == CHOOSE w : Rule(w)
           g == [q \in Nat \X S |-> IF q[1] \in 1 .. n THEN SquareRow(q[2], a, q[1] - 1) ELSE z]
<1>1. SquareWords(a) = rows[n]
  BY <1>0 DEF SquareWords
<1>2. z \in S
  BY ZerosRule
<1>3. \A k \in 1 .. n, s \in S : k \in Nat /\ k # 0 /\ k - 1 \in Nat /\ g[<<k, s>>] = SquareRow(s, a, k - 1)
  OBVIOUS
<1>4. \A i \in 0 .. n - 1, s \in S : SquareRow(s, a, i) \in S
  <2> TAKE i \in 0 .. n - 1, s \in S
  <2>0. i \in Nat /\ n - 1 - i \in Nat
    OBVIOUS
  <2>1. PICK c : Crossed(c, s, a, i) /\ SquareRow(s, a, i) = c[n - 1 - i]
    BY ZenonT(40), <1>0, <2>0, CrossedRule
  <2>2. c[n - 1 - i] \in Seq(Limb)
    BY <2>0, <2>1 DEF Crossed
  <2> QED BY <2>1, <2>2
<1> HIDE DEF z
<1>5. g \in [Nat \X S -> S]
  <2>1. ASSUME NEW q \in Nat \X S PROVE g[q] \in S
    <3>1. CASE q[1] \notin 1 .. n
      BY <1>2, <3>1
    <3>2. CASE q[1] \in 1 .. n
      <4>1. PICK i \in 0 .. n - 1, s \in S : i = q[1] - 1 /\ s = q[2]
        BY <3>2
      <4>2. g[q] = SquareRow(s, a, i)
        BY <3>2, <4>1
      <4> QED BY <1>4, <4>2
    <3> QED BY <3>1, <3>2
  <2> QED BY <2>1
<1> HIDE DEF g, S
<1>6. PICK f : f \in [Nat -> S] /\ f = [k \in Nat |-> IF k = 0 THEN z ELSE g[<<k, f[k - 1]>>]]
  <2>1. PICK f : StepsFrom(f, S, z, g)
    BY <1>2, <1>5, Recursion
  <2> QED BY <2>1 DEF StepsFrom
<1> DEFINE r == [i \in 0 .. n |-> f[i]]
<1>7. Rule(r)
  <2>1. \A k \in 0 .. n : f[k] = IF k = 0 THEN z ELSE SquareRow(f[k - 1], a, k - 1)
    <3> TAKE k \in 0 .. n
    <3>1. CASE k = 0
      BY <1>6, <3>1
    <3>2. CASE k # 0
      <4>1. k \in 1 .. n /\ k \in Nat /\ k - 1 \in Nat
        BY <3>2
      <4>2. f[k] = g[<<k, f[k - 1]>>] /\ f[k - 1] \in S
        BY <1>6, <3>2, <4>1
      <4> QED BY <1>3, <3>2, <4>1, <4>2
    <3> QED BY <3>1, <3>2
  <2>2. \A k \in 0 .. n : k # 0 => r[k - 1] = f[k - 1]
    OBVIOUS
  <2>3. \A k \in 0 .. n : f[k] = IF k = 0 THEN z ELSE SquareRow(r[k - 1], a, k - 1)
    BY <2>1, <2>2
  <2> QED BY <2>3
<1> HIDE DEF r
<1>8. Rule(rows)
  <2> HIDE DEF Rule
  <2> QED BY <1>7
<1> HIDE DEF rows
<1>9. rows[0] = z /\ \A k \in 0 .. n - 1 : rows[k + 1] = SquareRow(rows[k], a, k)
  <2>1. \A k \in 0 .. n : rows[k] = IF k = 0 THEN z ELSE SquareRow(rows[k - 1], a, k - 1)
    BY <1>8
  <2>2. \A k \in 0 .. n - 1 : k + 1 \in 0 .. n /\ k + 1 # 0 /\ (k + 1) - 1 = k
    OBVIOUS
  <2> QED BY <2>1, <2>2
<1> HIDE DEF Rule
<1> DEFINE Good(k) == rows[k] \in S
           T == {k \in Nat : k <= n => Good(k)}
<1>10. 0 \in T
  BY <1>2, <1>9
<1>11. ASSUME NEW k \in Nat, k \in T PROVE k + 1 \in T
  <2>1. k <= n => Good(k)
    <3> HIDE DEF Good
    <3> QED BY <1>11
  <2>2. ASSUME k + 1 <= n PROVE rows[k + 1] \in S
    <3>1. k \in 0 .. n - 1 /\ rows[k] \in S
      BY <2>1, <2>2
    <3> QED BY <1>4, <1>9, <3>1
  <2> QED BY <2>2
<1>12. \A k \in 0 .. n - 1 : rows[k] \in S
  <2>1. \A k \in Nat : k \in T
    <3> HIDE DEF T
    <3> QED BY <1>10, <1>11, SetInduction
  <2>2. \A k \in Nat : k <= n => Good(k)
    <3> HIDE DEF Good
    <3> QED BY <2>1
  <2> QED BY <2>2
<1> QED BY <1>0, <1>1, <1>9, <1>12 DEF SquareRows, S, z

(* A square is exact.                                                      *)
LEMMA SquareExact ==
    ASSUME NEW a \in Seq(Limb)
    PROVE  /\ SquareWords(a) \in Seq(Limb) /\ Len(SquareWords(a)) = 2 * Len(a)
           /\ WordsValue(SquareWords(a)) = WordsValue(a) * WordsValue(a)
<1>1. PICK n, p, A : Operand(a, n, p, A) /\ A = WordsValue(a)
  BY OperandRule
<1>2. /\ n = Len(a) /\ n \in Nat /\ p \in [Nat -> Nat] /\ A \in Nat /\ A = Value(p, n)
  BY <1>1 DEF Operand
<1>3. PICK rows : SquareRows(rows, a) /\ SquareWords(a) = rows[n]
  BY <1>2, SquareRowsRule
<1> DEFINE Good(k) == SquaredTo(rows[k], p, n, A, k)
           T == {k \in Nat : k <= n => Good(k)}
<1>0. p \in [Nat -> Int] /\ n \in Nat /\ A \in Nat
  BY <1>2
<1>4. 0 \in T
  <2>1. Value(p, 0) = 0
    BY <1>0, ValueRule
  <2>2. rows[0] = Zeros(2 * n)
    BY <1>2, <1>3 DEF SquareRows
  <2>3. 2 * n \in Nat
    BY <1>2
  <2>4. rows[0] \in Seq(Limb) /\ Len(rows[0]) = 2 * n /\ WordsValue(rows[0]) = 0
    BY <2>2, <2>3, ZerosRule
  <2>5. 0 <= A /\ 0 + (A - 0) * (A - 0) = A * A
    <3>1. A - 0 = A /\ 0 <= A /\ A * A \in Int
      BY <1>0
    <3> QED BY <3>1
  <2> QED BY <2>1, <2>4, <2>5 DEF SquaredTo
<1>5. ASSUME NEW k \in Nat, k \in T PROVE k + 1 \in T
  <2>1. k <= n => Good(k)
    <3> HIDE DEF Good
    <3> QED BY <1>5
  <2>2. ASSUME k + 1 <= n PROVE Good(k + 1)
    <3>1. k < n /\ k \in 0 .. n - 1 /\ k <= n
      BY <1>0, <2>2
    <3>2. rows[k + 1] = SquareRow(rows[k], a, k)
      BY <1>2, <1>3, <3>1 DEF SquareRows
    <3>3. SquaredTo(rows[k], p, n, A, k)
      BY <2>1, <3>1
    <3>4. SquaredTo(SquareRow(rows[k], a, k), p, n, A, k + 1)
      BY <1>1, <3>1, <3>3, SquareRowExact
    <3> QED BY <3>2, <3>4
  <2> QED BY <2>2
<1>6. Good(n)
  <2>1. n \in T
    <3> HIDE DEF T
    <3> QED BY <1>0, <1>4, <1>5, SetInduction
  <2>2. n <= n => Good(n)
    <3> HIDE DEF Good
    <3> QED BY <2>1
  <2> QED BY <1>0, <2>2
<1>7. rows[n] \in Seq(Limb) /\ Len(rows[n]) = 2 * n
      /\ WordsValue(rows[n]) + (A - Value(p, n)) * (A - Value(p, n)) = A * A
  BY <1>6 DEF SquaredTo
<1>8. A - Value(p, n) = 0 /\ WordsValue(rows[n]) \in Nat
  <2>1. WordsValue(rows[n]) \in Nat
    BY <1>7, WordsBound
  <2> QED BY <1>2, <2>1
<1>9. WordsValue(rows[n]) = A * A
  <2>1. \A b \in Nat : b + 0 * 0 = b
    OBVIOUS
  <2> QED BY <1>7, <1>8, <2>1
<1> QED BY <1>1, <1>2, <1>3, <1>7, <1>9

-----------------------------------------------------------------------------
(* The entry point that picks a product.                                   *)

(* Operands that the method chosen takes.                                  *)
ProductInv ==
  /\ productA \in Seq(Limb) /\ productB \in Seq(Limb)
  /\ productMethod \in {"schoolbook", "karatsuba", "square"}
  /\ productMethod = "karatsuba" => Len(productA) = Len(productB)
  /\ productMethod = "square" => productA = productB
  /\ ProductIsExact

\* The product starts from operands that are limbs.
LEMMA ProductStarts == ProductInit => ProductInv
<1> SUFFICES ASSUME ProductInit PROVE ProductInv
  OBVIOUS
<1>1. PICK n \in 1 .. ProductMaxLimbs, k \in 1 .. ProductMaxLimbs :
        productA \in [1 .. n -> Limb] /\ productB \in [1 .. k -> Limb]
  BY DEF ProductInit, Arrays
<1>2. n \in Nat /\ k \in Nat
  BY <1>1
<1>3. productA \in Seq(Limb) /\ productB \in Seq(Limb)
  BY <1>1, <1>2
<1> QED BY <1>3 DEF ProductInit, ProductInv, ProductIsExact

\* Whichever product the entry point picks is the product of the operands.
LEMMA ProductStep == ProductInv /\ [ProductNext]_productVars => ProductInv'
<1>1. ASSUME ProductInv, Multiply PROVE ProductInv'
  <2>1. /\ productA' = productA /\ productB' = productB /\ productMethod' = productMethod
        /\ productA \in Seq(Limb) /\ productB \in Seq(Limb)
    BY <1>1 DEF ProductInv, Multiply
  <2>2. /\ productProduct' \in Seq(Limb)
        /\ Len(productProduct') = Len(productA) + Len(productB)
        /\ WordsValue(productProduct') = WordsValue(productA) * WordsValue(productB)
    <3>1. CASE productMethod = "schoolbook"
      <4>1. productProduct' = MulWords(productA, productB)
        BY <1>1, <3>1 DEF Multiply
      <4> QED BY <2>1, <4>1, ProductOfWords
    <3>2. CASE productMethod = "karatsuba"
      <4>1. productProduct' = KaratsubaWords(productA, productB) /\ Len(productA) = Len(productB)
        BY <1>1, <3>2 DEF Multiply, ProductInv
      <4> QED BY <2>1, <4>1, KaratsubaExact
    <3>3. CASE productMethod = "square"
      <4>1. productProduct' = SquareWords(productA) /\ productA = productB
        BY <1>1, <3>3 DEF Multiply, ProductInv
      <4>2. 2 * Len(productA) = Len(productA) + Len(productA)
        BY <2>1
      <4> QED BY <2>1, <4>1, <4>2, SquareExact
    <3> QED BY <1>1, <3>1, <3>2, <3>3 DEF ProductInv
  <2>3. ProductIsExact'
    BY <2>1, <2>2 DEF ProductIsExact
  <2> QED BY <1>1, <2>1, <2>3 DEF ProductInv
<1>2. ASSUME ProductInv, UNCHANGED productVars PROVE ProductInv'
  BY <1>2 DEF ProductInv, ProductIsExact, productVars
<1> QED BY <1>1, <1>2 DEF ProductNext, ProductFinished

\* Zero limbs are worth nothing.
LEMMA AllZero ==
    ASSUME NEW w \in Seq(Limb), \A i \in Nat : i > 0 /\ i <= Len(w) => w[i] = 0
    PROVE  WordsValue(w) = 0
<1>1. PICK n \in Nat : n = Len(w)
  OBVIOUS
<1>2. Zeros(n) \in Seq(Limb) /\ Len(Zeros(n)) = n /\ (\A i \in 1 .. n : Zeros(n)[i] = 0)
      /\ WordsValue(Zeros(n)) = 0
  BY ZerosRule
<1>3. w = Zeros(n)
  <2>1. \A i \in 1 .. n : w[i] = 0
    BY <1>1
  <2> QED BY <1>1, <1>2, <2>1
<1> QED BY <1>2, <1>3

(* The top limb is not zero exactly when the number needs its place.       *)
LEMMA TopLimb ==
    ASSUME NEW w \in Seq(Limb), NEW k \in Nat, Len(w) = k + 1
    PROVE  w[k + 1] # 0 <=> WordsValue(w) >= Weight(k)
<1>1. w \in Seq(Int) /\ w[k + 1] \in Limb /\ w[k + 1] \in Nat
  <2>1. w \in Seq(Int) /\ w[k + 1] \in Limb
    BY LimbsAreIntegers
  <2>2. At(w, k) = w[k + 1]
    <3>1. At(w, k) = IF k < k + 1 THEN w[k + 1] ELSE 0
      BY DEF At
    <3> QED BY <3>1
  <2>3. At(w, k) \in Nat
    BY LimbsAreIntegers
  <2> QED BY <2>1, <2>2, <2>3
<1>2. PICK p \in [Nat -> Int] : p = Places(w) /\ p[k] = w[k + 1] /\ WordsValue(w) = Value(p, k + 1)
                              /\ \A i \in Nat : p[i] = At(w, i)
  <2>1. /\ Places(w) \in [Nat -> Int]
        /\ \A i \in 0 .. Len(w) - 1 : Places(w)[i] = w[i + 1]
        /\ WordsValue(w) = Value(Places(w), Len(w))
        /\ \A i \in Nat : Places(w)[i] = At(w, i)
    BY <1>1, PlacesOfWords
  <2>2. k \in 0 .. Len(w) - 1
    OBVIOUS
  <2> QED BY <2>1, <2>2
<1>3. Value(p, k + 1) = Value(p, k) + p[k] * Weight(k)
  BY ValueRule
<1>4. Value(p, k) \in 0 .. Weight(k) - 1
  <2>1. \A i \in 0 .. k - 1 : p[i] \in 0 .. Base - 1
    <3> TAKE i \in 0 .. k - 1
    <3>1. i \in Nat
      OBVIOUS
    <3>2. At(w, i) \in Limb
      BY <3>1, LimbsAreIntegers
    <3> QED BY <1>2, <3>1, <3>2 DEF Limb
  <2> QED BY <2>1, BaseRule, PlacesBound DEF Value, Weight
<1>5. PICK t \in Nat, v \in Nat, u \in Nat : /\ t = w[k + 1] /\ v = Value(p, k) /\ u = Weight(k)
                                             /\ v < u /\ WordsValue(w) = v + t * u
  <2>1. Weight(k) \in Nat
    BY WeightRule
  <2>2. Value(p, k) \in Nat /\ Value(p, k) < Weight(k)
    BY <1>4, <2>1
  <2> QED BY <1>1, <1>2, <1>3, <2>1, <2>2
<1>6. CASE t = 0
  <2>1. 0 * u = 0
    OBVIOUS
  <2> QED BY <1>5, <1>6, <2>1
<1>7. CASE t # 0
  <2>1. PICK s \in Nat : t = s + 1
    <3>1. t - 1 \in Nat /\ t = (t - 1) + 1
      BY <1>7
    <3> QED BY <3>1
  <2>2. PICK o \in Nat : o = s * u /\ t * u = o + u
    BY <2>1
  <2>3. v + (o + u) >= u
    OBVIOUS
  <2>4. WordsValue(w) = v + (o + u)
    BY <1>5, <2>2
  <2> QED BY <1>5, <1>7, <2>3, <2>4
<1> QED BY <1>6, <1>7

-----------------------------------------------------------------------------
(* Order.                                                                  *)

\* p and q agree in n places from place m up, and below they are limbs of which
\* the highest is smaller in p.
Below(p, q, m, n) ==
    /\ p \in [Nat -> Nat] /\ q \in [Nat -> Nat] /\ m \in Nat /\ n \in Nat
    /\ \A i \in Nat : p[i] \in 0 .. Base - 1 /\ q[i] \in 0 .. Base - 1
    /\ p[m] < q[m]
    /\ \A i \in 0 .. n - 1 : p[(m + 1) + i] = q[(m + 1) + i]

(* The highest place that differs decides.                                 *)
LEMMA PlacesOrder ==
    ASSUME NEW p, NEW q, NEW m, NEW n, Below(p, q, m, n)
    PROVE  Value(p, (m + 1) + n) < Value(q, (m + 1) + n)
<1>1. p \in [Nat -> Int] /\ q \in [Nat -> Int] /\ m \in Nat /\ n \in Nat /\ m + 1 \in Nat
  BY DEF Below
<1>2. PICK r \in [Nat -> Int] : \A i \in Nat : r[i] = p[(m + 1) + i]
  <2>1. [i \in Nat |-> p[(m + 1) + i]] \in [Nat -> Int]
    BY <1>1
  <2> QED BY <2>1
<1>3. Above(r, p, m + 1, n)
  BY <1>1, <1>2 DEF Above
<1>4. Above(r, q, m + 1, n)
  <2>1. \A i \in 0 .. n - 1 : p[(m + 1) + i] = q[(m + 1) + i]
    BY DEF Below
  <2>2. \A i \in 0 .. n - 1 : i \in Nat
    OBVIOUS
  <2>3. \A i \in 0 .. n - 1 : r[i] = q[(m + 1) + i]
    BY <1>2, <2>1, <2>2
  <2> QED BY <2>3 DEF Above
<1>5. /\ Value(p, (m + 1) + n) = Value(p, m + 1) + Weight(m + 1) * Value(r, n)
      /\ Value(q, (m + 1) + n) = Value(q, m + 1) + Weight(m + 1) * Value(r, n)
  <2>1. PICK k \in Nat : k = m + 1
    BY <1>1
  <2>2. Above(r, p, k, n) /\ Above(r, q, k, n)
    BY <1>3, <1>4, <2>1
  <2>3. Value(p, k + n) = Value(p, k) + Weight(k) * Value(r, n)
    BY <1>1, <2>2, ValueSplit
  <2>4. Value(q, k + n) = Value(q, k) + Weight(k) * Value(r, n)
    BY <1>1, <2>2, ValueSplit
  <2> QED BY <2>1, <2>3, <2>4
<1>6. PICK h \in Int : h = Weight(m + 1) * Value(r, n)
  <2>1. Weight(m + 1) \in Int
    BY <1>1, WeightRule
  <2>2. Value(r, n) \in Int
    BY <1>1, <1>2, ValueRule
  <2> QED BY <2>1, <2>2
<1>7. /\ Value(p, m + 1) = Value(p, m) + p[m] * Weight(m)
      /\ Value(q, m + 1) = Value(q, m) + q[m] * Weight(m)
  BY <1>1, ValueRule
<1>8. PICK u \in Nat : u = Weight(m) /\ u > 0
  BY <1>1, WeightRule
<1>9. Value(p, m) \in 0 .. u - 1 /\ Value(q, m) \in 0 .. u - 1
  <2>1. \A i \in 0 .. m - 1 : p[i] \in 0 .. Base - 1 /\ q[i] \in 0 .. Base - 1
    BY DEF Below
  <2>2. PlacesValue(p, m, Base) \in 0 .. PowerOf(Base, m) - 1
    BY <1>1, <2>1, BaseRule, PlacesBound
  <2>3. PlacesValue(q, m, Base) \in 0 .. PowerOf(Base, m) - 1
    BY <1>1, <2>1, BaseRule, PlacesBound
  <2> QED BY <1>8, <2>2, <2>3 DEF Value, Weight
<1>10. PICK x \in Nat, d \in Nat : p[m] = x /\ q[m] = (x + 1) + d
  <2>1. p[m] \in Nat /\ q[m] \in Nat /\ p[m] < q[m]
    BY DEF Below
  <2>2. q[m] - p[m] - 1 \in Nat /\ q[m] = (p[m] + 1) + (q[m] - p[m] - 1)
    BY <2>1
  <2> QED BY <2>1, <2>2
<1>11. PICK e \in Nat, f \in Nat : e = x * u /\ f = d * u /\ q[m] * u = e + u + f
  BY <1>8, <1>10
<1>12. PICK v \in Nat, w \in Nat : v = Value(p, m) /\ w = Value(q, m) /\ v < u
  BY <1>8, <1>9
<1>13. Value(p, (m + 1) + n) = (v + e) + h /\ Value(q, (m + 1) + n) = (w + (e + u + f)) + h
  BY <1>5, <1>6, <1>7, <1>8, <1>10, <1>11, <1>12
<1> QED BY <1>12, <1>13

\* The topmost limb in which two words of one length differ decides.
LEMMA WordsOrder ==
    ASSUME NEW a \in Seq(Limb), NEW b \in Seq(Limb), Len(a) = Len(b),
           NEW m \in Nat, NEW n \in Nat, Len(a) = (m + 1) + n, a[m + 1] < b[m + 1],
           \A i \in Nat : i > m + 1 /\ i <= Len(a) => a[i] = b[i]
    PROVE  WordsValue(a) < WordsValue(b)
<1>1. a \in Seq(Int) /\ b \in Seq(Int)
  BY LimbsAreIntegers
<1>2. PICK p \in [Nat -> Int] : WordsValue(a) = Value(p, Len(a)) /\ (\A i \in Nat : p[i] = At(a, i))
                                /\ \A i \in 0 .. Len(a) - 1 : p[i] = a[i + 1]
  BY <1>1, PlacesOfWords
<1>3. PICK q \in [Nat -> Int] : WordsValue(b) = Value(q, Len(b)) /\ (\A i \in Nat : q[i] = At(b, i))
                                /\ \A i \in 0 .. Len(b) - 1 : q[i] = b[i + 1]
  BY <1>1, PlacesOfWords
<1>4. \A i \in Nat : /\ p[i] \in 0 .. Base - 1 /\ q[i] \in 0 .. Base - 1
                     /\ p[i] \in Nat /\ q[i] \in Nat
  <2> TAKE i \in Nat
  <2>1. At(a, i) \in Limb /\ At(a, i) \in Nat
    BY LimbsAreIntegers
  <2>2. At(b, i) \in Limb /\ At(b, i) \in Nat
    BY LimbsAreIntegers
  <2> QED BY <1>2, <1>3, <2>1, <2>2 DEF Limb
<1>5. p \in [Nat -> Nat] /\ q \in [Nat -> Nat]
  BY <1>4
<1>6. p[m] < q[m]
  <2>1. m \in 0 .. Len(a) - 1 /\ m \in 0 .. Len(b) - 1
    OBVIOUS
  <2> QED BY <1>2, <1>3, <2>1
<1>7. \A i \in 0 .. n - 1 : p[(m + 1) + i] = q[(m + 1) + i]
  <2> TAKE i \in 0 .. n - 1
  <2>1. PICK j \in Nat : j = (m + 1) + i /\ j + 1 > m + 1 /\ j + 1 <= Len(a)
                         /\ j \in 0 .. Len(a) - 1 /\ j \in 0 .. Len(b) - 1
    OBVIOUS
  <2>2. a[j + 1] = b[j + 1]
    BY <2>1
  <2> QED BY <1>2, <1>3, <2>1, <2>2
<1>8. Below(p, q, m, n)
  BY <1>4, <1>5, <1>6, <1>7 DEF Below
<1>9. Value(p, (m + 1) + n) < Value(q, (m + 1) + n)
  BY <1>8, PlacesOrder
<1> QED BY <1>2, <1>3, <1>9

(* A number with more limbs is larger.                                     *)
LEMMA LongerIsLarger ==
    ASSUME NEW a \in Seq(Limb), NEW b \in Seq(Limb), Len(a) < Len(b), b[Len(b)] # 0
    PROVE  WordsValue(a) < WordsValue(b)
<1>1. PICK k \in Nat : Len(b) = k + 1 /\ Len(a) <= k
  <2>1. Len(b) - 1 \in Nat /\ Len(b) = (Len(b) - 1) + 1 /\ Len(a) <= Len(b) - 1
    OBVIOUS
  <2> QED BY <2>1
<1>2. WordsValue(b) >= Weight(k)
  BY <1>1, TopLimb
<1>3. WordsValue(a) < Weight(Len(a)) /\ WordsValue(a) \in Nat /\ WordsValue(b) \in Nat
  BY WordsBound
<1>4. Weight(Len(a)) <= Weight(k) /\ Weight(k) \in Nat /\ Weight(Len(a)) \in Nat
  BY <1>1, WeightRule, WeightGrows
<1> QED BY <1>2, <1>3, <1>4

-----------------------------------------------------------------------------
(* Sums with a carry, shifts.                                              *)

\* r is n limbs with the carry k on top of them, exactly as long as its value v.
SumAndCarry(w, n, k, v) ==
    /\ w \in Seq(Limb) /\ Len(w) = n /\ n \in Nat /\ k \in {0, 1} /\ v \in Nat
    /\ v = WordsValue(w) + k * Weight(n)
    /\ \A m \in Nat : n = m + 1 => v >= Weight(m)

\* A sum of n limbs and a carry k, stored in the limbs r it needs.
ExactSum(r, n, k, v) ==
    /\ r \in Seq(Limb) /\ Len(r) = (IF k = 0 THEN n ELSE n + 1) /\ WordsValue(r) = v
    /\ Len(r) > 0 => r[Len(r)] # 0

(* A sum of limbs with its last carry on top has no zero limb there.       *)
LEMMA CarriedSum ==
    ASSUME NEW w, NEW n, NEW k, NEW v, SumAndCarry(w, n, k, v)
    PROVE  ExactSum(IF k = 0 THEN w ELSE Append(w, k), n, k, v)
<1>0. /\ w \in Seq(Limb) /\ Len(w) = n /\ n \in Nat /\ k \in {0, 1} /\ v \in Nat
      /\ v = WordsValue(w) + k * Weight(n)
      /\ \A m \in Nat : n = m + 1 => v >= Weight(m)
  BY DEF SumAndCarry
<1>r. PICK r : r = IF k = 0 THEN w ELSE Append(w, k)
  OBVIOUS
<1> SUFFICES ExactSum(r, n, k, v)
  BY <1>r
<1>1. PICK u \in Nat : u = Weight(n)
  BY <1>0, WeightRule
<1>2. CASE k = 0
  <2>1. 0 * u = 0 /\ WordsValue(w) \in Nat
    BY <1>0, WordsBound
  <2>2. WordsValue(w) = v
    BY <1>0, <1>1, <1>2, <2>1
  <2>3. ASSUME n > 0 PROVE w[n] # 0
    <3>1. PICK m \in Nat : n = m + 1
      <4>1. n - 1 \in Nat /\ n = (n - 1) + 1
        BY <1>0, <2>3
      <4> QED BY <4>1
    <3> QED BY <1>0, <2>2, <3>1, TopLimb
  <2> QED BY <1>0, <1>2, <1>r, <2>2, <2>3 DEF ExactSum
<1>3. CASE k = 1
  <2>1. 1 \in Limb
    BY BaseRule DEF Limb
  <2>2. \A x \in Limb : /\ Append(w, x) \in Seq(Limb) /\ Len(Append(w, x)) = Len(w) + 1
                        /\ WordsValue(Append(w, x)) = WordsValue(w) + x * Weight(Len(w))
    BY <1>0, AppendedLimb
  <2>3. r = Append(w, 1) /\ r \in Seq(Limb) /\ Len(r) = n + 1 /\ WordsValue(r) = WordsValue(w) + 1 * Weight(n)
    BY <1>0, <1>3, <1>r, <2>1, <2>2
  <2>4. r[n + 1] = 1
    BY <1>0, <2>3
  <2>5. WordsValue(r) = v
    BY <1>0, <1>1, <1>3, <2>3
  <2> QED BY <1>0, <1>3, <2>3, <2>4, <2>5 DEF ExactSum
<1> QED BY <1>0, <1>2, <1>3

-----------------------------------------------------------------------------
(* Division by one word.                                                   *)

\* From place n down, r times Base and the next digit of p is d times the digit
\* of q and the next r.
Quotients(p, q, r, d, n) ==
    /\ p \in [Nat -> Nat] /\ q \in [Nat -> Nat] /\ r \in [Nat -> Nat] /\ d \in Nat \ {0} /\ n \in Nat
    /\ \A i \in Nat : i < n => r[i + 1] * Base + p[i] = d * q[i] + r[i]
    /\ r[n] = 0 /\ r[0] < d

(* Long division by one limb, in numbers.                                  *)
LEMMA LongQuotient ==
    ASSUME NEW p, NEW q, NEW r, NEW d, NEW n, Quotients(p, q, r, d, n)
    PROVE  Value(q, n) = Value(p, n) \div d
<1>1. /\ p \in [Nat -> Nat] /\ q \in [Nat -> Nat] /\ r \in [Nat -> Nat] /\ d \in Nat \ {0} /\ n \in Nat
      /\ p \in [Nat -> Int] /\ q \in [Nat -> Int]
      /\ \A i \in Nat : i < n => r[i + 1] * Base + p[i] = d * q[i] + r[i]
      /\ r[n] = 0 /\ r[0] < d
  BY DEF Quotients
<1> DEFINE Good(k) == Value(p, k) + r[k] * Weight(k) = d * Value(q, k) + r[0]
           T == {k \in Nat : k <= n => Good(k)}
<1>2. \A x \in Nat : Value(p, x) \in Int /\ Value(q, x) \in Int /\ Weight(x) \in Nat /\ r[x] \in Nat
                     /\ p[x] \in Nat /\ q[x] \in Nat
  BY <1>1, ValueRule, WeightRule
<1>3. 0 \in T
  <2>1. Value(p, 0) = 0 /\ Value(q, 0) = 0 /\ Weight(0) = 1
    BY <1>1, ValueRule, WeightRule
  <2>2. \A y \in Nat, e \in Nat : 0 + y * 1 = e * 0 + y
    OBVIOUS
  <2>3. Good(0)
    BY <1>1, <1>2, <2>1, <2>2
  <2> QED BY <2>3
<1>4. ASSUME NEW k \in Nat, k \in T PROVE k + 1 \in T
  <2>1. k <= n => Good(k)
    <3> HIDE DEF Good
    <3> QED BY <1>4
  <2>2. ASSUME k + 1 <= n PROVE Good(k + 1)
    <3>0. k <= n /\ k < n
      BY <1>1, <2>2
    <3>1. Good(k) /\ k < n
      <4> HIDE DEF Good
      <4> QED BY <2>1, <3>0
    <3>2. r[k + 1] * Base + p[k] = d * q[k] + r[k]
      BY <1>1, <3>1
    <3>3. /\ Value(p, k + 1) = Value(p, k) + p[k] * Weight(k)
          /\ Value(q, k + 1) = Value(q, k) + q[k] * Weight(k)
          /\ Weight(k + 1) = Base * Weight(k)
      BY <1>1, ValueRule, WeightRule
    <3>4. \A P, Q \in Int, W, R1, R0, x, y, e, B, z \in Nat :
            P + R0 * W = e * Q + z /\ R1 * B + x = e * y + R0
              => (P + x * W) + R1 * (B * W) = e * (Q + y * W) + z
      <4> TAKE P, Q \in Int, W, R1, R0, x, y, e, B, z \in Nat
      <4> HAVE P + R0 * W = e * Q + z /\ R1 * B + x = e * y + R0
      <4>1. (R1 * B + x) * W = (e * y + R0) * W
        OBVIOUS
      <4>2. (R1 * B + x) * W = R1 * (B * W) + x * W
        OBVIOUS
      <4>3. (e * y + R0) * W = e * (y * W) + R0 * W
        OBVIOUS
      <4>4. e * (Q + y * W) = e * Q + e * (y * W)
        OBVIOUS
      <4>5. PICK m1 \in Int, m2 \in Int, m3 \in Int, m4 \in Int, m5 \in Int :
              m1 = R1 * (B * W) /\ m2 = x * W /\ m3 = e * (y * W) /\ m4 = R0 * W /\ m5 = e * Q
        OBVIOUS
      <4>6. m1 + m2 = m3 + m4 /\ P + m4 = m5 + z
        BY <4>1, <4>2, <4>3, <4>5
      <4>7. (P + m2) + m1 = (m5 + m3) + z
        BY <4>5, <4>6
      <4> QED BY <4>4, <4>5, <4>7
    <3>5. PICK P \in Int, Q \in Int, W \in Nat, R1 \in Nat, R0 \in Nat, x \in Nat, y \in Nat, B \in Nat, z \in Nat :
            /\ P = Value(p, k) /\ Q = Value(q, k) /\ W = Weight(k) /\ R1 = r[k + 1] /\ R0 = r[k]
            /\ x = p[k] /\ y = q[k] /\ B = Base /\ z = r[0]
      <4>1. k + 1 \in Nat /\ 0 \in Nat
        OBVIOUS
      <4>2. r[k + 1] \in Nat /\ r[0] \in Nat /\ Base \in Nat
        BY <1>2, <4>1, BaseRule
      <4> QED BY <1>2, <4>2
    <3>6. P + R0 * W = d * Q + z /\ R1 * B + x = d * y + R0 /\ d \in Nat
      BY <1>1, <3>1, <3>2, <3>5
    <3>7. (P + x * W) + R1 * (B * W) = d * (Q + y * W) + z
      BY <3>4, <3>6
    <3> QED BY <3>3, <3>5, <3>7
  <2> QED BY <2>2
<1>5. Good(n)
  <2>1. n \in T
    <3> HIDE DEF T
    <3> QED BY <1>1, <1>3, <1>4, SetInduction
  <2>2. n <= n => Good(n)
    <3> HIDE DEF Good
    <3> QED BY <2>1
  <2> QED BY <1>1, <2>2
<1>6. PICK P \in Int, Q \in Int, W \in Nat, z \in Nat :
        P = Value(p, n) /\ Q = Value(q, n) /\ W = Weight(n) /\ z = r[0]
  BY <1>1, <1>2
<1>7. P + 0 * W = d * Q + z /\ z < d
  BY <1>1, <1>5, <1>6
<1>8. Q \in Nat /\ P \in Nat
  BY <1>1, <1>6, ValueGrows
<1>9. P = d * Q + z
  <2>1. PICK m \in Int : m = d * Q
    BY <1>1
  <2>2. 0 * W = 0
    OBVIOUS
  <2>3. P = m + z
    BY <1>7, <2>1, <2>2
  <2> QED BY <2>1, <2>3
<1>10. P \div d = Q
  <2>1. \A u \in Nat, y \in Nat, k \in Nat, e \in Nat \ {0} : u = e * y + k /\ k < e => u \div e = y
    BY DivisionUnique
  <2>2. d \in Nat \ {0} /\ z \in Nat /\ z < d
    BY <1>1, <1>6, <1>7
  <2> QED BY <1>8, <1>9, <2>1, <2>2, Zenon
<1> QED BY <1>6, <1>10

\* The remainders of the limbs of x, from the top one down.
Rests(f, x, d) ==
    f[0] = 0 /\ \A k \in Nat : f[k] \in Nat /\ f[k + 1] = (f[k] * Base + At(Reverse(x), k)) % d

\* The rests of a long division by one word.
LEMMA RestsRule ==
    ASSUME NEW x \in Seq(Limb), NEW d \in Nat \ {0}, NEW pick,
           pick = CHOOSE f : f = [k \in Nat |-> IF k = 0 THEN 0
                                                ELSE (f[k - 1] * Base + At(Reverse(x), k - 1)) % d]
    PROVE  Rests(pick, x, d)
<1> DEFINE step(s, k) == (s * Base + At(Reverse(x), k - 1)) % d
           Rule(f) == f = [k \in Nat |-> IF k = 0 THEN 0 ELSE step(f[k - 1], k)]
           g == [q \in Nat \X Nat |-> IF q[1] = 0 THEN 0 ELSE step(q[2], q[1])]
<1>1. pick = CHOOSE f : Rule(f)
  OBVIOUS
<1>2. Reverse(x) \in Seq(Limb)
  <2>1. PICK n \in Nat : n = Len(x)
    OBVIOUS
  <2>2. Reverse(x) = [i \in 1 .. n |-> x[(n - i) + 1]]
    BY <2>1 DEF Reverse
  <2>3. \A i \in 1 .. n : (n - i) + 1 \in 1 .. n
    OBVIOUS
  <2>4. \A i \in 1 .. n : x[(n - i) + 1] \in Limb
    BY <2>1, <2>3
  <2> QED BY <2>2, <2>4
<1>3. \A k \in Nat, s \in Nat : k # 0 => step(s, k) \in Nat
  <2> TAKE k \in Nat, s \in Nat
  <2> HAVE k # 0
  <2>1. k - 1 \in Nat
    OBVIOUS
  <2>2. PICK j \in Nat : j = k - 1
    BY <2>1
  <2>3. PICK e \in Nat : e = At(Reverse(x), j)
    BY <1>2, LimbsAreIntegers
  <2>4. Base \in Nat
    BY BaseRule
  <2>5. s * Base + e \in Nat
    BY <2>3, <2>4
  <2>6. (s * Base + e) % d \in Nat
    BY <2>5, Division
  <2> QED BY <2>2, <2>3, <2>6
<1>4. \A k \in Nat, s \in Nat : k # 0 => k - 1 \in Nat /\ g[<<k, s>>] = step(s, k)
  <2> HIDE DEF step
  <2> QED OBVIOUS
<1>5. g \in [Nat \X Nat -> Nat]
  <2>1. ASSUME NEW q \in Nat \X Nat PROVE g[q] \in Nat
    <3> HIDE DEF step
    <3>1. q[1] \in Nat /\ q[2] \in Nat
      OBVIOUS
    <3>2. q[1] # 0 => step(q[2], q[1]) \in Nat
      BY <1>3, <3>1
    <3> QED BY <3>2
  <2> HIDE DEF step
  <2> QED BY <2>1
<1> HIDE DEF g, step
<1>6. PICK f : f \in [Nat -> Nat] /\ f = [k \in Nat |-> IF k = 0 THEN 0 ELSE g[<<k, f[k - 1]>>]]
  <2>1. PICK z, S : z = 0 /\ S = Nat
    OBVIOUS
  <2>2. z \in S /\ g \in [Nat \X S -> S]
    BY <1>5, <2>1
  <2>3. PICK f : StepsFrom(f, S, z, g)
    BY <2>2, Recursion
  <2> QED BY ZenonT(40), <2>1, <2>3 DEF StepsFrom
<1>7. Rule(f)
  <2>1. \A k \in Nat : f[k] = IF k = 0 THEN 0 ELSE step(f[k - 1], k)
    <3>1. \A k \in Nat : k # 0 => k - 1 \in Nat /\ f[k - 1] \in Nat
      BY <1>6
    <3> QED BY <1>4, <1>6, <3>1
  <2>2. f = [k \in Nat |-> f[k]]
    BY <1>6
  <2> QED BY <2>1, <2>2
<1>8. Rule(pick)
  <2> HIDE DEF Rule
  <2> QED BY <1>1, <1>7
<1>9. pick[0] = 0 /\ \A k \in Nat : pick[k + 1] = step(pick[k], k + 1)
  <2>1. \A k \in Nat : pick[k] = IF k = 0 THEN 0 ELSE step(pick[k - 1], k)
    BY <1>8
  <2>2. \A k \in Nat : k + 1 \in Nat /\ k + 1 # 0 /\ (k + 1) - 1 = k
    OBVIOUS
  <2> QED BY <2>1, <2>2
<1> HIDE DEF Rule
<1>10. \A k \in Nat : pick[k] \in Nat
  <2>1. \A k \in Nat : pick[k] \in Nat => pick[k + 1] \in Nat
    <3> TAKE k \in Nat
    <3> HAVE pick[k] \in Nat
    <3>1. PICK j, s : j = k + 1 /\ s = pick[k] /\ j \in Nat /\ s \in Nat /\ j # 0
      <4>1. PICK j : j = k + 1 /\ j \in Nat /\ j # 0
        OBVIOUS
      <4>2. PICK s : s = pick[k] /\ s \in Nat
        OBVIOUS
      <4> QED BY <4>1, <4>2
    <3>2. step(s, j) \in Nat
      BY <1>3, <3>1
    <3>3. pick[k + 1] = step(pick[k], k + 1)
      BY <1>9
    <3> QED BY <3>1, <3>2, <3>3
  <2>2. PICK S : S = Nat
    OBVIOUS
  <2>3. pick[0] \in S /\ \A k \in Nat : pick[k] \in S => pick[k + 1] \in S
    BY <1>9, <2>1, <2>2
  <2>4. \A k \in Nat : pick[k] \in S
    BY <2>3, StaysWithin
  <2> QED BY <2>2, <2>4
<1>11. \A k \in Nat : pick[k + 1] = (pick[k] * Base + At(Reverse(x), k)) % d
  <2> TAKE k \in Nat
  <2>1. (k + 1) - 1 = k
    OBVIOUS
  <2>2. pick[k + 1] = step(pick[k], k + 1)
    BY <1>9
  <2> QED BY <2>1, <2>2 DEF step
<1> QED BY <1>9, <1>10, <1>11 DEF Rests

(* What is below B divisors divides into a digit below B.                  *)
LEMMA DigitBelow ==
    ASSUME NEW r \in Nat, NEW B \in Nat, NEW p \in Nat, NEW d \in Nat \ {0}, r < d, p < B,
           NEW m, m = r * B + p
    PROVE  m \in Nat /\ m \div d \in 0 .. B - 1 /\ m % d \in 0 .. d - 1 /\ m = d * (m \div d) + (m % d)
<1>1. m \in Nat
  OBVIOUS
<1>2. PICK k \in Nat, e \in 0 .. d - 1 : m = d * k + e /\ k = m \div d /\ e = m % d
  BY <1>1, Division
<1>3. m < d * B
  <2>1. \A a \in Nat : \A b, f, q \in Nat : f = a + 1 /\ q < b => a * b + q < f * b
    <3> TAKE a \in Nat
    <3> TAKE b, f, q \in Nat
    <3> HAVE f = a + 1 /\ q < b
    <3>1. f * b = a * b + b
      OBVIOUS
    <3>2. PICK u \in Nat : u = a * b
      OBVIOUS
    <3> QED BY <3>1, <3>2
  <2>2. PICK f \in Nat : f = r + 1 /\ f <= d
    OBVIOUS
  <2>3. r * B + p < f * B
    BY <2>1, <2>2
  <2>4. f * B <= d * B
    <3>1. PICK g \in Nat : d = f + g
      <4>1. d - f \in Nat /\ d = f + (d - f)
        BY <2>2
      <4> QED BY <4>1
    <3>2. d * B = f * B + g * B
      BY <3>1
    <3>3. PICK u \in Nat, v \in Nat : u = f * B /\ v = g * B
      OBVIOUS
    <3> QED BY <3>2, <3>3
  <2>5. PICK u \in Nat, v \in Nat : u = f * B /\ v = d * B
    OBVIOUS
  <2> QED BY <2>3, <2>4, <2>5
<1>4. k < B
  <2>1. CASE k >= B
    <3>1. PICK g \in Nat : k = B + g
      <4>1. k - B \in Nat /\ k = B + (k - B)
        BY <2>1
      <4> QED BY <4>1
    <3>2. d * k = d * B + d * g
      BY <3>1
    <3>3. PICK u \in Nat, v \in Nat : u = d * B /\ v = d * g
      OBVIOUS
    <3> QED BY <1>2, <1>3, <3>2, <3>3
  <2> QED BY <2>1
<1>5. k \in 0 .. B - 1 /\ m = d * k + e
  BY <1>2, <1>4
<1> QED BY <1>1, <1>2, <1>5, Zenon

\* The quotient's limbs w, from remainders f of the limbs of x.
Divided(w, f, x, d, n) ==
    /\ x \in Seq(Limb) /\ n = Len(x) /\ n \in Nat /\ d \in Limb /\ d # 0 /\ Rests(f, x, d)
    /\ w = [i \in 1 .. n |-> (f[n - i] * Base + x[i]) \div d]

\* The quotient limbs of a division by one word.
LEMMA DividedRule ==
    ASSUME NEW w, NEW f, NEW x, NEW d, NEW n, Divided(w, f, x, d, n)
    PROVE  w \in Seq(Limb) /\ Len(w) = n /\ WordsValue(w) = WordsValue(x) \div d
<1>1. /\ x \in Seq(Limb) /\ n = Len(x) /\ n \in Nat /\ d \in Limb /\ d # 0 /\ Rests(f, x, d)
      /\ w = [i \in 1 .. n |-> (f[n - i] * Base + x[i]) \div d]
  BY DEF Divided
<1>2. d \in Nat \ {0} /\ Base \in Nat /\ Base >= 2
  BY <1>1, BaseRule DEF Limb
<1>3. f[0] = 0 /\ \A k \in Nat : f[k] \in Nat /\ f[k + 1] = (f[k] * Base + At(Reverse(x), k)) % d
  BY <1>1 DEF Rests
<1>4. PICK p : p = Places(x) /\ p \in [Nat -> Nat]
               /\ \A i \in Nat : p[i] = At(x, i) /\ p[i] \in 0 .. Base - 1
  <2>1. x \in Seq(Int) /\ \A k \in Nat : At(x, k) \in Limb /\ At(x, k) \in Nat
    BY <1>1, LimbsAreIntegers
  <2>2. Places(x) = [i \in Nat |-> At(x, i)]
    BY DEF Places
  <2> QED BY <2>1, <2>2 DEF Limb
<1>5. \A i \in Nat : i < n => At(Reverse(x), n - (i + 1)) = p[i]
  <2> TAKE i \in Nat
  <2> HAVE i < n
  <2>1. PICK y : y = Reverse(x) /\ y = [j \in 1 .. n |-> x[(n - j) + 1]]
    BY <1>1 DEF Reverse
  <2>2. Len(y) = n
    BY <1>1, <2>1
  <2>3. PICK j \in Nat : j = n - (i + 1) /\ j < n /\ (n - (j + 1)) + 1 = i + 1 /\ j + 1 \in 1 .. n
    <3>1. n - (i + 1) \in Nat /\ n - (i + 1) < n /\ (n - ((n - (i + 1)) + 1)) + 1 = i + 1
          /\ (n - (i + 1)) + 1 \in 1 .. n
      BY <1>1
    <3> QED BY <3>1
  <2>4. At(y, j) = y[j + 1]
    BY <2>2, <2>3 DEF At
  <2>5. y[j + 1] = x[i + 1]
    BY <2>1, <2>3
  <2>6. At(x, i) = x[i + 1]
    BY <1>1 DEF At
  <2> QED BY <1>4, <2>1, <2>3, <2>4, <2>5, <2>6
<1>6. \A k \in Nat : f[k] < d
  <2> TAKE k \in Nat
  <2>1. CASE k = 0
    BY <1>2, <1>3, <2>1
  <2>2. CASE k # 0
    <3>1. PICK j \in Nat : k = j + 1
      <4>1. k - 1 \in Nat /\ k = (k - 1) + 1
        BY <2>2
      <4> QED BY <4>1
    <3>2. PICK e \in Nat : e = At(Reverse(x), j)
      <4>1. Reverse(x) \in Seq(Limb)
        <5>1. PICK y : y = Reverse(x) /\ y = [i \in 1 .. n |-> x[(n - i) + 1]]
          BY <1>1 DEF Reverse
        <5>2. \A i \in 1 .. n : (n - i) + 1 \in 1 .. n
          BY <1>1
        <5>3. \A i \in 1 .. n : x[(n - i) + 1] \in Limb
          BY <1>1, <5>2
        <5> QED BY <1>1, <5>1, <5>3
      <4> QED BY <4>1, LimbsAreIntegers
    <3>3. f[j + 1] = (f[j] * Base + e) % d /\ f[j] \in Nat
      BY <1>3, <3>2
    <3>4. PICK m \in Nat : m = f[j] * Base + e
      BY <1>2, <3>2, <3>3
    <3>5. m % d \in 0 .. d - 1
      BY <1>2, <3>4, Division
    <3> QED BY <1>2, <3>1, <3>3, <3>4, <3>5
  <2> QED BY <2>1, <2>2
<1>7. PICK r : r = [i \in Nat |-> IF i <= n THEN f[n - i] ELSE 0]
  OBVIOUS
<1>8. PICK q : q = [i \in Nat |-> IF i < n THEN (r[i + 1] * Base + p[i]) \div d ELSE 0]
  OBVIOUS
<1>9. /\ \A i \in Nat : r[i] \in Nat /\ r[i] < d
      /\ r \in [Nat -> Nat] /\ r[n] = 0
  <2>1. \A i \in Nat : i <= n => n - i \in Nat
    BY <1>1
  <2>2. \A i \in Nat : r[i] \in Nat /\ r[i] < d
    BY <1>2, <1>3, <1>6, <1>7, <2>1
  <2>3. r[n] = 0
    <3>1. n - n = 0
      BY <1>1
    <3> QED BY <1>1, <1>3, <1>7, <3>1
  <2> QED BY <1>7, <2>2, <2>3
<1>10. ASSUME NEW i \in Nat, i < n
       PROVE  /\ q[i] \in Limb
              /\ r[i + 1] * Base + p[i] = d * q[i] + r[i]
              /\ w[i + 1] = q[i]
  <2>1. PICK a \in Nat, b \in Nat, j \in Nat : a = r[i + 1] /\ b = p[i] /\ a < d /\ b < Base /\ j = n - (i + 1)
    <3>1. i + 1 \in Nat /\ n - (i + 1) \in Nat
      BY <1>1, <1>10
    <3> QED BY <1>2, <1>4, <1>9, <3>1
  <2>2. a = f[j] /\ f[j + 1] = r[i] /\ At(Reverse(x), j) = b
    <3>1. i + 1 \in Nat /\ i + 1 <= n /\ i <= n /\ j + 1 = n - i
      BY <1>1, <1>10, <2>1
    <3>2. r[i + 1] = f[n - (i + 1)] /\ r[i] = f[n - i]
      BY <1>7, <3>1
    <3> QED BY <1>5, <1>10, <2>1, <3>1, <3>2
  <2>3. PICK m : m = a * Base + b
    OBVIOUS
  <2>4. r[i] = m % d /\ q[i] = m \div d
    <3>1. r[i] = (a * Base + b) % d
      BY <1>3, <2>1, <2>2
    <3>2. q[i] = (a * Base + b) \div d
      BY <1>8, <1>10, <2>1
    <3> QED BY <2>3, <3>1, <3>2
  <2>5. m \in Nat /\ m \div d \in 0 .. Base - 1 /\ m = d * (m \div d) + (m % d)
    BY <1>2, <2>1, <2>3, DigitBelow
  <2>6. w[i + 1] = q[i]
    <3>1. i + 1 \in 1 .. n
      BY <1>1, <1>10
    <3>2. w[i + 1] = (f[n - (i + 1)] * Base + x[i + 1]) \div d
      BY <1>1, <3>1
    <3>3. p[i] = x[i + 1]
      <4>1. At(x, i) = x[i + 1]
        BY <1>1, <1>10 DEF At
      <4> QED BY <1>4, <4>1
    <3>4. w[i + 1] = m \div d
      BY <2>1, <2>2, <2>3, <3>2, <3>3
    <3> QED BY <2>4, <3>4
  <2>7. r[i + 1] * Base + p[i] = d * q[i] + r[i]
    BY <2>1, <2>3, <2>4, <2>5
  <2>8. q[i] \in Limb
    BY <2>4, <2>5 DEF Limb
  <2> QED BY <2>6, <2>7, <2>8
<1>11. q \in [Nat -> Nat]
  <2>1. \A i \in Nat : q[i] \in Nat
    <3> TAKE i \in Nat
    <3>1. CASE i < n
      BY <1>2, <1>10, <3>1 DEF Limb
    <3>2. CASE ~(i < n)
      BY <1>8, <3>2
    <3> QED BY <3>1, <3>2
  <2>2. q = [i \in Nat |-> q[i]]
    BY <1>8
  <2> QED BY <2>1, <2>2
<1>12. Quotients(p, q, r, d, n)
  <2>1. r[0] < d
    BY <1>9
  <2> QED BY <1>1, <1>2, <1>4, <1>9, <1>10, <1>11, <2>1 DEF Quotients
<1>13. Value(q, n) = Value(p, n) \div d
  BY <1>12, LongQuotient
<1>14. w \in Seq(Limb) /\ Len(w) = n /\ WordsValue(w) = Value(q, n)
  <2>1. \A k \in 0 .. n - 1 : q[k] \in Limb
    BY <1>1, <1>10
  <2>2. w = [i \in 1 .. n |-> q[i - 1]]
    <3>1. \A i \in 1 .. n : w[i] = q[i - 1]
      <4> TAKE i \in 1 .. n
      <4>1. PICK j \in Nat : i = j + 1 /\ j < n /\ i - 1 = j
        <5>1. i - 1 \in Nat /\ i = (i - 1) + 1 /\ i - 1 < n
          BY <1>1
        <5> QED BY <5>1
      <4> QED BY <1>10, <4>1
    <3> QED BY <1>1, <3>1
  <2>3. q \in [Nat -> Int]
    BY <1>11
  <2>4. \A z : z = [i \in 1 .. n |-> q[i - 1]]
                => z \in Seq(Limb) /\ Len(z) = n /\ WordsValue(z) = Value(q, n)
    BY <1>1, <2>1, <2>3, WordsFromPlaces
  <2> QED BY <2>2, <2>4
<1>15. Value(p, n) = WordsValue(x)
  <2>1. x \in Seq(Int)
    BY <1>1, LimbsAreIntegers
  <2>2. n >= Len(x)
    BY <1>1
  <2> QED BY <1>1, <1>4, <2>1, <2>2, ValueBeyond
<1> QED BY <1>13, <1>14, <1>15

\* The low n limbs of register a as the readers of a fixed width take them.
LowOf(a, w, v, n) ==
    /\ w = Lowest(a, n) /\ w \in Seq(Limb) /\ Len(w) = n
    /\ v \in Nat /\ v = WordsValue(w) /\ v = value[a] % PowerOf(Base, n)

-----------------------------------------------------------------------------
(* Bytes.                                                                  *)

\* p has n places at most that are not zero.
Ends0(p, n) == p \in [Nat -> Int] /\ n \in Nat /\ \A k \in Nat : k >= n => p[k] = 0

(* Places of zero on top do not count, in any radix.                       *)
LEMMA PlacesBeyond ==
    ASSUME NEW radix \in Nat \ {0}, NEW p, NEW n, Ends0(p, n), NEW m \in Nat, m >= n
    PROVE  PlacesValue(p, m, radix) = PlacesValue(p, n, radix)
<1>1. p \in [Nat -> Int] /\ n \in Nat /\ \A k \in Nat : k >= n => p[k] = 0
  BY DEF Ends0
<1> DEFINE V(k) == PlacesValue(p, k, radix)
           T == {k \in Nat : V(n + k) = V(n)}
<1>2. \A k \in Nat : /\ V(k) \in Int /\ PowerOf(radix, k) \in Nat
                     /\ V(k + 1) = V(k) + p[k] * PowerOf(radix, k)
  BY <1>1, PlacesRule, PowerRule
<1> HIDE DEF V
<1>3. 0 \in T
  <2>1. n + 0 = n
    BY <1>1
  <2> QED BY <2>1
<1>4. ASSUME NEW k \in Nat, k \in T PROVE k + 1 \in T
  <2>1. PICK j \in Nat : j = n + k /\ j >= n /\ j + 1 = n + (k + 1)
    BY <1>1
  <2>2. p[j] = 0 /\ V(j) = V(n) /\ V(j) \in Int
    BY <1>1, <1>2, <1>4, <2>1
  <2>3. V(j + 1) = V(j) + 0 * PowerOf(radix, j) /\ PowerOf(radix, j) \in Nat
    BY <1>2, <2>2
  <2>4. V(j + 1) = V(j)
    BY <2>2, <2>3
  <2> QED BY <2>1, <2>2, <2>4
<1>5. PICK k \in Nat : m = n + k
  <2>1. m - n \in Nat /\ m = n + (m - n)
    BY <1>1
  <2> QED BY <2>1
<1>6. k \in T
  <2> HIDE DEF T
  <2> QED BY <1>3, <1>4, SetInduction
<1> QED BY <1>5, <1>6 DEF V

\* p are the places of bytes, the least significant first, n of them at most.
BytePlaces(p, n) ==
    /\ p \in [Nat -> Int] /\ n \in Nat
    /\ \A k \in Nat : p[k] \in 0 .. ByteRadix - 1
    /\ \A k \in Nat : k >= n => p[k] = 0

\* l are the limbs that those bytes fill.
FilledLimbs(l, p) ==
    /\ l = [i \in Nat |-> l[i]]
    /\ \A i \in Nat : l[i] = PlacesValue([j \in Nat |-> p[i * BytesPerLimb + j]], BytesPerLimb, ByteRadix)

\* Bytes filled into limbs keep their places.
LEMMA FilledRule ==
    ASSUME NEW p, NEW n, BytePlaces(p, n), NEW l, FilledLimbs(l, p)
    PROVE  /\ l \in [Nat -> Int] /\ \A i \in Nat : l[i] \in Limb
           /\ \A i \in Nat : i * BytesPerLimb >= n => l[i] = 0
           /\ \A k \in Nat : Value(l, k) = PlacesValue(p, BytesPerLimb * k, ByteRadix)
<1>1. /\ p \in [Nat -> Int] /\ n \in Nat
      /\ \A k \in Nat : p[k] \in 0 .. ByteRadix - 1
      /\ \A k \in Nat : k >= n => p[k] = 0
  BY DEF BytePlaces
<1>2. PICK R \in Nat \ {0}, B \in Nat \ {0} : R = ByteRadix /\ B = BytesPerLimb
  BY BaseRule, LimbBitsAssumption
<1>3. ASSUME NEW i \in Nat
      PROVE  \E q \in [Nat -> Int], m \in Nat :
               /\ m = i * B /\ Above(q, p, m, B) /\ l[i] = PlacesValue(q, B, R)
               /\ \A k \in 0 .. B - 1 : q[k] \in 0 .. R - 1
               /\ m >= n => \A k \in Nat : q[k] = 0
  <2>1. PICK m \in Nat : m = i * B
    OBVIOUS
  <2>2. PICK q : q = [j \in Nat |-> p[m + j]]
    OBVIOUS
  <2>3. \A j \in Nat : m + j \in Nat /\ q[j] = p[m + j] /\ q[j] \in 0 .. R - 1 /\ (m >= n => q[j] = 0)
    <3>1. \A j \in Nat : m + j \in Nat /\ (m >= n => m + j >= n)
      BY <1>1
    <3> QED BY <1>1, <1>2, <2>2, <3>1
  <2>4. q \in [Nat -> Int]
    <3>1. \A j \in Nat : q[j] \in Int
      BY <1>2, <2>3
    <3> QED BY <2>2, <3>1
  <2>5. Above(q, p, m, B)
    BY <2>3 DEF Above
  <2>6. l[i] = PlacesValue(q, B, R)
    <3>1. q = [j \in Nat |-> p[i * BytesPerLimb + j]]
      BY <1>2, <2>1, <2>2
    <3> QED BY <1>2, <3>1 DEF FilledLimbs
  <2> QED BY <2>1, <2>3, <2>4, <2>5, <2>6
<1>4. \A i \in Nat : l[i] \in Limb
  <2> TAKE i \in Nat
  <2>1. PICK q \in [Nat -> Int] : l[i] = PlacesValue(q, B, R) /\ \A k \in 0 .. B - 1 : q[k] \in 0 .. R - 1
    BY <1>3
  <2>2. PlacesValue(q, B, R) \in 0 .. PowerOf(R, B) - 1
    BY <2>1, PlacesBound
  <2>3. Base = PowerOf(R, B)
    BY <1>2, BaseRule
  <2> QED BY <2>1, <2>2, <2>3 DEF Limb
<1>5. \A i \in Nat : i * BytesPerLimb >= n => l[i] = 0
  <2> TAKE i \in Nat
  <2> HAVE i * BytesPerLimb >= n
  <2>1. PICK q \in [Nat -> Int] : l[i] = PlacesValue(q, B, R) /\ \A k \in Nat : q[k] = 0
    <3>1. PICK q \in [Nat -> Int], m \in Nat : m = i * B /\ l[i] = PlacesValue(q, B, R)
                                              /\ (m >= n => \A k \in Nat : q[k] = 0)
      BY <1>3
    <3>2. m >= n
      BY <1>2, <3>1
    <3> QED BY <3>1, <3>2
  <2>2. PICK z \in Nat : z = 0
    OBVIOUS
  <2>3. Ends0(q, z) /\ B >= z
    BY <2>1, <2>2 DEF Ends0
  <2>4. PlacesValue(q, B, R) = PlacesValue(q, z, R)
    BY <2>3, PlacesBeyond
  <2>5. PlacesValue(q, z, R) = 0
    BY <2>2, PlacesRule
  <2> QED BY <2>1, <2>4, <2>5
<1>6. l \in [Nat -> Int]
  <2>1. Limb \subseteq Int
    BY BaseRule DEF Limb
  <2>2. l = [i \in Nat |-> l[i]]
    BY DEF FilledLimbs
  <2> QED BY <1>4, <2>1, <2>2
<1> DEFINE T == {k \in Nat : Value(l, k) = PlacesValue(p, B * k, R)}
<1>7. 0 \in T
  <2>1. Value(l, 0) = 0 /\ PlacesValue(p, 0, R) = 0
    BY <1>1, <1>6, ValueRule, PlacesRule
  <2>2. B * 0 = 0
    OBVIOUS
  <2> QED BY <2>1, <2>2
<1>8. ASSUME NEW k \in Nat, k \in T PROVE k + 1 \in T
  <2>1. PICK q \in [Nat -> Int], m \in Nat : m = k * B /\ Above(q, p, m, B) /\ l[k] = PlacesValue(q, B, R)
    BY <1>3
  <2>2. PlacesValue(p, m + B, R) = PlacesValue(p, m, R) + PowerOf(R, m) * PlacesValue(q, B, R)
    BY SMTT(20), <1>1, <2>1, PlacesSplit
  <2>3. Value(l, k + 1) = Value(l, k) + l[k] * Weight(k)
    BY <1>6, ValueRule
  <2>4. B * k = m /\ B * (k + 1) = m + B
    BY <2>1
  <2>5. Weight(k) = PowerOf(R, m)
    <3>1. PowerOf(PowerOf(R, B), k) = PowerOf(R, B * k)
      BY PowerOfPower
    <3>2. Base = PowerOf(R, B)
      BY <1>2, BaseRule
    <3> QED BY <2>4, <3>1, <3>2 DEF Weight
  <2>6. Value(l, k) = PlacesValue(p, m, R)
    BY <1>8, <2>4
  <2>7. l[k] \in Int /\ Weight(k) \in Int
    <3>1. l[k] \in Int
      BY <1>6
    <3>2. Weight(k) \in Nat
      BY WeightRule
    <3> QED BY <3>1, <3>2
  <2>8. PICK a \in Int, b \in Int : a = l[k] /\ b = Weight(k) /\ a * b = b * a
    BY <2>7
  <2>9. Value(l, k + 1) = PlacesValue(p, m + B, R)
    BY <2>1, <2>2, <2>3, <2>5, <2>6, <2>8
  <2> QED BY <2>4, <2>9
<1>9. \A k \in Nat : k \in T
  <2> HIDE DEF T
  <2> QED BY <1>7, <1>8, SetInduction
<1> QED BY <1>2, <1>4, <1>5, <1>6, <1>9

(* Limbs filled from bytes are the number the bytes spell.                 *)
LEMMA BytesRule ==
    ASSUME NEW bytes \in Seq(Byte), NEW n \in Nat, Len(bytes) <= n * BytesPerLimb
    PROVE  \E w : /\ w = WordsOfBytes(bytes, n) /\ w \in Seq(Limb) /\ Len(w) = n
                  /\ WordsValue(w) = Positional(bytes, ByteRadix)
                  /\ \A i \in Nat : i > 0 /\ i <= n /\ (i - 1) * BytesPerLimb >= Len(bytes) => w[i] = 0
<1>1. PICK k \in Nat : k = Len(bytes)
  OBVIOUS
<1>2. PICK p : p = Places(bytes) /\ BytePlaces(p, k) /\ \A i \in Nat : p[i] = At(bytes, i)
  <2>1. PICK p : p = Places(bytes) /\ p = [i \in Nat |-> At(bytes, i)]
    BY DEF Places
  <2>2. \A i \in Nat : At(bytes, i) \in 0 .. ByteRadix - 1 /\ (i >= k => At(bytes, i) = 0)
    <3>1. 0 \in 0 .. ByteRadix - 1
      BY BaseRule
    <3>2. \A i \in Nat : i < k => bytes[i + 1] \in 0 .. ByteRadix - 1
      <4>1. \A i \in Nat : i < k => i + 1 \in 1 .. k
        OBVIOUS
      <4>2. \A i \in 1 .. k : bytes[i] \in Byte
        BY <1>1
      <4> QED BY <4>1, <4>2 DEF Byte
    <3> QED BY <1>1, <3>1, <3>2 DEF At
  <2>3. p \in [Nat -> Int]
    BY <2>1, <2>2
  <2> QED BY <1>1, <2>1, <2>2, <2>3 DEF BytePlaces
<1>3. PICK l : l = [i \in Nat |-> PlacesValue([j \in Nat |-> p[i * BytesPerLimb + j]], BytesPerLimb, ByteRadix)]
  OBVIOUS
<1>4. FilledLimbs(l, p)
  BY <1>3 DEF FilledLimbs
<1>5. /\ l \in [Nat -> Int] /\ \A i \in Nat : l[i] \in Limb
      /\ \A i \in Nat : i * BytesPerLimb >= k => l[i] = 0
      /\ \A m \in Nat : Value(l, m) = PlacesValue(p, BytesPerLimb * m, ByteRadix)
  BY <1>2, <1>4, FilledRule
<1>6. PICK w : w = WordsOfBytes(bytes, n) /\ w = [i \in 1 .. n |-> l[i - 1]]
  <2>1. \A i \in 1 .. n : [j \in Nat |-> At(bytes, (i - 1) * BytesPerLimb + j)]
                             = [j \in Nat |-> p[(i - 1) * BytesPerLimb + j]]
    <3> TAKE i \in 1 .. n
    <3>1. PICK m \in Nat : m = (i - 1) * BytesPerLimb
      <4>1. i - 1 \in Nat /\ BytesPerLimb \in Nat
        BY LimbBitsAssumption
      <4>2. \A x, y \in Nat : x * y \in Nat
        OBVIOUS
      <4> QED BY <4>1, <4>2
    <3>2. \A j \in Nat : p[m + j] = At(bytes, m + j)
      BY <1>2
    <3> QED BY <3>1, <3>2
  <2>2. \A i \in 1 .. n : l[i - 1] = PlacesValue([j \in Nat |-> p[(i - 1) * BytesPerLimb + j]], BytesPerLimb, ByteRadix)
    <3> TAKE i \in 1 .. n
    <3>1. PICK m \in Nat : m = i - 1
      OBVIOUS
    <3>2. l[m] = PlacesValue([j \in Nat |-> p[m * BytesPerLimb + j]], BytesPerLimb, ByteRadix)
      BY <1>3
    <3> QED BY <3>1, <3>2
  <2>3. WordsOfBytes(bytes, n) = [i \in 1 .. n |-> l[i - 1]]
    <3>1. \A i \in 1 .. n : l[i - 1]
            = PlacesValue([j \in Nat |-> At(bytes, (i - 1) * BytesPerLimb + j)], BytesPerLimb, ByteRadix)
      BY <2>1, <2>2
    <3> QED BY <3>1 DEF WordsOfBytes
  <2> QED BY <2>3
<1>7. w \in Seq(Limb) /\ Len(w) = n /\ WordsValue(w) = Value(l, n)
  <2>1. \A i \in 0 .. n - 1 : l[i] \in Limb
    BY <1>5
  <2>2. \A z : z = [i \in 1 .. n |-> l[i - 1]] => z \in Seq(Limb) /\ Len(z) = n /\ WordsValue(z) = Value(l, n)
    BY <1>5, <2>1, WordsFromPlaces
  <2> QED BY <1>6, <2>2
<1>8. PICK m \in Nat : m = BytesPerLimb * n /\ m >= k
  <2>1. BytesPerLimb \in Nat
    BY LimbBitsAssumption
  <2>2. BytesPerLimb * n = n * BytesPerLimb /\ BytesPerLimb * n \in Nat
    BY <2>1
  <2> QED BY <1>1, <2>2
<1>9. PlacesValue(p, m, ByteRadix) = PlacesValue(p, k, ByteRadix)
  <2>1. Ends0(p, k)
    BY <1>2 DEF BytePlaces, Ends0
  <2>2. PICK R \in Nat \ {0} : R = ByteRadix
    BY BaseRule
  <2>3. PlacesValue(p, m, R) = PlacesValue(p, k, R)
    BY <1>8, <2>1, PlacesBeyond
  <2> QED BY <2>2, <2>3
<1>10. Positional(bytes, ByteRadix) = PlacesValue(p, k, ByteRadix)
  BY <1>1, <1>2 DEF Positional
<1>11. WordsValue(w) = Positional(bytes, ByteRadix)
  BY <1>5, <1>7, <1>8, <1>9, <1>10
<1>12. \A i \in Nat : i > 0 /\ i <= n /\ (i - 1) * BytesPerLimb >= Len(bytes) => w[i] = 0
  <2> TAKE i \in Nat
  <2> HAVE i > 0 /\ i <= n /\ (i - 1) * BytesPerLimb >= Len(bytes)
  <2>1. PICK j \in Nat : j = i - 1
    OBVIOUS
  <2>2. l[j] = 0
    BY <1>1, <1>5, <2>1
  <2> QED BY <1>6, <2>1, <2>2
<1> QED BY <1>6, <1>7, <1>11, <1>12

\* Reversing twice changes nothing.
LEMMA ReversedSeq ==
    ASSUME NEW S, NEW x \in Seq(S)
    PROVE  /\ Reverse(x) \in Seq(S) /\ Len(Reverse(x)) = Len(x)
           /\ Reverse(Reverse(x)) = x
<1>1. PICK n \in Nat : n = Len(x)
  OBVIOUS
<1>2. PICK y : y = Reverse(x) /\ y = [i \in 1 .. n |-> x[(n - i) + 1]]
  BY <1>1 DEF Reverse
<1>3. \A i \in 1 .. n : (n - i) + 1 \in 1 .. n /\ (n - ((n - i) + 1)) + 1 = i
  OBVIOUS
<1>4. \A i \in 1 .. n : x[(n - i) + 1] \in S
  BY <1>1, <1>3
<1>5. y \in Seq(S) /\ Len(y) = n
  BY <1>2, <1>4
<1>6. Reverse(y) = [i \in 1 .. n |-> y[(n - i) + 1]]
  BY <1>5 DEF Reverse
<1>7. \A i \in 1 .. n : y[(n - i) + 1] = x[i]
  BY <1>2, <1>3
<1>8. Reverse(y) = [i \in 1 .. n |-> x[i]]
  BY <1>6, <1>7
<1>9. x = [i \in 1 .. n |-> x[i]]
  BY <1>1
<1> QED BY <1>1, <1>2, <1>5, <1>8, <1>9

\* Nor does the byte order, taken and given back.
LEMMA OrderedBytes ==
    ASSUME NEW bytes \in Seq(Byte), NEW big
    PROVE  /\ Ordered(bytes, big) \in Seq(Byte) /\ Len(Ordered(bytes, big)) = Len(bytes)
           /\ Ordered(Ordered(bytes, big), big) = bytes
BY ReversedSeq DEF Ordered

\* The strings of bytes that calls import.
LEMMA ByteStringRule ==
    ASSUME NEW bytes \in ByteStrings
    PROVE  bytes \in Seq(Byte) /\ Len(bytes) <= 2 * BytesPerLimb - 1
<1>1. PICK n \in 0 .. 2 * BytesPerLimb - 1 : bytes \in [1 .. n -> Byte]
  BY DEF ByteStrings
<1>2. n \in Nat /\ n <= 2 * BytesPerLimb - 1
  BY <1>1, LimbBitsAssumption
<1> QED BY <1>1, <1>2

(* As many limbs as some bytes need.                                       *)
LEMMA LimbsForRule ==
    ASSUME NEW k \in Nat
    PROVE  /\ LimbsFor(k) \in Nat /\ k <= LimbsFor(k) * BytesPerLimb
           /\ k <= 2 * BytesPerLimb - 1 => LimbsFor(k) <= 2
<1>1. PICK B \in Nat \ {0} : B = BytesPerLimb
  BY LimbBitsAssumption
<1>2. PICK m \in Nat : m = k + B - 1
  OBVIOUS
<1>3. PICK n \in Nat, r \in 0 .. B - 1 : n = m \div B /\ m = B * n + r
  BY Division
<1>4. LimbsFor(k) = n
  BY <1>1, <1>2, <1>3 DEF LimbsFor
<1>5. PICK t \in Nat : t = B * n /\ t = n * B
  OBVIOUS
<1>6. k <= t
  BY <1>2, <1>3, <1>5
<1>7. ASSUME k <= 2 * B - 1 PROVE n <= 2
  <2>1. CASE n >= 3
    <3>1. PICK j \in Nat : n = 3 + j
      <4>1. n - 3 \in Nat /\ n = 3 + (n - 3)
        BY <2>1
      <4> QED BY <4>1
    <3>2. B * n = 3 * B + B * j
      BY <3>1
    <3>3. PICK u \in Nat : u = B * j
      OBVIOUS
    <3> QED BY <1>2, <1>3, <1>7, <3>2, <3>3
  <2> QED BY <2>1
<1> QED BY <1>1, <1>4, <1>5, <1>6, <1>7

(* The bytes of an array of limbs.                                         *)
LEMMA DigitsOfWords ==
    ASSUME NEW w \in Seq(Limb)
    PROVE  \E p, n : /\ BytePlaces(p, n) /\ \A i \in Nat : p[i] = ByteAt(w, i)
                     /\ PlacesValue(p, n, ByteRadix) = WordsValue(w)
<1>1. PICK R \in Nat \ {0}, B \in Nat \ {0} : R = ByteRadix /\ B = BytesPerLimb
  BY BaseRule, LimbBitsAssumption
<1>2. PICK p : p = [i \in Nat |-> ByteAt(w, i)]
  OBVIOUS
<1>3. ASSUME NEW i \in Nat, NEW j \in Nat, NEW k \in Nat, k < B, i = B * j + k
      PROVE  ByteAt(w, i) = (At(w, j) \div PowerOf(R, k)) % R
  <2>1. i % B = k /\ i \div B = j
    BY <1>3, DivisionUnique
  <2> QED BY <1>1, <2>1 DEF ByteAt
<1>4. ASSUME NEW i \in Nat
      PROVE  \E j \in Nat, k \in Nat : k < B /\ i = B * j + k
  <2>1. i \div B \in Nat /\ i % B \in 0 .. B - 1 /\ i = B * (i \div B) + (i % B)
    BY Division
  <2>2. i % B \in Nat /\ i % B < B
    BY <2>1
  <2> QED BY <2>1, <2>2
<1>5. \A j \in Nat, k \in Nat : (At(w, j) \div PowerOf(R, k)) % R \in 0 .. R - 1
  <2> TAKE j \in Nat, k \in Nat
  <2>1. PICK x \in Nat : x = At(w, j)
    BY LimbsAreIntegers
  <2>2. PICK d \in Nat \ {0} : d = PowerOf(R, k)
    BY PowerRule
  <2>3. PICK y \in Nat : y = x \div d
    BY Division
  <2>4. y % R \in 0 .. R - 1
    BY Division
  <2> QED BY <2>1, <2>2, <2>3, <2>4
<1>6. PICK m \in Nat : m = Len(w)
  OBVIOUS
<1>7. PICK n \in Nat : n = B * m
  OBVIOUS
<1>8. \A i \in Nat : p[i] = ByteAt(w, i) /\ p[i] \in 0 .. R - 1
  <2> TAKE i \in Nat
  <2>1. PICK j \in Nat, k \in Nat : k < B /\ i = B * j + k
    BY <1>4
  <2>2. ByteAt(w, i) = (At(w, j) \div PowerOf(R, k)) % R
    BY <1>3, <2>1
  <2> QED BY <1>2, <1>5, <2>2
<1>9. \A i \in Nat : i >= n => p[i] = 0
  <2> TAKE i \in Nat
  <2> HAVE i >= n
  <2>1. PICK j \in Nat, k \in Nat : k < B /\ i = B * j + k
    BY <1>4
  <2>2. j >= m
    <3>1. CASE j < m
      <4>1. PICK d \in Nat : m = (j + 1) + d
        <5>1. m - (j + 1) \in Nat /\ m = (j + 1) + (m - (j + 1))
          BY <3>1
        <5> QED BY <5>1
      <4>2. B * m = (B * j + B) + B * d
        BY <4>1
      <4>3. PICK u \in Nat, v \in Nat : u = B * j /\ v = B * d
        OBVIOUS
      <4> QED BY <1>7, <2>1, <4>2, <4>3
    <3> QED BY <3>1
  <2>3. At(w, j) = 0
    BY <1>6, <2>2 DEF At
  <2>4. PICK d \in Nat \ {0} : d = PowerOf(R, k)
    BY PowerRule
  <2>5. 0 \div d = 0 /\ 0 % R = 0
    <3>1. \A e \in Nat \ {0} : 0 \div e = 0 /\ 0 % e = 0
      OBVIOUS
    <3> QED BY <3>1
  <2>6. p[i] = (0 \div d) % R
    BY <1>3, <1>8, <2>1, <2>3, <2>4
  <2> QED BY <2>5, <2>6
<1>10. p \in [Nat -> Int]
  BY <1>2, <1>8
<1>11. BytePlaces(p, n)
  BY <1>1, <1>8, <1>9, <1>10 DEF BytePlaces
<1>12. PICK l : l = Places(w) /\ l = [i \in Nat |-> At(w, i)]
  BY DEF Places
<1>13. FilledLimbs(l, p)
  <2>1. ASSUME NEW i \in Nat
        PROVE  l[i] = PlacesValue([j \in Nat |-> p[i * BytesPerLimb + j]], BytesPerLimb, ByteRadix)
    <3>1. PICK t \in Nat : t = i * B /\ t = B * i
      OBVIOUS
    <3>2. PICK q : q = [j \in Nat |-> p[t + j]]
      OBVIOUS
    <3>3. q \in [Nat -> Int]
      <4>1. \A j \in Nat : t + j \in Nat
        OBVIOUS
      <4> QED BY <1>10, <3>2, <4>1
    <3>4. PICK x \in Nat : x = At(w, i) /\ x < Base
      <4>1. At(w, i) \in Limb /\ At(w, i) \in Nat
        BY LimbsAreIntegers
      <4> QED BY <4>1, BaseRule DEF Limb
    <3>5. \A k \in 0 .. B - 1 : q[k] = (x \div PowerOf(R, k)) % R
      <4> TAKE k \in 0 .. B - 1
      <4>1. PICK u \in Nat : u = t + k /\ u = B * i + k /\ k \in Nat /\ k < B
        BY <3>1
      <4>2. ByteAt(w, u) = (At(w, i) \div PowerOf(R, k)) % R
        BY <1>3, <4>1
      <4> QED BY <1>8, <3>2, <3>4, <4>1, <4>2
    <3>6. x = PlacesValue(q, B, R) + PowerOf(R, B) * (x \div PowerOf(R, B))
      BY <3>3, <3>5, PlacesOfDigits
    <3>7. PICK W \in Nat \ {0} : W = PowerOf(R, B) /\ W = Base
      BY <1>1, BaseRule
    <3>8. x \div W = 0
      <4>1. \A W1 \in Nat \ {0} : \A y \in Nat : y < W1 => y \div W1 = 0
        OBVIOUS
      <4> QED BY <3>4, <3>7, <4>1
    <3>9. PlacesValue(q, B, R) \in Int
      BY <3>3, PlacesRule
    <3>10. x = PlacesValue(q, B, R)
      <4>1. PICK y \in Int : y = PlacesValue(q, B, R)
        BY <3>9
      <4>2. x = y + W * 0
        BY <3>6, <3>7, <3>8, <4>1
      <4> QED BY <4>1, <4>2
    <3> QED BY <1>1, <1>12, <3>1, <3>2, <3>4, <3>10
  <2>2. l = [i \in Nat |-> l[i]]
    BY <1>12
  <2> QED BY <2>1, <2>2 DEF FilledLimbs
<1>14. Value(l, m) = PlacesValue(p, BytesPerLimb * m, ByteRadix)
  BY <1>11, <1>13, FilledRule
<1>15. WordsValue(w) = Value(l, m)
  <2>1. w \in Seq(Int)
    BY LimbsAreIntegers
  <2> QED BY <1>6, <1>12, <2>1, PlacesOfWords
<1> QED BY <1>1, <1>7, <1>8, <1>11, <1>14, <1>15

(* The low bytes of a number that fits them.                               *)
LEMMA LowBytes ==
    ASSUME NEW p, NEW n, BytePlaces(p, n), NEW m \in Nat,
           PlacesValue(p, n, ByteRadix) < PowerOf(ByteRadix, m)
    PROVE  PlacesValue(p, m, ByteRadix) = PlacesValue(p, n, ByteRadix)
<1>1. /\ p \in [Nat -> Int] /\ n \in Nat
      /\ \A k \in Nat : p[k] \in 0 .. ByteRadix - 1
      /\ \A k \in Nat : k >= n => p[k] = 0
  BY DEF BytePlaces
<1>2. PICK R \in Nat \ {0} : R = ByteRadix
  BY BaseRule
<1>3. Ends0(p, n)
  BY <1>1 DEF Ends0
<1>4. CASE m >= n
  BY <1>2, <1>3, <1>4, PlacesBeyond
<1>5. CASE m < n
  <2>1. PICK d \in Nat : n = m + d
    <3>1. n - m \in Nat /\ n = m + (n - m)
      BY <1>1, <1>5
    <3> QED BY <3>1
  <2>2. PICK q : q = [j \in Nat |-> p[m + j]]
    OBVIOUS
  <2>3. \A j \in Nat : q[j] = p[m + j] /\ q[j] \in 0 .. R - 1
    <3>1. \A j \in Nat : m + j \in Nat
      OBVIOUS
    <3> QED BY <1>1, <1>2, <2>2, <3>1
  <2>4. q \in [Nat -> Int] /\ Above(q, p, m, d)
    <3>1. \A j \in Nat : q[j] \in Int
      BY <2>3
    <3>2. q \in [Nat -> Int]
      BY <2>2, <3>1
    <3> QED BY <2>3, <3>2 DEF Above
  <2>5. PlacesValue(p, m + d, R) = PlacesValue(p, m, R) + PowerOf(R, m) * PlacesValue(q, d, R)
    BY SMTT(20), <1>1, <2>4, PlacesSplit
  <2>6. PlacesValue(p, m, R) \in 0 .. PowerOf(R, m) - 1 /\ PlacesValue(q, d, R) \in 0 .. PowerOf(R, d) - 1
    <3>1. (\A k \in 0 .. m - 1 : p[k] \in 0 .. R - 1) /\ \A k \in 0 .. d - 1 : q[k] \in 0 .. R - 1
      BY <1>1, <1>2, <2>3
    <3> QED BY <1>1, <2>4, <3>1, PlacesBound
  <2>7. PICK x \in Nat, y \in Nat, u \in Nat \ {0} :
          x = PlacesValue(p, m, R) /\ y = PlacesValue(q, d, R) /\ u = PowerOf(R, m)
    <3>1. PowerOf(R, m) \in Nat \ {0} /\ PowerOf(R, d) \in Nat \ {0}
      BY PowerRule
    <3> QED BY <2>6, <3>1
  <2>8. x + u * y < u
    BY <1>2, <2>1, <2>5, <2>7
  <2>9. \A e, f \in Nat, g \in Nat \ {0} : e + g * f < g => f = 0
    <3> TAKE e, f \in Nat, g \in Nat \ {0}
    <3> HAVE e + g * f < g
    <3>1. f >= 1 => g * f >= g
      OBVIOUS
    <3>2. g * f \in Nat
      OBVIOUS
    <3> QED BY <3>1, <3>2
  <2>10. y = 0
    BY <2>8, <2>9
  <2>11. x + u * y = x
    BY <2>10
  <2> QED BY <1>2, <2>1, <2>5, <2>7, <2>11
<1> QED BY <1>1, <1>4, <1>5

(* A number exported in bytes, with zeros above those that it needs.       *)
LEMMA BytesOut ==
    ASSUME NEW p, NEW k, BytePlaces(p, k), NEW m \in Nat, NEW n \in Nat, m <= n,
           PlacesValue(p, k, ByteRadix) < PowerOf(ByteRadix, m),
           NEW y, y = [i \in 1 .. n |-> IF i <= m THEN p[i - 1] ELSE 0]
    PROVE  y \in Seq(Byte) /\ Positional(y, ByteRadix) = PlacesValue(p, k, ByteRadix)
<1>1. /\ p \in [Nat -> Int] /\ k \in Nat
      /\ \A i \in Nat : p[i] \in 0 .. ByteRadix - 1
  BY DEF BytePlaces
<1>2. PICK R \in Nat \ {0} : R = ByteRadix
  BY BaseRule
<1>3. \A i \in 1 .. n : y[i] \in Byte
  <2>1. \A i \in 1 .. n : i - 1 \in Nat
    OBVIOUS
  <2>2. 0 \in 0 .. R - 1
    OBVIOUS
  <2> QED BY <1>1, <1>2, <2>1, <2>2 DEF Byte
<1>4. y \in Seq(Byte) /\ Len(y) = n
  BY <1>3
<1>5. PICK q : q = Places(y) /\ q = [i \in Nat |-> At(y, i)]
  BY DEF Places
<1>6. \A i \in Nat : q[i] = IF i < m THEN p[i] ELSE 0
  <2> TAKE i \in Nat
  <2>1. CASE i < n
    <3>1. At(y, i) = y[i + 1]
      BY <1>4, <2>1 DEF At
    <3>2. i + 1 \in 1 .. n /\ (i + 1) - 1 = i /\ (i + 1 <= m <=> i < m)
      BY <2>1
    <3> QED BY <1>5, <3>1, <3>2
  <2>2. CASE ~(i < n)
    <3>1. At(y, i) = 0
      BY <1>4, <2>2 DEF At
    <3> QED BY <1>5, <2>2, <3>1
  <2> QED BY <2>1, <2>2
<1>7. q \in [Nat -> Int]
  <2>1. \A i \in Nat : q[i] \in Int
    <3>1. \A i \in Nat : p[i] \in Int
      BY <1>1
    <3> QED BY <1>6, <3>1
  <2>2. q = [i \in Nat |-> q[i]]
    BY <1>5
  <2> QED BY <2>1, <2>2
<1>8. Ends0(q, m)
  BY <1>6, <1>7 DEF Ends0
<1>9. PlacesValue(q, n, R) = PlacesValue(q, m, R)
  BY <1>8, PlacesBeyond
<1>10. PlacesValue(q, m, R) = PlacesValue(p, m, R)
  <2>1. \A i \in 0 .. m - 1 : q[i] = p[i]
    BY <1>6
  <2> QED BY <1>1, <1>7, <2>1, PlacesEqual
<1>11. PlacesValue(p, m, ByteRadix) = PlacesValue(p, k, ByteRadix)
  BY LowBytes
<1>12. Positional(y, ByteRadix) = PlacesValue(q, n, R)
  BY <1>2, <1>4, <1>5 DEF Positional
<1> QED BY <1>2, <1>4, <1>9, <1>10, <1>11, <1>12

-----------------------------------------------------------------------------
(* Bits.                                                                   *)

(* Powers of two. *)
LEMMA TwoPowers ==
    /\ PowerOf(2, 0) = 1
    /\ \A k \in Nat : PowerOf(2, k) \in Nat \ {0} /\ PowerOf(2, k + 1) = 2 * PowerOf(2, k)
<1>1. PICK radix \in Nat \ {0} : radix = 2
  OBVIOUS
<1> QED BY <1>1, PowerRule

(* Powers of two overtake every number.                                    *)
LEMMA PowersOvertake ==
    \A v \in Nat : PowerOf(2, v) > v
<1> DEFINE T == {v \in Nat : PowerOf(2, v) > v}
<1>1. \A k \in Nat : PowerOf(2, k) \in Nat /\ PowerOf(2, k + 1) = 2 * PowerOf(2, k)
  BY PowerRule
<1>2. 0 \in T
  <2>1. PowerOf(2, 0) = 1
    BY PowerRule
  <2> QED BY <2>1
<1>3. ASSUME NEW k \in Nat, k \in T PROVE k + 1 \in T
  <2>1. PICK u \in Nat : u = PowerOf(2, k) /\ u > k /\ PowerOf(2, k + 1) = 2 * u
    BY <1>1, <1>3
  <2> QED BY <2>1
<1>4. \A k \in Nat : k \in T
  <2> HIDE DEF T
  <2> QED BY <1>2, <1>3, SetInduction
<1> QED BY <1>4

(* Larger exponents give larger powers.                                    *)
LEMMA PowersGrow ==
    ASSUME NEW radix \in Nat \ {0}, NEW m \in Nat, NEW k \in Nat, m <= k
    PROVE  PowerOf(radix, m) <= PowerOf(radix, k)
<1>1. PICK d \in Nat : k = m + d
  <2>1. k - m \in Nat /\ k = m + (k - m)
    OBVIOUS
  <2> QED BY <2>1
<1>2. PowerOf(radix, k) = PowerOf(radix, m) * PowerOf(radix, d)
  BY <1>1, PowersMultiply
<1>3. PICK x \in Nat \ {0}, y \in Nat \ {0} : x = PowerOf(radix, m) /\ y = PowerOf(radix, d)
  BY PowerRule
<1>4. x <= x * y
  <2>1. PICK z \in Nat : y = 1 + z
    <3>1. y - 1 \in Nat /\ y = 1 + (y - 1)
      OBVIOUS
    <3> QED BY <3>1
  <2>2. x * y = x + x * z
    BY <2>1
  <2>3. PICK u \in Nat : u = x * z
    OBVIOUS
  <2> QED BY <2>2, <2>3
<1> QED BY <1>2, <1>3, <1>4

(* How many bits a number has.                                             *)
LEMMA BitsOfRule ==
    ASSUME NEW v \in Nat
    PROVE  /\ BitsOf(v) \in Nat /\ v < PowerOf(2, BitsOf(v))
           /\ BitsOf(v) = 0 \/ (BitsOf(v) - 1 \in Nat /\ PowerOf(2, BitsOf(v) - 1) <= v)
<1> DEFINE Bits(k) == PowerOf(2, k) > v /\ (k = 0 \/ PowerOf(2, k - 1) <= v)
           E == {k \in Nat : PowerOf(2, k) > v}
<1>1. v \in E /\ E \subseteq Nat
  BY PowersOvertake
<1>2. PICK k \in E : \A j \in E : k <= j
  BY <1>1, Smallest
<1>3. k \in 0 .. v /\ Bits(k)
  <2>1. k \in Nat /\ k <= v /\ PowerOf(2, k) > v
    BY <1>1, <1>2
  <2>2. CASE k # 0
    <3>1. k - 1 \in Nat /\ k - 1 < k
      BY <2>1, <2>2
    <3>2. PICK j \in Nat : j = k - 1 /\ j < k
      BY <3>1
    <3>3. j \notin E
      BY <1>2, <2>1, <3>2
    <3>4. PowerOf(2, j) \in Nat
      BY TwoPowers
    <3>5. PowerOf(2, j) <= v
      BY <3>3, <3>4
    <3> QED BY <2>1, <3>2, <3>5
  <2> QED BY <2>1, <2>2
<1> HIDE DEF Bits
<1>4. BitsOf(v) = CHOOSE j \in 0 .. v : Bits(j)
  BY DEF BitsOf, Bits
<1>5. BitsOf(v) \in 0 .. v /\ Bits(BitsOf(v))
  BY <1>3, <1>4
<1>6. PICK b : b = BitsOf(v)
  OBVIOUS
<1>7. b \in Nat /\ PowerOf(2, b) > v /\ (b = 0 \/ PowerOf(2, b - 1) <= v)
  BY <1>5, <1>6 DEF Bits
<1>8. b = 0 \/ b - 1 \in Nat
  BY <1>7
<1> QED BY <1>6, <1>7, <1>8

(* As many bytes as the bits of a number need hold it.                     *)
LEMMA BytesNeeded ==
    ASSUME NEW v \in Nat, NEW m, m = (BitsOf(v) + ByteBits - 1) \div ByteBits
    PROVE  m \in Nat /\ v < PowerOf(ByteRadix, m)
<1>1. PICK b \in Nat : b = BitsOf(v) /\ v < PowerOf(2, b)
  BY BitsOfRule
<1>2. PICK w \in Nat \ {0} : w = ByteBits
  BY BaseRule
<1>3. PICK x \in Nat : x = b + w - 1
  OBVIOUS
<1>4. PICK q \in Nat, r \in 0 .. w - 1 : q = x \div w /\ x = w * q + r
  BY Division
<1>5. m = q
  BY <1>1, <1>2, <1>3, <1>4
<1>6. PICK t \in Nat : t = w * q /\ b <= t
  <2>1. PICK t \in Nat : t = w * q
    OBVIOUS
  <2> QED BY <1>3, <1>4, <2>1
<1>7. PowerOf(2, b) <= PowerOf(2, t)
  BY <1>6, PowersGrow
<1>8. PowerOf(ByteRadix, q) = PowerOf(2, t)
  <2>1. PowerOf(PowerOf(2, w), q) = PowerOf(2, w * q)
    BY PowerOfPower
  <2> QED BY <1>2, <1>6, <2>1 DEF ByteRadix
<1>9. PowerOf(2, b) \in Nat /\ PowerOf(2, t) \in Nat
  BY TwoPowers
<1> QED BY <1>1, <1>5, <1>7, <1>8, <1>9

\* d are n bytes whose first is below 2 * h, with the top bit h and with an odd
\* last byte where these are asked for.
MaskedBytes(d, n, h, top, odd) ==
    /\ d \in Seq(Byte) /\ Len(d) = n
    /\ d[1] < 2 * h /\ (top => d[1] >= h)
    /\ odd => d[n] % 2 = 1

(* A byte masked below e = 2 * h, with the bit h set.                      *)
TopMasked(f, x, h, e, R, top) ==
    /\ x \in Nat /\ h \in Nat \ {0} /\ e = 2 * h /\ R \in Nat /\ e <= R
    /\ f = IF top /\ x % e < h THEN (x % e) + h ELSE x % e

\* A masked top byte is below its bound, and has its top bit when asked for.
LEMMA ByteMasked ==
    ASSUME NEW f, NEW x, NEW h, NEW e, NEW R, NEW top, TopMasked(f, x, h, e, R, top)
    PROVE  f \in Nat /\ f < e /\ f < R /\ (top => f >= h)
<1>0. PICK low : /\ low = x % e /\ f = IF top /\ low < h THEN low + h ELSE low
                 /\ x \in Nat /\ h \in Nat \ {0} /\ e = 2 * h /\ R \in Nat /\ e <= R
  BY DEF TopMasked
<1>1. low \in Nat /\ low < e
  <2>1. \A m \in Nat : \A k \in Nat \ {0} : m % k \in Nat /\ m % k < k
    OBVIOUS
  <2>2. PICK k \in Nat \ {0} : k = e
    BY <1>0
  <2> QED BY <1>0, <2>1, <2>2
<1> QED BY <1>0, <1>1

(* A number made odd stays below an even bound.                            *)
LEMMA MadeOdd ==
    ASSUME NEW x \in Nat, NEW h \in Nat \ {0}, NEW y, y = x - (x % 2) + 1
    PROVE  /\ y \in Nat /\ y % 2 = 1 /\ y >= x
           /\ x < 2 * h => y < 2 * h
<1>1. PICK q \in Nat, r \in 0 .. 1 : x = 2 * q + r /\ x % 2 = r
  <2>1. x \div 2 \in Nat /\ x % 2 \in 0 .. 1 /\ x = 2 * (x \div 2) + (x % 2)
    OBVIOUS
  <2> QED BY <2>1
<1>2. y = 2 * q + 1
  BY <1>1
<1> QED BY <1>1, <1>2

\* For so many bits h is the top bit of the first of n bytes.
TopBit(bits, n, u, h, half) ==
    /\ n \in Nat \ {0} /\ u = n * ByteBits - bits
    /\ h \in Nat \ {0} /\ h = PowerOf(2, ByteBits - 1 - u)
    /\ 2 * h = PowerOf(2, ByteBits - u) /\ 2 * h <= ByteRadix
    /\ half \in Nat \ {0} /\ ByteRadix = 2 * half

\* v is the number that bytes d stand for from the last to the first; w is the
\* weight of the first.
Drew(v, r, d, n, h, w, top, odd) ==
    /\ r = Reverse(d) /\ r \in Seq(Byte) /\ Len(r) = n
    /\ v = Positional(r, ByteRadix) /\ v \in Nat
    /\ v < 2 * (h * w) /\ (top => v >= h * w) /\ (odd => v % 2 = 1)

\* What the drawn bytes are worth.
LEMMA DrawnValue ==
    ASSUME NEW n, NEW j \in Nat, n = j + 1, NEW d, NEW h \in Nat \ {0}, NEW top, NEW odd,
           MaskedBytes(d, n, h, top, odd), NEW half \in Nat, ByteRadix = 2 * half,
           NEW w, w = PowerOf(ByteRadix, j)
    PROVE  \E r, v : Drew(v, r, d, n, h, w, top, odd)
<1>1. PICK R \in Nat \ {0} : R = ByteRadix /\ Byte = 0 .. R - 1 /\ R = 2 * half
  BY BaseRule DEF Byte
<1>2. /\ d \in Seq(Byte) /\ Len(d) = n
      /\ d[1] < 2 * h /\ (top => d[1] >= h)
      /\ odd => d[n] % 2 = 1
  BY DEF MaskedBytes
<1>3. PICK r \in Seq(Byte) : r = Reverse(d) /\ Len(r) = n
  BY <1>2, ReversedSeq
<1>4. r[n] = d[1] /\ r[1] = d[n]
  <2>1. r = [i \in 1 .. n |-> d[(n - i) + 1]]
    BY <1>2, <1>3 DEF Reverse
  <2>2. 1 \in 1 .. n /\ n \in 1 .. n /\ (n - 1) + 1 = n /\ (n - n) + 1 = 1
    OBVIOUS
  <2>3. r[n] = d[(n - n) + 1] /\ r[1] = d[(n - 1) + 1]
    BY <2>1, <2>2
  <2> QED BY <2>2, <2>3
<1>5. \A x \in Byte : x \in Int /\ x \in Nat
  BY <1>1
<1>6. r \in Seq(Int) /\ \A i \in 1 .. n : r[i] \in Byte
  BY <1>3, <1>5
<1>7. PICK p \in [Nat -> Int] : p = Places(r)
  BY <1>6, PlacesOfWords
<1>8. \A k \in 0 .. n - 1 : p[k] = r[k + 1]
  BY <1>3, <1>6, <1>7, PlacesOfWords
<1>9. \A k \in 0 .. n - 1 : p[k] \in 0 .. R - 1
  <2>1. \A k \in 0 .. n - 1 : k + 1 \in 1 .. n
    OBVIOUS
  <2> QED BY <1>1, <1>6, <1>8, <2>1
<1>10. PICK x \in Nat : x = p[j] /\ x = d[1]
  <2>1. j \in 0 .. n - 1 /\ j + 1 = n
    OBVIOUS
  <2>2. p[j] = r[n] /\ p[j] \in Nat
    BY <1>8, <1>9, <2>1
  <2> QED BY <1>4, <2>2
<1>a. PICK h2 \in Nat : h2 = 2 * h /\ x < h2 /\ (top => x >= h)
  <2>1. 2 * h \in Nat
    OBVIOUS
  <2> QED BY <1>2, <1>10, <2>1
<1>t. \A a, b \in Nat : a * b \in Nat
  OBVIOUS
<1>11. PICK y \in Nat : y = p[0] /\ y = d[n]
  <2>1. 0 \in 0 .. n - 1 /\ 0 + 1 = 1
    OBVIOUS
  <2>2. p[0] = r[1] /\ p[0] \in Nat
    BY <1>8, <1>9, <2>1
  <2> QED BY <1>4, <2>2
<1>12. w \in Nat \ {0}
  BY <1>1, PowerRule
<1>13. PICK v \in Int : v = PlacesValue(p, n, R) /\ v = Positional(r, ByteRadix)
  <2>1. PlacesValue(p, n, R) \in Int
    BY SMTT(20), PlacesRule
  <2> QED BY <1>1, <1>3, <1>7, <2>1 DEF Positional
<1>14. PICK low \in 0 .. w - 1 : v = low + x * w
  <2>1. PlacesValue(p, n, R) = PlacesValue(p, j, R) + x * w
    BY ZenonT(40), <1>1, <1>10, PlacesRule
  <2>2. \A k \in 0 .. j - 1 : p[k] \in 0 .. R - 1
    BY SMTT(20), <1>9
  <2>3. PlacesValue(p, j, R) \in 0 .. w - 1
    BY <1>1, <2>2, PlacesBound
  <2> QED BY <1>13, <2>1, <2>3
<1>15. v \in Nat /\ v < 2 * (h * w) /\ (top => v >= h * w)
  <2>1. PICK xw \in Nat : xw = x * w
    <3>1. w \in Nat
      BY <1>12
    <3> QED BY <1>t, <3>1, Zenon
  <2>2. PICK hw \in Nat : hw = h * w
    <3>1. w \in Nat /\ h \in Nat
      BY <1>12
    <3> QED BY <1>t, <3>1, Zenon
  <2>3. xw + w <= 2 * hw
    <3>1. PICK t \in Nat : h2 = (x + 1) + t
      <4>1. h2 - (x + 1) \in Nat /\ h2 = (x + 1) + (h2 - (x + 1))
        BY <1>a
      <4> QED BY <4>1
    <3>2. h2 * w = x * w + w + t * w
      <4>1. \A a, b, c \in Nat : ((a + 1) + b) * c = a * c + c + b * c
        OBVIOUS
      <4>2. w \in Nat
        BY <1>12
      <4> QED BY SMTT(20), <3>1, <4>1, <4>2
    <3>3. h2 * w = 2 * hw
      <4>1. \A a, c \in Nat : (2 * a) * c = 2 * (a * c)
        OBVIOUS
      <4>2. w \in Nat /\ h \in Nat
        BY <1>12
      <4> QED BY <1>a, <2>2, <4>1, <4>2
    <3>4. PICK tw \in Nat : tw = t * w
      <4>2. w \in Nat
        BY <1>12
      <4> QED BY <1>t, <4>2, Zenon
    <3>5. 2 * hw = xw + w + tw
      BY <2>1, <3>2, <3>3, <3>4
    <3> QED BY SMTT(20), <1>12, <3>4, <3>5
  <2>4. ASSUME top PROVE xw >= hw
    <3>1. PICK t \in Nat : x = h + t
      <4>1. x - h \in Nat /\ x = h + (x - h)
        BY <1>a, <2>4
      <4> QED BY <4>1
    <3>2. x * w = h * w + t * w
      <4>1. \A a, b, c \in Nat : (a + b) * c = a * c + b * c
        OBVIOUS
      <4>2. w \in Nat /\ h \in Nat
        BY <1>12
      <4> QED BY <3>1, <4>1, <4>2
    <3>3. PICK tw \in Nat : tw = t * w
      <4>2. w \in Nat
        BY <1>12
      <4> QED BY <1>t, <4>2, Zenon
    <3> QED BY <2>1, <2>2, <3>2, <3>3
  <2>5. v = low + xw /\ low \in Nat /\ low < w
    BY <1>12, <1>14, <2>1
  <2>6. v \in Nat /\ v < 2 * hw
    BY <1>12, <2>3, <2>5
  <2>7. xw >= hw => v >= hw
    BY <2>5
  <2>8. top => v >= hw
    BY <2>4, <2>7
  <2> QED BY <2>2, <2>6, <2>8
<1>16. ASSUME odd PROVE v % 2 = 1
  <2>1. PICK q : q = [k \in Nat |-> p[1 + k]]
    OBVIOUS
  <2>2. q \in [Nat -> Int]
    BY <2>1
  <2>4. PICK one \in Nat : one = 1
    OBVIOUS
  <2>3. Above(q, p, one, j)
    BY <2>1, <2>4 DEF Above
  <2>5. PlacesValue(p, one + j, R) = PlacesValue(p, one, R) + PowerOf(R, one) * PlacesValue(q, j, R)
    <3>1. \A m, k \in Nat : Above(q, p, m, k) =>
            PlacesValue(p, m + k, R) = PlacesValue(p, m, R) + PowerOf(R, m) * PlacesValue(q, k, R)
      BY ZenonT(40), <2>2, PlacesSplit
    <3> QED BY <2>3, <2>4, <3>1, Zenon
  <2>6. PlacesValue(p, one, R) = y
    <3>1. PlacesValue(p, 0, R) = 0 /\ PlacesValue(p, 0 + 1, R) = PlacesValue(p, 0, R) + p[0] * PowerOf(R, 0)
      BY PlacesRule
    <3>2. PowerOf(R, 0) = 1
      BY PowerRule
    <3>3. PlacesValue(p, 1, R) = 0 + y * 1
      BY <1>11, <3>1, <3>2
    <3> QED BY <2>4, <3>3
  <2>7. PowerOf(R, one) = R
    <3>1. PowerOf(R, 0) = 1 /\ PowerOf(R, 0 + 1) = R * PowerOf(R, 0)
      BY PowerRule
    <3> QED BY <2>4, <3>1
  <2>8. PICK s \in Int : s = PlacesValue(q, j, R)
    BY <2>2, PlacesRule
  <2>9. n = one + j
    BY <2>4
  <2>10. v = y + R * s
    BY <1>13, <2>5, <2>6, <2>7, <2>8, <2>9
  <2>11. PICK hs \in Int : hs = half * s /\ R * s = 2 * hs
    <3>1. half * s \in Int /\ (2 * half) * s = 2 * (half * s)
      OBVIOUS
    <3> QED BY <1>1, <3>1
  <2>12. v = y + 2 * hs
    BY <2>10, <2>11
  <2>13. y % 2 = 1
    BY <1>2, <1>11, <1>16
  <2> QED BY <2>12, <2>13
<1>17. Drew(v, r, d, n, h, w, top, odd)
  BY <1>3, <1>13, <1>15, <1>16 DEF Drew
<1> QED BY <1>17

(* A quotient rounded up.                                                  *)
Ceiling(m, x, w) == x \in Nat /\ w \in Nat \ {0} /\ m = (x + w - 1) \div w

\* The number of words of w units that x units need.
LEMMA RoundedUp ==
    ASSUME NEW x, NEW w, NEW m, Ceiling(m, x, w)
    PROVE  /\ m \in Nat /\ x <= w * m /\ w * m <= x + w - 1
           /\ \A t \in Nat : x <= w * t => m <= t
           /\ x > 0 => m > 0
<1>0. x \in Nat /\ w \in Nat \ {0} /\ m = (x + w - 1) \div w
  BY DEF Ceiling
<1>1. PICK y \in Nat : y = x + w - 1
  BY <1>0
<1>2. PICK q \in Nat, r \in 0 .. w - 1 : q = y \div w /\ y = w * q + r
  BY <1>0, <1>1, Division
<1>3. m = q
  BY <1>0, <1>1, <1>2
<1>4. PICK p \in Nat : p = w * q
  <2>1. \A a, b \in Nat : a * b \in Nat
    OBVIOUS
  <2>2. w \in Nat
    BY <1>0
  <2> QED BY <2>1, <2>2, Zenon
<1>5. x <= p /\ p <= x + w - 1
  BY <1>0, <1>1, <1>2, <1>4
<1>6. ASSUME NEW t \in Nat, x <= w * t PROVE q <= t
  <2>1. CASE q > t
    <3>1. PICK d \in Nat : q = (t + 1) + d
      <4>1. q - (t + 1) \in Nat /\ q = (t + 1) + (q - (t + 1))
        BY <2>1
      <4> QED BY <4>1
    <3>2. \A a, b, c \in Nat : c * ((a + 1) + b) = c * a + c + c * b
      OBVIOUS
    <3>3. w * q = w * t + w + w * d /\ w \in Nat
      BY <1>0, <3>1, <3>2
    <3>4. PICK a \in Nat, b \in Nat : a = w * t /\ b = w * d
      <4>1. \A i, k \in Nat : i * k \in Nat
        OBVIOUS
      <4> QED BY <3>3, <4>1, Zenon
    <3>5. p = a + w + b /\ x <= a
      BY <1>4, <1>6, <3>3, <3>4
    <3> QED BY <1>0, <1>5, <3>3, <3>4, <3>5
  <2> QED BY <2>1
<1>7. ASSUME x > 0, q = 0 PROVE FALSE
  <2>1. p = 0
    BY <1>0, <1>4, <1>7
  <2> QED BY <1>0, <1>5, <1>7, <2>1
<1> QED BY <1>3, <1>4, <1>5, <1>6, <1>7

\* n bytes for that many bits: u of the first are surplus, h is its top bit, and
\* w the weight of that byte.
Widths(bits, n, j, u, h, w) ==
    /\ n = (bits + ByteBits - 1) \div ByteBits /\ n = j + 1 /\ j \in Nat /\ n <= BytesPerLimb
    /\ u = n * ByteBits - bits /\ u \in Nat
    /\ h \in Nat \ {0} /\ h = PowerOf(2, ByteBits - 1 - u)
    /\ 2 * h = PowerOf(2, ByteBits - u) /\ 2 * h <= ByteRadix
    /\ w = PowerOf(ByteRadix, j) /\ w \in Nat \ {0} /\ 2 * (h * w) = PowerOf(2, bits)

\* The bytes and the topmost bit of a number of bits.
LEMMA WidthsRule ==
    ASSUME NEW bits \in 1 .. LimbBits
    PROVE  \E n, j, u, h, w : Widths(bits, n, j, u, h, w)
<1>1. PICK B \in Nat \ {0} : B = ByteBits
  BY BaseRule
<1>2. PICK P \in Nat \ {0} : P = BytesPerLimb /\ LimbBits = B * P
  <2>1. PICK P \in Nat \ {0} : P = BytesPerLimb
    BY LimbBitsAssumption
  <2>2. PICK L \in Nat : L = LimbBits /\ L % P = 0
    BY <2>1, LimbBitsAssumption
  <2>3. L = P * (L \div P) + (L % P) /\ L \div P \in Nat
    BY Division
  <2>4. L \div P = B
    BY <1>1, <2>1, <2>2 DEF ByteBits
  <2>5. P * B = B * P
    OBVIOUS
  <2> QED BY <2>1, <2>2, <2>3, <2>4, <2>5
<1>3. bits \in Nat /\ bits > 0 /\ bits <= B * P
  BY <1>2, LimbBitsAssumption
<1>4. PICK n \in Nat : /\ n = (bits + B - 1) \div B /\ bits <= B * n /\ B * n <= bits + B - 1
                       /\ n <= P /\ n > 0
  <2>1. PICK m : m = (bits + B - 1) \div B
    OBVIOUS
  <2>2. /\ m \in Nat /\ bits <= B * m /\ B * m <= bits + B - 1
        /\ \A t \in Nat : bits <= B * t => m <= t
        /\ bits > 0 => m > 0
    BY <1>3, <2>1, RoundedUp DEF Ceiling
  <2> QED BY <1>3, <2>1, <2>2
<1>5. PICK j \in Nat : n = j + 1
  <2>1. n - 1 \in Nat /\ n = (n - 1) + 1
    BY <1>4
  <2> QED BY <2>1
<1>6. PICK s \in Nat : s = n * B /\ s = B * n
  <2>1. n * B \in Nat /\ n * B = B * n
    OBVIOUS
  <2> QED BY <2>1
<1>7. PICK u \in Nat : u = s - bits /\ u <= B - 1
  <2>1. bits <= s /\ s <= bits + B - 1
    BY <1>4, <1>6
  <2>2. s - bits \in Nat /\ s - bits <= B - 1
    BY <1>3, <2>1
  <2> QED BY <2>2
<1>8. PICK g \in Nat : g = B - 1 - u
  BY <1>7
<1>9. PICK h \in Nat \ {0} : h = PowerOf(2, g) /\ 2 * h = PowerOf(2, g + 1)
  BY TwoPowers
<1>10. PICK R \in Nat \ {0} : R = ByteRadix /\ R = PowerOf(2, B)
  BY <1>1, BaseRule DEF ByteRadix
<1>11. 2 * h <= R
  <2>1. PICK two \in Nat \ {0} : two = 2
    OBVIOUS
  <2>2. PICK g1 \in Nat : g1 = g + 1 /\ g1 <= B
    BY <1>7, <1>8
  <2>3. PowerOf(two, g1) <= PowerOf(two, B)
    BY <2>2, PowersGrow
  <2> QED BY <1>9, <1>10, <2>1, <2>2, <2>3
<1>12. PICK w \in Nat \ {0} : w = PowerOf(R, j)
  BY PowerRule
<1>13. PICK t \in Nat : t = B * j /\ w = PowerOf(2, t)
  <2>1. PICK two \in Nat \ {0} : two = 2
    OBVIOUS
  <2>2. PowerOf(PowerOf(two, B), j) = PowerOf(two, B * j)
    BY PowerOfPower
  <2>3. B * j \in Nat
    OBVIOUS
  <2> QED BY <1>10, <1>12, <2>1, <2>2, <2>3
<1>14. bits = (g + 1) + t
  <2>1. B * n = B * j + B
    BY <1>5
  <2> QED BY <1>6, <1>7, <1>8, <1>13, <2>1
<1>15. 2 * (h * w) = PowerOf(2, bits)
  <2>1. PICK two \in Nat \ {0} : two = 2
    OBVIOUS
  <2>2. PICK g1 \in Nat : g1 = g + 1 /\ bits = g1 + t
    BY <1>14
  <2>3. \A k \in Nat : PowerOf(two, g1 + k) = PowerOf(two, g1) * PowerOf(two, k)
    BY PowersMultiply
  <2>4. PowerOf(2, bits) = (2 * h) * w
    BY <1>9, <1>13, <2>1, <2>2, <2>3
  <2>5. \A a, b \in Nat : (2 * a) * b = 2 * (a * b)
    OBVIOUS
  <2> QED BY <2>4, <2>5
<1>16. ByteBits - 1 - u = g /\ ByteBits - u = g + 1
  BY <1>1, <1>7, <1>8
<1>17. Widths(bits, n, j, u, h, w)
  BY <1>1, <1>2, <1>4, <1>5, <1>6, <1>7, <1>9, <1>10, <1>11, <1>12, <1>15, <1>16 DEF Widths
<1> QED BY <1>17

\* L limbs hold v, and n limbs are made for the bytes that the bits of v need.
Needs(v, n, L) ==
    /\ v \in Nat /\ L \in Nat /\ v < Weight(L)
    /\ n = LimbsFor((BitsOf(v) + ByteBits - 1) \div ByteBits)

\* A value below the weight of L limbs needs no more than L.
LEMMA NeedsRule ==
    ASSUME NEW v, NEW n, NEW L, Needs(v, n, L)
    PROVE  n \in Nat /\ n <= L /\ v < Weight(n)
<1>1. PICK B \in Nat \ {0} : B = ByteBits
  BY BaseRule
<1>2. PICK P \in Nat \ {0} : P = BytesPerLimb
  BY LimbBitsAssumption
<1>3. PICK R \in Nat \ {0} : R = ByteRadix /\ R = PowerOf(2, B) /\ Base = PowerOf(R, P)
  BY <1>1, <1>2, BaseRule DEF ByteRadix
<1>4. v \in Nat /\ L \in Nat /\ v < Weight(L)
  BY DEF Needs
<1>5. PICK b \in Nat : b = BitsOf(v) /\ (b = 0 \/ (b - 1 \in Nat /\ PowerOf(2, b - 1) <= v))
  BY <1>4, BitsOfRule
<1>6. PICK m : m = (b + B - 1) \div B
  OBVIOUS
<1>7. m \in Nat /\ v < PowerOf(R, m) /\ \A t \in Nat : b <= B * t => m <= t
  <2>1. m \in Nat /\ v < PowerOf(ByteRadix, m)
    BY <1>1, <1>4, <1>5, <1>6, BytesNeeded
  <2>2. Ceiling(m, b, B)
    BY <1>6 DEF Ceiling
  <2>3. \A t \in Nat : b <= B * t => m <= t
    BY <2>2, RoundedUp
  <2> QED BY <1>3, <2>1, <2>3
<1>8. n \in Nat /\ m <= P * n /\ \A t \in Nat : m <= P * t => n <= t
  <2>1. n = (m + P - 1) \div P
    BY <1>1, <1>2, <1>5, <1>6 DEF Needs, LimbsFor
  <2>2. Ceiling(n, m, P)
    BY <1>7, <2>1 DEF Ceiling
  <2> QED BY <2>2, RoundedUp
<1>9. \A a, c \in Nat : a * c \in Nat
  OBVIOUS
<1>10. \A k \in Nat : PowerOf(R, P * k) = Weight(k)
  <2>1. \A k \in Nat : PowerOf(PowerOf(R, P), k) = PowerOf(R, P * k)
    BY PowerOfPower
  <2> QED BY <1>3, <2>1 DEF Weight
<1>11. v < Weight(n)
  <2>1. PICK s \in Nat : s = P * n /\ m <= s
    <3>1. P * n \in Nat
      BY <1>8, <1>9
    <3> QED BY <1>8, <3>1
  <2>2. PowerOf(R, m) <= PowerOf(R, s)
    BY <1>7, <2>1, PowersGrow
  <2>3. PowerOf(R, s) = Weight(n)
    BY <1>8, <1>10, <2>1
  <2>4. PowerOf(R, m) \in Nat /\ PowerOf(R, s) \in Nat
    BY <1>7, PowerRule
  <2> QED BY <1>4, <1>7, <2>2, <2>3, <2>4
<1>12. PICK y \in Nat : y = P * L
  BY <1>4, <1>9
<1>13. PICK z \in Nat : z = B * y
  BY <1>9
<1>14. Weight(L) = PowerOf(2, z)
  <2>1. PICK two \in Nat \ {0} : two = 2
    OBVIOUS
  <2>2. \A k \in Nat : PowerOf(PowerOf(two, B), k) = PowerOf(two, B * k)
    BY PowerOfPower
  <2>3. PowerOf(R, y) = PowerOf(2, z)
    BY <1>3, <1>13, <2>1, <2>2
  <2>4. PowerOf(R, P * L) = Weight(L)
    BY <1>4, <1>10
  <2> QED BY <1>12, <2>3, <2>4
<1>15. b <= z
  <2>1. CASE b > z
    <3>1. PICK e \in Nat : e = b - 1 /\ z <= e
      BY <2>1
    <3>2. PICK two \in Nat \ {0} : two = 2
      OBVIOUS
    <3>3. PowerOf(two, z) <= PowerOf(two, e)
      BY <3>1, PowersGrow
    <3>4. PowerOf(2, e) <= v
      BY <1>5, <2>1, <3>1
    <3>5. PowerOf(two, z) \in Nat /\ PowerOf(two, e) \in Nat
      BY PowerRule
    <3> QED BY <1>4, <1>14, <3>2, <3>3, <3>4, <3>5
  <2> QED BY <2>1
<1>16. m <= y
  BY <1>7, <1>13, <1>15
<1>17. n <= L
  BY <1>4, <1>8, <1>12, <1>16
<1> QED BY <1>8, <1>11, <1>17

=============================================================================
