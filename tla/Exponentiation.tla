--------------------------- MODULE Exponentiation ---------------------------
(*****************************************************************************)
(* The Montgomery product and modular exponentiation by bits and by windows, *)
(* src/src/Util/Bignum.                                                      *)
(*****************************************************************************)
EXTENDS Integers, Sequences, SequencesExt, FiniteSetsExt

-----------------------------------------------------------------------------
(*****************************************************************************)
(* The Montgomery product of src/src/Util/Bignum in its two forms.  Each     *)
(* pass over the limbs of b adds b[i] * a to the work array and then a       *)
(* multiple of the modulus that clears its low limb; the older form copies   *)
(* the array one limb down (mont_mul), the newer one writes it one limb down *)
(* (bignum_mont_cios_candidate).  One conditional subtraction ends both.     *)
(* Also here: the negated inverse of the low limb by Newton steps, and the   *)
(* square of the radix by doublings (mont_init).                             *)
(*****************************************************************************)
CONSTANTS ExpLimbBits, ExpBytesPerLimb   \* of its limbs
LOCAL INSTANCE Limbs WITH LimbBits <- ExpLimbBits, BytesPerLimb <- ExpBytesPerLimb

CONSTANTS
  NewtonSteps,   \* 5 in the code: each step doubles the bits that are right
  MontModuli         \* odd moduli

ASSUME MontgomeryAssumption ==
  /\ 2^NewtonSteps = ExpLimbBits
  /\ \A k \in MontModuli : k > 0 /\ k % 2 = 1

VARIABLES
  montM, montA, montB,   \* modulus and operands, in as many limbs
  form,      \* "copied" or "written": how the array moves down; "radix" for R^2
  montT,         \* the work array of two limbs more; for "radix" the power of two
  montI,         \* passes made
  montPc
montVars == <<montM, montA, montB, form, montT, montI, montPc>>

montN == Len(montM)
M == WordsValue(montM)

N0inv(n0) ==
  LET step(x, k) == (x * (2 - n0 * x)) % Base
  IN (- Loop(step, 1, 1, NewtonSteps)) % Base

LimbCount(v) == CHOOSE k \in 1 .. v : Base^k > v /\ (k = 1 \/ Base^(k - 1) <= v)

\* Reduced operands; the number one is passed whatever the modulus is.
MontInit ==
  /\ \E v \in MontModuli : montM = WordsOf(v, LimbCount(v))
  /\ form \in {"copied", "written", "radix"}
  /\ \E x, y \in (0 .. M - 1) \cup {1} :
       /\ montA = WordsOf(x, montN) /\ montB = WordsOf(y, montN)
       /\ form = "radix" => x = 1 /\ y = 1
  /\ montT = IF form = "radix" THEN WordsOf(1, montN) ELSE Zeros(montN + 2)
  /\ montI = 0
  /\ montPc = "product"

\* A slip: the carry out of limb n is lost.
FaultyAccumulated(w, x, y) ==
  LET step(s, j) == LET z == y[j + 1] * x + s.w[j + 1] + s.carry
                    IN [w |-> [s.w EXCEPT ![j + 1] = Low(z)], carry |-> High(z)]
      s == Loop(step, [w |-> w, carry |-> 0], 0, montN - 1)
  IN [s.w EXCEPT ![montN + 1] = Low(@ + s.carry)]
\* t + x * y in n limbs, the carry added to limb n and its carry to limb n + 1.
Accumulated(w, x, y) ==
  LET step(s, j) == LET z == y[j + 1] * x + s.w[j + 1] + s.carry
                    IN [w |-> [s.w EXCEPT ![j + 1] = Low(z)], carry |-> High(z)]
      s == Loop(step, [w |-> w, carry |-> 0], 0, montN - 1)
      z == s.w[montN + 1] + s.carry
  IN [s.w EXCEPT ![montN + 1] = Low(z), ![montN + 2] = Low(@ + High(z))]

AddProduct ==
  /\ montPc = "product" /\ form # "radix"
  /\ montT' = Accumulated(montT, montB[montI + 1], montA)
  /\ montPc' = "reduce"
  /\ UNCHANGED <<montM, montA, montB, form, montI>>

MovedDown(w) == Append(Tail(w), 0)

\* Reduction that writes limb j of t + q * m to place j - 1.
WrittenDown(w, q) ==
  LET first == High(w[1] + q * montM[1])
      step(s, j) == LET z == w[j + 1] + q * montM[j + 1] + s.carry
                    IN [w |-> Append(s.w, Low(z)), carry |-> High(z)]
      s == Loop(step, [w |-> <<>>, carry |-> first], 1, montN - 1)
      z == w[montN + 1] + s.carry
  IN s.w \o <<Low(z), Low(w[montN + 2] + High(z)), 0>>

ClearLowLimb ==
  /\ montPc = "reduce"
  /\ LET q == Low(montT[1] * N0inv(montM[1]))
     IN montT' = IF form = "copied" THEN MovedDown(Accumulated(montT, q, montM)) ELSE WrittenDown(montT, q)
  /\ montI' = montI + 1
  /\ montPc' = IF montI' = montN THEN "last" ELSE "product"
  /\ UNCHANGED <<montM, montA, montB, form>>

\* bignum_ct_mont_mul subtracts always and keeps the difference unless it
\* borrowed out of limb n; the other callers compare first.
LastSubtraction ==
  /\ montPc = "last"
  /\ LET s == SubWords(montT, montM, montN)
         borrowed == montT[montN + 1] < s.borrow
     IN montT' = IF borrowed THEN SubSeq(montT, 1, montN) ELSE s.w
  /\ montPc' = "done"
  /\ UNCHANGED <<montM, montA, montB, form, montI>>

\* mont_init: one doubling and at most one subtraction, 2 ExpLimbBits n times.
MontDouble ==
  /\ form = "radix" /\ montPc = "product"
  /\ LET twice == WordsOf(2 * WordsValue(montT), montN + 1)
     IN montT' = IF WordsValue(twice) >= M THEN SubWords(twice, montM, montN).w ELSE SubSeq(twice, 1, montN)
  /\ montI' = montI + 1
  /\ montPc' = IF montI' = 2 * ExpLimbBits * montN THEN "done" ELSE "product"
  /\ UNCHANGED <<montM, montA, montB, form>>

MontFinished == montPc = "done" /\ UNCHANGED montVars
MontNext == AddProduct \/ ClearLowLimb \/ LastSubtraction \/ MontDouble \/ MontFinished
MontSpec == MontInit /\ [][MontNext]_montVars

(* ------------------------------- properties ----------------------------- *)

MontPowerMod(x, e) ==
  LET times(y, k) == (y * x) % M IN Loop(times, 1 % M, 1, e)

(* After i passes the array, moved down i limbs, is congruent to a times the *)
(* low i limbs of b, and so small that a single subtraction of the modulus   *)
(* reduces it (the bound the last subtraction relies on).                    *)
PassesAccumulate ==
  form # "radix" /\ montPc \in {"product", "last"} =>
    LET done == WordsValue(SubSeq(montB, 1, montI)) IN
    /\ (WordsValue(montT) * MontPowerMod(Base, montI) - WordsValue(montA) * done) % M = 0
    /\ WordsValue(montT) < M + Max({M, WordsValue(montA) + 1})

(* The product is the reduced a b / R for the radix R = Base^n, and the *)
(* doublings end in R^2 (for the modulus one they leave one).           *)
ProductIsMontgomery ==
  montPc = "done" =>
    IF form = "radix" THEN (WordsValue(montT) - MontPowerMod(Base, 2 * montN)) % M = 0
    ELSE /\ WordsValue(montT) < M
         /\ (WordsValue(montT) * MontPowerMod(Base, montN) - WordsValue(montA) * WordsValue(montB)) % M = 0


-----------------------------------------------------------------------------
(******************************************************************************)
(* Modular exponentiation in src/src/Util/Bignum, one step per exponent bit   *)
(* or window:                                                                 *)
(*   even     crypto_bignum_mod_exp, even modulus: low bit first, reductions  *)
(*   odd      crypto_bignum_mod_exp, odd modulus: high bit first              *)
(*   public   crypto_bignum_mod_exp_public_fixed_base: high bit first         *)
(*   secret   crypto_bignum_mod_exp_ct, _ct_fixed_base and exp2_ct: every bit *)
(*            of the modulus width, both candidates computed and one selected *)
(*   windows  crypto_bignum_mod_exp_vartime: shortcuts, then odd windows      *)
(* Numbers in Montgomery form are multiplied by MontMul, the product that     *)
(* the machine above shows the limb code to compute.                         *)
(******************************************************************************)
CONSTANTS
  ExpModuli, Bases, Exponents,
  WindowSteps   \* exponent lengths from which windows are one bit wider:
                \* 24, 80, 240 and 672 bits in the code

VARIABLES
  expMethod, expM, expE,
  base,     \* one base, or the two of exp2_ct
  expB,        \* the bases in the form the loop works on; "even": its square chain
  acc,      \* an accumulator for each base
  expI,        \* exponent bits still to be scanned; "even": bits scanned
  result,   \* numbers handed over
  expPc
expVars == <<expMethod, expM, expE, base, expB, acc, expI, result, expPc>>

expN == CHOOSE k \in 1 .. expM : Base^k > expM /\ (k = 1 \/ Base^(k - 1) <= expM)
R == Base^expN

\* x y / R modulo m for odd m.
RInverse == CHOOSE x \in 0 .. expM - 1 : (x * (R % expM)) % expM = 1 % expM
MontMul(x, y) == (((x * y) % expM) * RInverse) % expM
ToMont(x) == MontMul(x % expM, (R * R) % expM)
One == ToMont(1)

Each(f(_)) == [k \in DOMAIN base |-> f(base[k])]

\* Exponents of the secret method have at most as many limbs as the modulus,
\* as its callers ensure with crypto_bignum_copy_secret_fixed.
ExpInit ==
  /\ expM \in ExpModuli /\ expE \in Exponents
  /\ expMethod \in {"even", "odd", "public", "secret", "windows"}
  /\ base \in [{1} -> Bases] \cup (IF expMethod = "secret" THEN [{1, 2} -> Bases] ELSE {})
  /\ expMethod = "even" => expM % 2 = 0
  /\ expMethod = "odd" => expM % 2 = 1
  /\ expMethod = "secret" => expE < R
  /\ expB = <<>> /\ acc = <<>> /\ expI = 0 /\ result = <<>>
  /\ expPc = "called"

ExpReturn(r) == result' = r /\ expPc' = "done" /\ UNCHANGED <<expMethod, expM, expE, base,
                                                              expB, acc, expI>>
ExpRefuse    == result' = <<>> /\ expPc' = "refused" /\ UNCHANGED <<expMethod, expM, expE,
                                                                    base, expB, acc, expI>>
ExpStart(bases, accs, bits) ==
  /\ expB' = bases /\ acc' = accs /\ expI' = bits /\ expPc' = "scan"
  /\ UNCHANGED <<expMethod, expM, expE, base, result>>

CallLegacy ==
  /\ expPc = "called" /\ expMethod \in {"even", "odd"}
  /\ IF expMethod = "even"
     THEN ExpStart(Each(LAMBDA x : x % expM), Each(LAMBDA x : 1), 0)
     ELSE ExpStart(Each(ToMont), Each(LAMBDA x : One), BitsOf(expE))

\* Only a reduced base and an odd modulus are accepted.
CallPublic ==
  /\ expPc = "called" /\ expMethod = "public"
  /\ IF expM % 2 = 0 \/ expE = 0 \/ base[1] >= expM THEN ExpRefuse
     ELSE ExpStart(Each(ToMont), Each(LAMBDA x : One), BitsOf(expE))

\* crypto_bignum_mod_exp_ct_fixed_base takes a base of as many limbs as the modulus
\* as it is, reduced or not; the others compare.
Unreduced == \E k \in DOMAIN base : base[k] >= expM
FixedBase == DOMAIN base = {1} /\ base[1] < R
SecretBits == ExpLimbBits * expN
CallSecret ==
  /\ expPc = "called" /\ expMethod = "secret"
  /\ \/ (expM % 2 = 0 \/ Unreduced) /\ ExpRefuse
     \/ /\ expM % 2 = 1 /\ (Unreduced => FixedBase)
        /\ ExpStart(Each(ToMont), Each(LAMBDA x : One), SecretBits)

\* Shortcuts for small public operands, in the code's order; an even modulus is
\* handed to the legacy loop.
CallWindows ==
  /\ expPc = "called" /\ expMethod = "windows"
  /\ LET x == base[1] IN
     CASE expM = 1          -> ExpReturn(<<0>>)
       [] expM > 1 /\ expE = 0 -> ExpReturn(<<1>>)
       [] expM > 1 /\ expE = 1 -> ExpReturn(<<x % expM>>)
       [] expM > 1 /\ expE = 2 -> ExpReturn(<<(x * x) % expM>>)
       [] expM > 1 /\ expE > 2 /\ expM % 2 = 0 ->
               /\ expMethod' = "even" /\ UNCHANGED <<expM, expE, base, expB, acc, expI,
                                                     result, expPc>>
       [] expM > 1 /\ expE > 2 /\ expM % 2 = 1 /\ x % expM \in {0, 1} -> ExpReturn(<<x % expM>>)
       [] expM > 1 /\ expE > 2 /\ expM % 2 = 1 /\ x % expM \notin {0, 1} ->
               ExpStart(Each(ToMont), <<One>>, BitsOf(expE))

ScanEven ==
  /\ expPc = "scan" /\ expMethod = "even"
  /\ IF expI < BitsOf(expE)
     THEN /\ acc' = IF BitOf(expE, expI) = 1 THEN <<(acc[1] * expB[1]) % expM>> ELSE acc
          /\ expB' = IF expI + 1 < BitsOf(expE) THEN <<(expB[1] * expB[1]) % expM>> ELSE expB
          /\ expI' = expI + 1
          /\ UNCHANGED <<expMethod, expM, expE, base, result, expPc>>
     ELSE ExpReturn(<<acc[1] % expM>>)

\* High bit first; the multiplication is skipped for a zero bit.
ScanBits ==
  /\ expPc = "scan" /\ expMethod \in {"odd", "public"} /\ expI > 0
  /\ LET square == MontMul(acc[1], acc[1])
     IN acc' = IF BitOf(expE, expI - 1) = 1 THEN <<MontMul(square, expB[1])>> ELSE <<square>>
  /\ expI' = expI - 1
  /\ UNCHANGED <<expMethod, expM, expE, base, expB, result, expPc>>

\* Square and product are both computed for each base and a mask picks one.
ScanSecret ==
  /\ expPc = "scan" /\ expMethod = "secret" /\ expI > 0
  /\ acc' = [k \in DOMAIN base |->
       LET square == MontMul(acc[k], acc[k]) product == MontMul(square, expB[k])
       IN IF BitOf(expE, expI - 1) = 1 THEN product ELSE square]
  /\ expI' = expI - 1
  /\ UNCHANGED <<expMethod, expM, expE, base, expB, result, expPc>>

WindowBits == 1 + Cardinality({k \in DOMAIN WindowSteps : BitsOf(expE) >= WindowSteps[k]})

\* The odd powers base^1, base^3, ... that the windows index.
Table ==
  LET square == MontMul(expB[1], expB[1])
      next(tb, k) == Append(tb, MontMul(tb[k], square))
  IN Loop(next, <<expB[1]>>, 1, 2^(WindowBits - 1) - 1)

\* The lowest place of the window below bit i that ends in a one.
WindowEnd ==
  Min({low \in Max({expI - WindowBits, 0}) .. expI - 1 : low = expI - 1 \/ BitOf(expE, low) = 1})

\* A zero bit between windows is passed by a square.
AfterZero == expI - 1

Squared(x, k) == LET square(y, j) == MontMul(y, y) IN Loop(square, x, 1, k)

ScanWindow ==
  /\ expPc = "scan" /\ expMethod = "windows" /\ expI > 0
  /\ IF BitOf(expE, expI - 1) = 0
     THEN acc' = <<MontMul(acc[1], acc[1])>> /\ expI' = AfterZero
     ELSE LET window == (expE \div 2^WindowEnd) % 2^(expI - WindowEnd)
          IN /\ acc' = <<MontMul(Squared(acc[1], expI - WindowEnd), Table[(window - 1) \div 2 + 1])>>
             /\ expI' = WindowEnd
  /\ UNCHANGED <<expMethod, expM, expE, base, expB, result, expPc>>

Leave == ExpReturn([k \in DOMAIN base |-> MontMul(acc[k], 1)])
LeaveMontgomery == expPc = "scan" /\ expMethod # "even" /\ expI = 0 /\ Leave

ExpFinished == expPc \in {"done", "refused"} /\ UNCHANGED expVars

ExpNext == \/ CallLegacy \/ CallPublic \/ CallSecret \/ CallWindows
           \/ ScanEven \/ ScanBits \/ ScanSecret \/ ScanWindow
           \/ LeaveMontgomery \/ ExpFinished
ExpSpec == ExpInit /\ [][ExpNext]_expVars /\ WF_expVars(ExpNext)

(* ------------------------------- properties ----------------------------- *)

ExpPowerMod(x, k) ==
  LET times(y, j) == (y * (x % expM)) % expM IN Loop(times, 1 % expM, 1, k)

(* Whatever the schedule, the accumulators hold the bases raised to the part *)
(* of the exponent scanned so far, in Montgomery form; low bit first, the    *)
(* accumulator and the square chain together still make the whole power.     *)
ScheduleIsPower ==
  expPc = "scan" =>
    IF expMethod = "even"
    THEN expI < BitsOf(expE) => (acc[1] * ExpPowerMod(expB[1], expE \div 2^expI)) % expM = ExpPowerMod(base[1], expE)
    ELSE acc = [k \in DOMAIN base |-> ToMont(ExpPowerMod(base[k], expE \div 2^expI))]

(* All methods agree on the power, whatever shortcut they take.               *)
PowerIsExact ==
  expPc = "done" => result = [k \in DOMAIN base |-> ExpPowerMod(base[k], expE)]

(* Every call comes to an end: the windows always move down.                  *)
CallsEnd == <>(expPc \in {"done", "refused"})

=============================================================================
