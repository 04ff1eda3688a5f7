----------------------------- MODULE MCNumbers ------------------------------
(*****************************************************************************)
(* Small instances of the modules over big numbers.  A behaviour is one call *)
(* of one of them; the variables of the others are idle.                     *)
(*****************************************************************************)
EXTENDS Bignum, Exponentiation, Primes, KeyPairs, RsaPadding

(* ------------------------------ instances ------------------------------- *)
\* The next call does not depend on what the last one was called.
MCBignumNumbersOnly == <<num, spoiled>>
MCMontModuli == {k \in 1 .. 23 : k % 2 = 1} \cup {101}
MCExpModuli == 1 .. 13 \cup {23}
MCExpWindowSteps == <<3, 5>>
MCTestValues == 0 .. 41 \cup {49, 65, 85, 91}

(* --------------------------- one call at a time ------------------------- *)
CONSTANT Idle   \* held by the variables of a call that is not made

Calls == {"bignum", "product", "division", "montgomery", "power", "test", "search",
          "rsa", "elgamal", "oaep", "pss"}
VARIABLE running   \* the call that is made
vars == <<running, bignumVars, productVars, divisionVars, montVars, expVars, testVars,
          searchVars, rsaVars, elGamalVars, oaepVars, pssVars>>
\* What a number call does does not depend on what the last one was called.
NumbersView == <<running, num, spoiled, productVars, divisionVars, montVars, expVars, testVars,
          searchVars, rsaVars, elGamalVars, oaepVars, pssVars>>

ProductIdle ==
  /\ productA = Idle /\ productB = Idle /\ productMethod = Idle
  /\ productProduct = Idle
DivisionIdle ==
  /\ divisionA = Idle /\ divisionM = Idle /\ un = Idle /\ vn = Idle /\ offset = Idle
  /\ qhat = Idle /\ rhat = Idle /\ underflow = Idle /\ divisionPc = Idle
MontIdle ==
  /\ montM = Idle /\ montA = Idle /\ montB = Idle /\ form = Idle /\ montT = Idle
  /\ montI = Idle /\ montPc = Idle
ExpIdle ==
  /\ expMethod = Idle /\ expM = Idle /\ expE = Idle /\ base = Idle /\ expB = Idle
  /\ acc = Idle /\ expI = Idle /\ result = Idle /\ expPc = Idle
TestIdle ==
  /\ testValue = Idle /\ rounds = Idle /\ testD = Idle /\ testS = Idle /\ bases = Idle
  /\ testX = Idle /\ testJ = Idle /\ verdict = Idle /\ testPc = Idle
SearchIdle ==
  /\ kind = Idle /\ searchBits = Idle /\ heap = Idle /\ out = Idle
  /\ searchTries = Idle /\ safeTries = Idle /\ searchPc = Idle /\ searchStatus = Idle
RsaIdle ==
  /\ rsaPc = Idle /\ rsaBits = Idle /\ attempts = Idle /\ calls = Idle /\ rsaTmp = Idle
  /\ public = Idle /\ private = Idle /\ rsaCopied = Idle /\ rsaStatus = Idle
ElGamalIdle ==
  /\ op = Idle /\ elGamalPc = Idle /\ elGamalTries = Idle /\ elGamalStatus = Idle
  /\ elGamalTmp = Idle /\ elGamalKey = Idle /\ elGamalCopied = Idle
  /\ elGamalPlain = Idle /\ elGamalCipher = Idle /\ opened = Idle
OaepIdle ==
  /\ oaepPc = Idle /\ oaepStatus = Idle /\ oaepN = Idle /\ oaepH = Idle /\ oaepD = Idle
  /\ label = Idle /\ oaepPlain = Idle /\ oaepCipher = Idle /\ encoded = Idle
  /\ oaepI = Idle /\ bad = Idle /\ seeking = Idle /\ index = Idle /\ message = Idle
  /\ length = Idle
PssIdle ==
  /\ pssPc = Idle /\ pssStatus = Idle /\ pssN = Idle /\ pssH = Idle /\ asked = Idle
  /\ text = Idle /\ signature = Idle /\ claimed = Idle

Init ==
  /\ running \in Calls
  /\ BignumInit
  /\ IF running = "product"     THEN ProductInit  ELSE ProductIdle
  /\ IF running = "division"    THEN DivisionInit ELSE DivisionIdle
  /\ IF running = "montgomery"  THEN MontInit     ELSE MontIdle
  /\ IF running = "power"       THEN ExpInit      ELSE ExpIdle
  /\ IF running = "test"        THEN TestInit     ELSE TestIdle
  /\ IF running = "search"      THEN SearchInit   ELSE SearchIdle
  /\ IF running = "rsa"         THEN RsaInit      ELSE RsaIdle
  /\ IF running = "elgamal"     THEN ElGamalInit  ELSE ElGamalIdle
  /\ IF running = "oaep"        THEN OaepInit     ELSE OaepIdle
  /\ IF running = "pss"         THEN PssInit      ELSE PssIdle
Next ==
  /\ UNCHANGED running
  /\ IF running = "bignum"      THEN BignumNext   ELSE UNCHANGED bignumVars
  /\ IF running = "product"     THEN ProductNext  ELSE UNCHANGED productVars
  /\ IF running = "division"    THEN DivisionNext ELSE UNCHANGED divisionVars
  /\ IF running = "montgomery"  THEN MontNext     ELSE UNCHANGED montVars
  /\ IF running = "power"       THEN ExpNext      ELSE UNCHANGED expVars
  /\ IF running = "test"        THEN TestNext     ELSE UNCHANGED testVars
  /\ IF running = "search"      THEN SearchNext   ELSE UNCHANGED searchVars
  /\ IF running = "rsa"         THEN RsaNext      ELSE UNCHANGED rsaVars
  /\ IF running = "elgamal"     THEN ElGamalNext  ELSE UNCHANGED elGamalVars
  /\ IF running = "oaep"        THEN OaepNext     ELSE UNCHANGED oaepVars
  /\ IF running = "pss"         THEN PssNext      ELSE UNCHANGED pssVars
Spec ==
  /\ Init /\ [][Next]_vars
  /\ WF_expVars(running = "power" /\ ExpNext)
  /\ WF_searchVars(running = "search" /\ SearchNext)
  /\ WF_rsaVars(running = "rsa" /\ Progress)


(* ------------------------------ properties ------------------------------ *)
(* Whatever limbs the operands have, and whichever of a call's registers are the
   same: crypto_bignum_mul and its in-place companions lose no carry between limbs,
   no number keeps a zero limb on top, and none leaves a limb of its last value
   above its length, where the fixed-width readers would take it for its own; the
   long division of crypto_bignum_mod subtracts no digit that is off by more than
   the one add-back the code has, and leaves the exact remainder. *)
LimbsAreExact ==
  /\ running = "bignum"   => BignumTypeOK /\ TailIsZero /\ LengthsAreExact
  /\ running = "product"  => ProductIsExact
  /\ running = "division" => /\ DivisionTypeOK /\ EstimateIsClose /\ RestIsCongruent
                             /\ RemainderIsExact

(* The Montgomery products and crypto_bignum_mod_exp return the exact integer:
   every partial sum stays congruent to the operands' product, the final subtraction
   is made when it has to be, and no window or bit of an exponent is lost. *)
ArithmeticIsExact ==
  /\ running = "montgomery" => PassesAccumulate /\ ProductIsMontgomery
  /\ running = "power"      => ScheduleIsPower /\ PowerIsExact

(* crypto_prime_is_probable_internal passes every prime and a composite only if all
   its bases lie; what RSA's raw operation encrypts under a new key it decrypts; an
   ElGamal key lies in the subgroup of prime order and decrypts what it encrypts;
   crypto_rsa_oaep_decrypt_internal returns every message that was encrypted and
   accepts exactly the data blocks of the standard's form, with one error for all
   others; crypto_rsa_pss_verify_internal accepts exactly the encodings of the
   message, at every residue of the bit length modulo eight. *)
SchemesWork ==
  /\ running = "test"    => PrimesPass /\ CompositesNeedLiars /\ WitnessesAreReal
  /\ running = "rsa"     => KeysInvert
  /\ running = "elgamal" => KeyInSubgroup /\ DecryptsToMessage
  /\ running = "oaep"    => /\ RoundTrip /\ AcceptsExactly /\ RejectionIsUniform
                            /\ InvalidKeysRefused
  /\ running = "pss"     => EncodingIsResidue /\ SignaturesVerify /\ AcceptsExactlyEncodings

(* After any sequence of searches and key generations, whichever step failed:
   crypto_prime_generate_internal and its twin for safe primes hand over numbers of
   the size and kind asked for or none; the key objects of crypto_rsa_keygen_internal
   and of ElGamal's key generation never hold parts of two generations, and a reported
   key is a whole one; and no temporary stays allocated. *)
KeysAreWhole ==
  /\ running = "search"  => SearchTemporariesReturned /\ OutputsAreWanted
  /\ running = "rsa"     => RsaTemporariesReturned /\ NoMixedPair /\ KeyIsAsAsked
  /\ running = "elgamal" => ElGamalTemporariesReturned /\ SecretFitsParameters

(* An exponentiation, a prime search and every RSA key generation come to an end:
   windows are counted down, attempts are bounded, and a failed attempt never
   starts over uncounted. *)
EveryCallEnds ==
  /\ running = "power"  => CallsEnd
  /\ running = "search" => SearchEnds
  /\ running = "rsa"    => KeygenEnds
=============================================================================
