------------------------------ MODULE KeyPairs ------------------------------
(*****************************************************************************)
(* Key generation of the two schemes over big numbers, RSA and ElGamal, with *)
(* their raw operations: attempts, exits on failure, and the copies into the *)
(* caller's key objects.                                                     *)
(*****************************************************************************)
EXTENDS Modular, Sequences

-----------------------------------------------------------------------------
(******************************************************************************)
(* RSA key generation and the raw operations (rsa.c).  Seven temporaries      *)
(* live through up to MaxAttempts attempts; an attempt is abandoned for equal *)
(* primes, a product that is one bit short, an exponent that is not           *)
(* invertible, or any failure inside make_private_exponent.  The two key      *)
(* objects are emptied and then filled by six copies, each of which may fail. *)
(* Numbers are values, 0 for a freed or fresh one.                            *)
(******************************************************************************)
CONSTANTS
  E,             \* the public exponent, a prime
  RsaSizes,         \* modulus sizes asked for, in bits
  RsaMinBits,       \* 32 in the code
  MaxAttempts,   \* 128 in the code
  MaxCalls       \* key generations into the same objects

ASSUME EAssumption == E \in Nat /\ E > 2 /\ IsPrime(E)

\* Sizes and their powers of two are numbers; a prime has at least two bits.
ASSUME RsaAssumption ==
  /\ RsaSizes \subseteq Nat /\ RsaMinBits \in Nat /\ RsaMinBits > 3
  /\ \A s \in RsaSizes : \A k \in 0 .. s : 2^k \in Nat \ {0}
  /\ MaxAttempts \in Nat /\ MaxCalls \in Nat

VARIABLES
  rsaPc,         \* idle, attempt, second, check, promote, copy
  rsaBits, attempts, calls,
  rsaTmp,        \* p, q, n, p1, q1, phi, d
  public, private,
  rsaCopied,     \* how many of the six copies are done
  rsaStatus      \* of the last call
rsaVars == <<rsaPc, rsaBits, attempts, calls, rsaTmp, public, private, rsaCopied, rsaStatus>>

RsaNoTmp == [p |-> 0, q |-> 0, n |-> 0, p1 |-> 0, q1 |-> 0, phi |-> 0, d |-> 0]
NoPublic == [N |-> 0, E |-> 0]
NoPrivate == [N |-> 0, D |-> 0, P |-> 0, Q |-> 0]

RsaInit ==
  /\ rsaPc = "idle" /\ rsaBits = 0 /\ attempts = 0 /\ calls = 0
  /\ rsaTmp = RsaNoTmp /\ public = NoPublic /\ private = NoPrivate
  /\ rsaCopied = 0 /\ rsaStatus = "none"

\* ------------------------------ key generation ---------------------------
RsaKeygen ==
  /\ rsaPc = "idle" /\ calls < MaxCalls
  /\ calls' = calls + 1
  /\ \E s \in RsaSizes :
       IF s < RsaMinBits
       THEN rsaStatus' = "invalid_argument" /\ UNCHANGED <<rsaPc, rsaBits>>
       ELSE rsaPc' = "attempt" /\ rsaBits' = s /\ rsaStatus' = "running"
  /\ attempts' = 0 /\ rsaCopied' = 0
  /\ UNCHANGED <<rsaTmp, public, private>>

\* Every way out frees the seven temporaries.
RsaReleased == RsaNoTmp
RsaExit(s) == rsaPc' = "idle" /\ rsaStatus' = s /\ rsaTmp' = RsaReleased

FirstPrime ==
  /\ rsaPc = "attempt" /\ attempts < MaxAttempts
  /\ \E p \in PrimesOfBits(rsaBits \div 2) :
       rsaTmp' = [RsaNoTmp EXCEPT !.p = p]
  /\ rsaPc' = "second"
  /\ UNCHANGED <<rsaBits, attempts, calls, public, private, rsaCopied, rsaStatus>>

SecondBits == rsaBits - rsaBits \div 2
SecondPrime ==
  /\ rsaPc = "second"
  /\ \E q \in PrimesOfBits(SecondBits) : rsaTmp' = [rsaTmp EXCEPT !.q = q]
  /\ rsaPc' = "check"
  /\ UNCHANGED <<rsaBits, attempts, calls, public, private, rsaCopied, rsaStatus>>

Exhausted ==
  /\ rsaPc = "attempt" /\ attempts = MaxAttempts
  /\ RsaExit("prime_generation_failed")
  /\ UNCHANGED <<rsaBits, attempts, calls, public, private, rsaCopied>>

\* rsa_inverse_u32: the extended Euclidean algorithm with signed quotients.
Euclid(a, m) ==
  LET step[s \in 0 .. m] ==
        IF s = 0 THEN [t |-> 0, newT |-> 1, r |-> m, newR |-> a]
        ELSE LET e == step[s - 1]
                 q == e.r \div e.newR
             IN  IF e.newR = 0 THEN e
                 ELSE [t |-> e.newT, newT |-> e.t - q * e.newT,
                       r |-> e.newR, newR |-> e.r - q * e.newR]
  IN  step[m]
InverseU32 ==
  [a \in 0 .. E - 1 |->
     LET e == Euclid(a, E) IN IF e.r # 1 THEN 0 ELSE IF e.t < 0 THEN e.t + E ELSE e.t]

\* make_private_exponent: d = (k phi + 1) / E for the k that makes it exact;
\* 0 when it refuses.
PrivateExponent(phi) ==
  LET k   == E - InverseU32[phi % E]
      num == (IF k = E THEN 0 ELSE k) * phi + 1
  IN  IF phi % E = 0 \/ InverseU32[phi % E] = 0 \/ num % E # 0
      THEN 0 ELSE num \div E

FaultyNextAttempt == attempts
NextAttempt == attempts + 1
TooShort(n) == n \notin OfBits(rsaBits)
Check ==
  /\ rsaPc = "check"
  /\ LET n   == rsaTmp.p * rsaTmp.q
         phi == (rsaTmp.p - 1) * (rsaTmp.q - 1)
         d   == PrivateExponent(phi)
     IN  IF rsaTmp.p = rsaTmp.q \/ TooShort(n) \/ d = 0
         THEN rsaPc' = "attempt" /\ attempts' = NextAttempt /\ rsaTmp' = RsaNoTmp
         ELSE /\ rsaPc' = "promote" /\ attempts' = attempts
              /\ rsaTmp' = [rsaTmp EXCEPT !.n = n, !.p1 = rsaTmp.p - 1, !.q1 = rsaTmp.q - 1,
                                          !.phi = phi, !.d = d]
  /\ UNCHANGED <<rsaBits, calls, public, private, rsaCopied, rsaStatus>>

\* An allocation in make_private_exponent that fails is one more attempt.
CheckFails ==
  /\ rsaPc = "check"
  /\ rsaPc' = "attempt" /\ attempts' = NextAttempt /\ rsaTmp' = RsaNoTmp
  /\ UNCHANGED <<rsaBits, calls, public, private, rsaCopied, rsaStatus>>

\* d is promoted to the modulus width; only then are the old keys given up.
FaultyRsaEmptied == private
RsaEmptied == NoPrivate
Promote ==
  /\ rsaPc = "promote"
  /\ public' = NoPublic /\ private' = RsaEmptied
  /\ rsaPc' = "copy"
  /\ UNCHANGED <<rsaBits, attempts, calls, rsaTmp, rsaCopied, rsaStatus>>

RsaCopy ==
  /\ rsaPc = "copy" /\ rsaCopied < 6
  /\ rsaCopied' = rsaCopied + 1
  /\ public' = CASE rsaCopied = 0 -> [public EXCEPT !.N = rsaTmp.n]
                 [] rsaCopied = 1 -> [public EXCEPT !.E = E]
                 [] OTHER      -> public
  /\ private' = CASE rsaCopied = 2 -> [private EXCEPT !.N = rsaTmp.n]
                  [] rsaCopied = 3 -> [private EXCEPT !.D = rsaTmp.d]
                  [] rsaCopied = 4 -> [private EXCEPT !.P = rsaTmp.p]
                  [] rsaCopied = 5 -> [private EXCEPT !.Q = rsaTmp.q]
                  [] OTHER      -> private
  /\ UNCHANGED <<rsaPc, rsaBits, attempts, calls, rsaTmp, rsaStatus>>

RsaComplete ==
  /\ rsaPc = "copy" /\ rsaCopied = 6
  /\ RsaExit("ok")
  /\ UNCHANGED <<rsaBits, attempts, calls, public, private, rsaCopied>>

\* Prime generation, arithmetic, the promotion or a copy may fail.
RsaFails ==
  /\ rsaPc # "idle" /\ (rsaPc = "copy" => rsaCopied < 6)
  /\ RsaExit(CASE rsaPc \in {"attempt", "second"} -> "prime_error"
               [] rsaPc = "check"                 -> "arithmetic"
               [] OTHER                        -> "allocation_failed")
  /\ UNCHANGED <<rsaBits, attempts, calls, public, private, rsaCopied>>

\* crypto_rsa_public_key_free_internal and its private counterpart.
RsaFree ==
  /\ rsaPc = "idle" /\ \/ public # NoPublic \/ private # NoPrivate
  /\ public' = NoPublic /\ private' = NoPrivate /\ rsaStatus' = "none"
  /\ UNCHANGED <<rsaPc, rsaBits, attempts, calls, rsaTmp, rsaCopied>>

RsaFinished == rsaPc = "idle" /\ calls = MaxCalls /\ UNCHANGED rsaVars

RsaNext == \/ RsaKeygen \/ FirstPrime \/ SecondPrime \/ Exhausted \/ Check \/ CheckFails
           \/ Promote \/ RsaCopy \/ RsaComplete \/ RsaFails \/ RsaFree \/ RsaFinished
Progress == \/ FirstPrime \/ SecondPrime \/ Exhausted \/ Check \/ CheckFails
            \/ Promote \/ RsaCopy \/ RsaComplete \/ RsaFails
RsaSpec == RsaInit /\ [][RsaNext]_rsaVars /\ WF_rsaVars(Progress)

\* ----------------------------- raw operations ----------------------------
Refused == -1
RsaEncrypt(m, key) == IF m >= key.N THEN Refused ELSE PowMod(m, key.E, key.N)
RsaDecrypt(c, key) == IF c >= key.N THEN Refused ELSE PowMod(c, key.D, key.N)

(* ------------------------------- properties ----------------------------- *)

(* Between two calls no temporary of crypto_rsa_keygen_internal is allocated: *)
(* each of its exits and each new attempt frees all seven, of which five are  *)
(* secret.                                                                    *)
RsaTemporariesReturned == rsaPc \in {"idle", "attempt"} => rsaTmp = RsaNoTmp

(* A reported key is the one the last call made, whatever the objects held   *)
(* before: a modulus of exactly the bits asked for, the product of two       *)
(* different primes, and exponents whose product is one modulo phi.          *)
KeyIsAsAsked ==
  rsaStatus = "ok" =>
    /\ public.N \in OfBits(rsaBits) /\ public.N = private.N
    /\ public.N = private.P * private.Q
    /\ private.P # private.Q /\ IsPrime(private.P) /\ IsPrime(private.Q)
    /\ public.E = E
    /\ (public.E * private.D) % ((private.P - 1) * (private.Q - 1)) = 1

(* The exponents of a reported key invert each other on every residue, and   *)
(* larger messages are refused.                                              *)
KeysInvert ==
  rsaStatus = "ok" =>
    /\ \A m \in 0 .. public.N - 1 : RsaDecrypt(RsaEncrypt(m, public), private) = m
    /\ RsaEncrypt(public.N, public) = Refused

(* A call that fails in the middle of the copies leaves no pair of two       *)
(* generations: a private modulus is there only with its own public one, and *)
(* every private component belongs to that modulus.                          *)
NoMixedPair ==
  /\ private.N # 0 => private.N = public.N
  /\ private.P # 0 /\ private.N # 0 => private.N % private.P = 0
  /\ private.N = 0 => private = NoPrivate

(* Key generation always ends, for the attempts are bounded.                    *)
KeygenEnds == []<>(rsaPc = "idle")


-----------------------------------------------------------------------------
(******************************************************************************)
(* ElGamal over the squares modulo a safe prime (elgamal.c): key generation   *)
(* into key objects that may already hold a key, encryption into a ciphertext *)
(* object, and decryption.  Draws that give nothing usable are repeated up to *)
(* MaxTries times; any number call may fail, and the copies of a new key may  *)
(* fail half way.  Numbers are values, 0 for a freed one.                     *)
(******************************************************************************)
CONSTANTS
  ElGamalSizes, ElGamalMinBits,  \* sizes asked for; the smallest taken (32 in the code)
  ElGamalMaxTries         \* 128 in the code

ASSUME ElGamalAssumption ==
  /\ ElGamalSizes \subseteq Nat /\ ElGamalMinBits \in Nat \ {0}
  /\ \A s \in ElGamalSizes : \A k \in 0 .. s : 2^k \in Nat \ {0}
  /\ ElGamalMaxTries \in Nat

VARIABLES
  op, elGamalPc, elGamalTries, elGamalStatus,
  elGamalTmp,             \* p, q, hseed, g, x, h of a key generation; y of an encryption
  elGamalKey,             \* the two key objects: P, Q, G, H and X
  elGamalCopied,
  elGamalPlain, elGamalCipher,   \* the last message encrypted and its ciphertext
  opened           \* the message that decrypting it gave, if it was
elGamalVars == <<op, elGamalPc, elGamalTries, elGamalStatus, elGamalTmp, elGamalKey,
                 elGamalCopied, elGamalPlain, elGamalCipher, opened>>

ElGamalNoTmp == [p |-> 0, q |-> 0, hseed |-> 0, g |-> 0, x |-> 0, h |-> 0]
NoKey == [P |-> 0, Q |-> 0, G |-> 0, H |-> 0, X |-> 0]
NoCipher == [C1 |-> 0, C2 |-> 0]
Nothing == -1

ElGamalInit ==
  /\ op = "none" /\ elGamalPc = "idle" /\ elGamalTries = 0 /\ elGamalStatus = "none"
  /\ elGamalTmp = ElGamalNoTmp /\ elGamalKey = NoKey /\ elGamalCopied = 0
  /\ elGamalPlain = Nothing /\ elGamalCipher = NoCipher /\ opened = Nothing

ElGamalReleased == ElGamalNoTmp
ElGamalExit(s) == elGamalPc' = "idle" /\ elGamalStatus' = s /\ elGamalTmp' = ElGamalReleased
Same == UNCHANGED <<elGamalPlain, elGamalCipher, opened>>

\* ------------------------------ key generation ---------------------------
SafePrimes(bits) ==
  {p \in PrimesOfBits(bits) : IsPrime((p - 1) \div 2) /\ (p - 1) \div 2 > 2}

ElGamalKeygen ==
  /\ elGamalPc = "idle" /\ op \in {"none", "keygen", "decrypt"}
  /\ op' = "keygen" /\ elGamalTries' = 0 /\ elGamalCopied' = 0
  /\ \E bits \in ElGamalSizes :
       IF bits < ElGamalMinBits
       THEN elGamalStatus' = "invalid_argument" /\ UNCHANGED <<elGamalPc, elGamalTmp>>
       ELSE \E p \in SafePrimes(bits) :
              /\ elGamalTmp' = [ElGamalNoTmp EXCEPT !.p = p, !.q = (p - 1) \div 2]
              /\ elGamalPc' = "generator" /\ elGamalStatus' = "running"
  /\ elGamalKey' = elGamalKey
  /\ elGamalPlain' = Nothing /\ elGamalCipher' = NoCipher /\ opened' = Nothing

\* hseed = 2 + (a number below p - 3); its square must not be one.
Generator(h, p) == (h * h) % p
Usable(g) == g # 1
FindGenerator ==
  /\ elGamalPc = "generator" /\ elGamalTries < ElGamalMaxTries
  /\ \E r \in 0 .. elGamalTmp.p - 4 :
       LET g == Generator(r + 2, elGamalTmp.p)
       IN  IF Usable(g)
           THEN elGamalTmp' = [elGamalTmp EXCEPT !.hseed = r + 2, !.g = g] /\ elGamalPc' = "secret" /\ elGamalTries' = 0
           ELSE elGamalTmp' = [elGamalTmp EXCEPT !.hseed = r + 2, !.g = g] /\ elGamalPc' = elGamalPc /\ elGamalTries' = elGamalTries + 1
  /\ UNCHANGED <<op, elGamalStatus, elGamalKey, elGamalCopied>> /\ Same

\* elgamal_random_nonzero draws again for zero.
Nonzero(x) == x # 0
DrawSecret ==
  /\ elGamalPc = "secret" /\ elGamalTries < ElGamalMaxTries
  /\ \E x \in 0 .. elGamalTmp.q - 1 :
       IF Nonzero(x)
       THEN /\ elGamalTmp' = [elGamalTmp EXCEPT !.x = x, !.h = PowMod(elGamalTmp.g, x, elGamalTmp.p)]
            /\ elGamalPc' = "copy" /\ elGamalTries' = 0
       ELSE elGamalTries' = elGamalTries + 1 /\ UNCHANGED <<elGamalTmp, elGamalPc>>
  /\ UNCHANGED <<op, elGamalStatus, elGamalKey, elGamalCopied>> /\ Same

ElGamalEmptied == NoKey
ElGamalCopy ==
  /\ elGamalPc = "copy" /\ elGamalCopied < 5
  /\ LET k == IF elGamalCopied = 0 THEN ElGamalEmptied ELSE elGamalKey
     IN  elGamalKey' = CASE elGamalCopied = 0 -> [k EXCEPT !.P = elGamalTmp.p]
                         [] elGamalCopied = 1 -> [k EXCEPT !.Q = elGamalTmp.q]
                         [] elGamalCopied = 2 -> [k EXCEPT !.G = elGamalTmp.g]
                         [] elGamalCopied = 3 -> [k EXCEPT !.H = elGamalTmp.h]
                         [] elGamalCopied = 4 -> [k EXCEPT !.X = elGamalTmp.x]
  /\ elGamalCopied' = elGamalCopied + 1
  /\ UNCHANGED <<op, elGamalPc, elGamalTries, elGamalStatus, elGamalTmp>> /\ Same

ElGamalComplete ==
  /\ elGamalPc = "copy" /\ elGamalCopied = 5
  /\ ElGamalExit("ok")
  /\ UNCHANGED <<op, elGamalTries, elGamalKey, elGamalCopied>> /\ Same

\* Tries used up, a failing draw, a failing number call, or a failing copy,
\* which finds the key objects emptied.
ElGamalFails ==
  /\ elGamalPc # "idle" /\ elGamalCopied < 5
  /\ ElGamalExit("failed")
  /\ elGamalKey' = IF elGamalPc = "copy" /\ elGamalCopied = 0 THEN ElGamalEmptied ELSE elGamalKey
  /\ UNCHANGED <<op, elGamalTries, elGamalCopied>> /\ Same

\* -------------------------- encryption, decryption -----------------------
Ready == elGamalPc = "idle" /\ elGamalKey.X # 0
Shared(y) == PowMod(elGamalKey.H, y, elGamalKey.P)
ElGamalEncrypt ==
  /\ Ready /\ op' = "encrypt"
  /\ \/ elGamalStatus' \in {"message_too_large", "failed"} /\ UNCHANGED <<elGamalPlain, elGamalCipher>>
     \/ \E m \in 0 .. elGamalKey.P - 1, y \in 1 .. elGamalKey.Q - 1 :
          /\ elGamalStatus' = "ok" /\ elGamalPlain' = m
          /\ elGamalCipher' = [C1 |-> PowMod(elGamalKey.G, y, elGamalKey.P),
                               C2 |-> (m * Shared(y)) % elGamalKey.P]
  /\ opened' = Nothing
  /\ UNCHANGED <<elGamalPc, elGamalTries, elGamalTmp, elGamalKey, elGamalCopied>>

\* The inverse of the shared value is C1 to the power p - 1 - x.
Factor(c1) == PowMod(c1, elGamalKey.P - 1 - elGamalKey.X, elGamalKey.P)
ElGamalDecrypt ==
  /\ Ready /\ elGamalPlain # Nothing /\ op' = "decrypt"
  /\ IF elGamalCipher.C1 = 0 \/ elGamalCipher.C1 >= elGamalKey.P \/ elGamalCipher.C2 >= elGamalKey.P
     THEN elGamalStatus' = "invalid_argument" /\ opened' = opened
     ELSE \/ elGamalStatus' = "failed" /\ opened' = opened
          \/ elGamalStatus' = "ok" /\ opened' = (elGamalCipher.C2 * Factor(elGamalCipher.C1)) % elGamalKey.P
  /\ UNCHANGED <<elGamalPc, elGamalTries, elGamalTmp, elGamalKey, elGamalCopied,
                 elGamalPlain, elGamalCipher>>

ElGamalNext == ElGamalKeygen \/ FindGenerator \/ DrawSecret \/ ElGamalCopy \/ ElGamalComplete \/ ElGamalFails
               \/ ElGamalEncrypt \/ ElGamalDecrypt
ElGamalSpec == ElGamalInit /\ [][ElGamalNext]_elGamalVars

(* ------------------------------- properties ----------------------------- *)

(* No temporary of a key generation survives its call, whichever way it ends.  *)
ElGamalTemporariesReturned == elGamalPc = "idle" => elGamalTmp = ElGamalNoTmp

(* A secret is never beside the parameters of another generation, however     *)
(* many generations fail half way: the objects are emptied before the copies  *)
(* and the secret is copied last, so a secret that is there belongs to the    *)
(* safe prime, to the generator and to h.                                     *)
SecretFitsParameters ==
  /\ op = "keygen" /\ elGamalStatus = "ok" => elGamalKey.X # 0
  /\ elGamalKey.X # 0 =>
    /\ IsPrime(elGamalKey.P) /\ IsPrime(elGamalKey.Q)
    /\ elGamalKey.Q = (elGamalKey.P - 1) \div 2
    /\ elGamalKey.G # 1 /\ elGamalKey.X \in 1 .. elGamalKey.Q - 1
    /\ elGamalKey.H = PowMod(elGamalKey.G, elGamalKey.X, elGamalKey.P)

(* A finished key pair generates the subgroup of the prime order q: g is a    *)
(* square other than one, so that h hides x among q values.                   *)
KeyInSubgroup ==
  elGamalKey.X # 0 =>
    PowMod(elGamalKey.G, elGamalKey.Q, elGamalKey.P) = 1 /\ elGamalKey.H # 1

(* What was encrypted under the present key comes back, for every message   *)
(* below p, zero included, unless a number call fails; the first half of a  *)
(* ciphertext is never refused.                                             *)
DecryptsToMessage ==
  op = "decrypt" =>
    /\ elGamalStatus \in {"ok", "failed"}
    /\ elGamalStatus = "ok" => opened = elGamalPlain

=============================================================================
