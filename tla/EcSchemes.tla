----------------------------- MODULE EcSchemes ------------------------------
(*****************************************************************************)
(* The three users of the short Weierstrass curves: key pairs, key agreement *)
(* and ECDSA.                                                                *)
(*****************************************************************************)
EXTENDS EcCurve
LOCAL INSTANCE Modular

-----------------------------------------------------------------------------
(*******************************************************************************)
(* Key pairs on a NIST curve: crypto_ecdsa_keygen_internal and its twin in     *)
(* ecdh.c draw scalars until one is valid, and ..._public_from_private derives *)
(* the public key of a given one.  The multiplication is that of EcCurve.      *)
(*******************************************************************************)
CONSTANTS
  KeysScalarBits, KeysEncodedBits,   \* bits of the order and of its bytes
  KeysDraws,                     \* random byte strings tried, as numbers
  KeygenAttempts             \* 128 in the code

VARIABLES
  scheme, keysOp, keysRequest,
  keysPrivate, keysPublic,           \* the two outputs; private is an input to "derive"
  drawn,                     \* the random scalars so far, before masking
  keysError, keysPc
keysVars == <<scheme, keysOp, keysRequest, keysPrivate, keysPublic, drawn, keysError, keysPc>>

KeysOld == -1
KeysCleared == 0
KeysOldBytes == <<KeysOld>>
ClearedBytes == <<KeysCleared>>

\* The checks of a call, each of which may fail.
KeysRequests == [known : BOOLEAN, present : BOOLEAN, length : BOOLEAN, room : BOOLEAN, disjoint : BOOLEAN]
KeygenVerdict(q) ==
  IF ~q.known THEN "ALG_ID" ELSE IF ~q.present THEN "ARGUMENT" ELSE IF ~q.room THEN "SMALL"
  ELSE IF ~q.disjoint THEN "ARGUMENT" ELSE "OK"
DeriveVerdict(q) ==
  IF ~q.known THEN "ALG_ID" ELSE IF ~q.present THEN "ARGUMENT"
  ELSE IF ~q.length THEN (IF scheme = "ecdsa" THEN "KEY" ELSE "ARGUMENT")
  ELSE IF ~q.room THEN "SMALL" ELSE IF ~q.disjoint THEN "ARGUMENT" ELSE "OK"
KeysVerdict == IF keysOp = "keygen" THEN KeygenVerdict(keysRequest) ELSE DeriveVerdict(keysRequest)

\* crypto_ec_scalar_is_valid_ct
KeysIsValid(s) == s # 0 /\ s < N
KeysMasked(bytes) == bytes % 2^KeysScalarBits
PublicOf(s) == Encode(Multiple(s, Generator), FALSE)

KeysInit ==
  /\ scheme \in {"ecdsa", "ecdh"} /\ keysOp \in {"keygen", "derive"}
  /\ keysRequest \in KeysRequests
  /\ keysPrivate \in IF keysOp = "derive" THEN 0 .. 2^KeysEncodedBits - 1 ELSE {KeysOld}
  /\ keysPublic = KeysOldBytes
  /\ drawn = <<>> /\ keysError = "OK" /\ keysPc = "check"
KeysCall == <<scheme, keysOp, keysRequest>>

KeysCheck ==
  /\ keysPc = "check"
  /\ keysError' = KeysVerdict
  /\ keysPc' = IF keysError' = "OK" THEN keysOp ELSE "done"
  /\ UNCHANGED <<KeysCall, keysPrivate, keysPublic, drawn>>

ClearOutputs == keysPublic' = ClearedBytes /\ keysPrivate' = KeysCleared
FailKeys(code) == ClearOutputs /\ keysError' = code /\ keysPc' = "done"

RandomFails ==
  /\ keysPc = "keygen" /\ Len(drawn) < KeygenAttempts
  /\ FailKeys("RANDOM") /\ UNCHANGED <<KeysCall, drawn>>
DrawInvalid ==
  /\ keysPc = "keygen" /\ Len(drawn) < KeygenAttempts
  /\ \E v \in KeysDraws : ~KeysIsValid(KeysMasked(v)) /\ drawn' = Append(drawn, v)
  /\ UNCHANGED <<KeysCall, keysPrivate, keysPublic, keysError, keysPc>>
DrawValid ==
  /\ keysPc = "keygen" /\ Len(drawn) < KeygenAttempts
  /\ \E v \in KeysDraws :
       /\ KeysIsValid(KeysMasked(v)) /\ drawn' = Append(drawn, v)
       /\ keysPrivate' = KeysMasked(v) /\ keysPublic' = PublicOf(KeysMasked(v))
  /\ keysPc' = "done" /\ UNCHANGED <<KeysCall, keysError>>
AttemptsExhausted ==
  /\ keysPc = "keygen" /\ Len(drawn) = KeygenAttempts
  /\ FailKeys("RANDOM") /\ UNCHANGED <<KeysCall, drawn>>

Derive ==
  /\ keysPc = "derive" /\ KeysIsValid(keysPrivate)
  /\ keysPublic' = PublicOf(keysPrivate) /\ keysPc' = "done"
  /\ UNCHANGED <<KeysCall, keysPrivate, drawn, keysError>>
DeriveInvalid ==
  /\ keysPc = "derive" /\ ~KeysIsValid(keysPrivate)
  /\ keysPublic' = ClearedBytes /\ keysError' = "KEY" /\ keysPc' = "done"
  /\ UNCHANGED <<KeysCall, keysPrivate, drawn>>

KeysFinished == keysPc = "done" /\ UNCHANGED keysVars
KeysNext == \/ KeysCheck \/ RandomFails \/ DrawInvalid \/ DrawValid \/ AttemptsExhausted
            \/ Derive \/ DeriveInvalid \/ KeysFinished
KeysSpec == KeysInit /\ [][KeysNext]_keysVars

(* ------------------------------- properties ----------------------------- *)

(* The private key is the first draw that is valid once the bits above the order *)
(* are dropped, and the attempts are exhausted only by draws that are not.       *)
FirstValidDraw ==
  LET low(i) == drawn[i] % 2^KeysScalarBits
      good(i) == low(i) \in 1 .. N - 1
  IN  keysPc = "done" /\ keysOp = "keygen" =>
        /\ \A i \in 1 .. Len(drawn) : good(i) => i = Len(drawn) /\ keysError = "OK" /\ keysPrivate = low(i)
        /\ keysError = "OK" => drawn # <<>> /\ good(Len(drawn))

(* A pair that is handed out belongs together: the public key is the encoding of a  *)
(* point of the curve other than infinity, and another one for another private key. *)
PairBelongs ==
  keysPc = "done" /\ keysError = "OK" =>
    /\ keysPrivate \in 1 .. N - 1
    /\ \E p \in EcCurvePoints \ {Infinity} : keysPublic = Encode(p, FALSE) /\ EcDecode(keysPublic, FALSE) = <<p>>
    /\ \A s \in 1 .. N - 1 : PublicOf(s) = keysPublic => s = keysPrivate

(* After a failure no half of a pair is left: both outputs of a generation are zero, *)
(* and nothing was touched by a call that was refused.                               *)
NoHalfPair ==
  keysPc = "done" /\ keysError # "OK" =>
    IF keysError \in {"RANDOM"} \/ (keysOp = "derive" /\ KeysVerdict = "OK")
    THEN keysPublic = ClearedBytes /\ (keysOp = "keygen" => keysPrivate = KeysCleared)
    ELSE keysPublic = KeysOldBytes /\ (keysOp = "keygen" => keysPrivate = KeysOld)


-----------------------------------------------------------------------------
(****************************************************************************)
(* crypto_ecdh_shared_secret_internal behind LIBERAC_KEY_AGREEMENT_...: one *)
(* side's private scalar and bytes said to be the other side's public key.  *)
(****************************************************************************)
CONSTANTS EncodedScalars,   \* private scalars tried, valid or not
          Foreign           \* byte strings that are no public key

VARIABLES
  ecdhRequest,           \* which of the checks pass
  ecdhPrivate, ecdhPeer,     \* the inputs
  ecdhPoint,             \* the decoded peer: a sequence of at most one point
  multiplied,        \* every point a secret was multiplied with
  ecdhSecret, ecdhError, ecdhPc
ecdhVars == <<ecdhRequest, ecdhPrivate, ecdhPeer, ecdhPoint, multiplied, ecdhSecret,
              ecdhError, ecdhPc>>

EcdhOld == -1
EcdhCleared == <<0>>
EcdhOldBytes == <<EcdhOld>>
EcdhRequests == [known : BOOLEAN, present : BOOLEAN, length : BOOLEAN, room : BOOLEAN,
                 apart : BOOLEAN, apartFromPeer : BOOLEAN]
EcdhEncodings ==
  {Encode(p, c) : p \in EcCurvePoints, c \in BOOLEAN} \cup Foreign

EcdhIsValid(s) == s # 0 /\ s < N
\* ecdh_peer_public_length_valid
LengthOk(e) == Len(e) \in {2, 3}
EcdhVerdict ==
  IF ~ecdhRequest.known THEN "ALG_ID"
  ELSE IF ~ecdhRequest.present \/ ~ecdhRequest.length \/ ~LengthOk(ecdhPeer) THEN "ARGUMENT"
  ELSE IF ~ecdhRequest.room THEN "SMALL"
  ELSE IF ~ecdhRequest.apart \/ ~ecdhRequest.apartFromPeer THEN "ARGUMENT"
  ELSE "OK"

EcdhInit ==
  /\ ecdhRequest \in EcdhRequests /\ ecdhPrivate \in EncodedScalars /\ ecdhPeer \in EcdhEncodings
  /\ ecdhPoint = <<>> /\ multiplied = {} /\ ecdhSecret = EcdhOldBytes
  /\ ecdhError = "OK" /\ ecdhPc = "check"
EcdhCall == <<ecdhRequest, ecdhPrivate, ecdhPeer>>

EcdhCheck ==
  /\ ecdhPc = "check"
  /\ ecdhError' = EcdhVerdict
  /\ ecdhPc' = IF ecdhError' = "OK" THEN "scalar" ELSE "done"
  /\ UNCHANGED <<EcdhCall, ecdhPoint, multiplied, ecdhSecret>>
OnFailure == EcdhCleared
EcdhFail ==
  /\ ecdhSecret' = OnFailure /\ ecdhError' = "KEY" /\ ecdhPc' = "done"
InvalidScalar ==
  /\ ecdhPc = "scalar" /\ ~EcdhIsValid(ecdhPrivate)
  /\ EcdhFail /\ UNCHANGED <<EcdhCall, ecdhPoint, multiplied>>
EcdhValidScalar ==
  /\ ecdhPc = "scalar" /\ EcdhIsValid(ecdhPrivate)
  /\ ecdhPc' = "decode" /\ UNCHANGED <<EcdhCall, ecdhPoint, multiplied, ecdhSecret, ecdhError>>
DecodedPeer == EcDecode(ecdhPeer, FALSE)
InvalidPeer ==
  /\ ecdhPc = "decode" /\ DecodedPeer = <<>>
  /\ EcdhFail /\ UNCHANGED <<EcdhCall, ecdhPoint, multiplied>>
ValidPeer ==
  /\ ecdhPc = "decode" /\ DecodedPeer # <<>>
  /\ ecdhPoint' = DecodedPeer /\ ecdhPc' = "multiply"
  /\ UNCHANGED <<EcdhCall, multiplied, ecdhSecret, ecdhError>>
FaultyShared(s, p) == Sum(Multiple(s, p), p)
Shared(s, p) == Multiple(s, p)
MultiplyPeer ==
  /\ ecdhPc = "multiply"
  /\ multiplied' = {ecdhPoint[1]}
  /\ LET q == Shared(ecdhPrivate, ecdhPoint[1])
     IN  /\ ecdhSecret' = IF q.infinity THEN OnFailure ELSE <<q.x>>
         /\ ecdhError' = IF q.infinity THEN "KEY" ELSE "OK"
  /\ ecdhPc' = "done"
  /\ UNCHANGED <<EcdhCall, ecdhPoint>>

EcdhFinished == ecdhPc = "done" /\ UNCHANGED ecdhVars
EcdhNext == \/ EcdhCheck \/ InvalidScalar \/ EcdhValidScalar \/ InvalidPeer \/ ValidPeer \/ MultiplyPeer
            \/ EcdhFinished
EcdhSpec == EcdhInit /\ [][EcdhNext]_ecdhVars

(* ------------------------------- properties ----------------------------- *)

(* A secret only ever meets points of the curve other than infinity, so what comes *)
(* out tells nothing of it modulo a smaller order.                                 *)
OnlyCurvePoints == \A p \in multiplied : ~p.infinity /\ IsOnCurve(p)

(* Both sides get the same bytes, whichever encoding of the key they were given.      *)
SidesAgree ==
  ecdhPc = "done" /\ ecdhError = "OK" =>
    \E d \in 1 .. N - 1 :
      /\ ecdhPeer \in {Encode(Multiple(d, Generator), TRUE), Encode(Multiple(d, Generator), FALSE)}
      /\ ecdhSecret = <<Shared(d, Multiple(ecdhPrivate, Generator)).x>>

(* Legal keys are never refused, and any refusal leaves zeros or what was there *)
(* before, never a part of the secret.                                          *)
RefusalsAreClean ==
  ecdhPc = "done" =>
    /\ EcdhVerdict = "OK" /\ EcdhIsValid(ecdhPrivate) /\ (\E p \in EcCurvePoints \ {Infinity} : ecdhPeer \in {Encode(p, TRUE), Encode(p, FALSE)})
         => ecdhError = "OK"
    /\ ecdhError # "OK" => ecdhSecret = (IF ecdhError = "KEY" THEN EcdhCleared ELSE EcdhOldBytes)


-----------------------------------------------------------------------------
(*******************************************************************************)
(* ECDSA signing with the nonces of RFC 6979 and verification (ecdsa.c).  The  *)
(* hash and HMAC are ideal: a digest is a number, an HMAC a term of its inputs *)
(* whose value as a number is open.                                            *)
(*******************************************************************************)
CONSTANTS
  EcdsaByteBits, EcdsaScalarBits, ScalarBytes,
  DigestBytes,      \* lengths of digest tried
  Privates, EcdsaDigests,
  EcdsaDraws,            \* numbers a batch of HMAC blocks may come out as
  Candidates,       \* 16 in the code
  Rs, EcdsaSs            \* what is tried as a signature

VARIABLES
  ecdsaOp,                  \* "sign" or "verify"
  ecdsaD, digest, digestBytes,
  key, ecdsaValue,          \* the generator: HMAC terms
  generated,           \* the blocks of the current candidate
  attempt, found, nonce,
  history,             \* each candidate with the key and the blocks it came from
  ecdsaSignature, ecdsaError, ecdsaPc
ecdsaVars == <<ecdsaOp, ecdsaD, digest, digestBytes, key, ecdsaValue, generated, attempt, found, nonce, history,
               ecdsaSignature, ecdsaError, ecdsaPc>>

EcdsaEncodedBits == EcdsaByteBits * ScalarBytes
Excess == EcdsaEncodedBits - EcdsaScalarBits
EcdsaOld == <<-1, -1>>
EcdsaCleared == <<0, 0>>
EcdsaIsValid(s) == s # 0 /\ s < N

\* crypto_ec_scalar_from_bytes_reduced: one subtraction.
EcdsaReduced(v) == IF v < N THEN v ELSE v - N
\* A long digest keeps its leading bits, as many as the order has.
Leading(h, n) == h \div 2^(EcdsaByteBits * (n - ScalarBytes) + Excess)
EcdsaScalar(h, n) == EcdsaReduced(IF EcdsaByteBits * n > EcdsaScalarBits THEN Leading(h, n) ELSE h)

\* ecdsa_rfc6979_initialize; tag 0, the private key and the digest, then tag 1.
Hmac(k, m) == <<k, m>>
Seeded(k, v, tag) == Hmac(k, <<v, tag, ecdsaD, EcdsaScalar(digest, digestBytes)>>)
Initial ==
  LET k0 == Seeded("zeros", "ones", 0)   v0 == Hmac(k0, "ones")
      k1 == Seeded(k0, v0, 1)
  IN  [key |-> k1, value |-> Hmac(k1, v0)]

EcdsaInit ==
  /\ ecdsaOp \in {"sign", "verify"}
  /\ digestBytes \in DigestBytes /\ digest \in EcdsaDigests /\ digest < 2^(EcdsaByteBits * digestBytes)
  /\ ecdsaD \in Privates /\ (ecdsaOp = "verify" => EcdsaIsValid(ecdsaD))
  /\ key = "none" /\ ecdsaValue = "none" /\ generated = <<>>
  /\ attempt = 0 /\ found = FALSE /\ nonce = 0 /\ history = <<>>
  /\ ecdsaSignature \in IF ecdsaOp = "sign" THEN {EcdsaOld} ELSE {<<r, s>> : r \in Rs, s \in EcdsaSs}
  /\ ecdsaError = "OK" /\ ecdsaPc = ecdsaOp
EcdsaCall == <<ecdsaOp, ecdsaD, digest, digestBytes>>
Generator0 == <<key, ecdsaValue, generated, attempt, found, nonce, history>>

EcdsaFail(code) ==
  /\ ecdsaError' = code /\ ecdsaPc' = "done"
  /\ ecdsaSignature' = (IF ecdsaOp = "sign" THEN EcdsaCleared ELSE ecdsaSignature)

\* ecdsa_hash_parameters: the digest may miss the order by less than a byte only.
Strong(n) == n + 1 >= ScalarBytes
\* The caller's pointers, lengths and ranges may fail their checks in any call: nothing
\* where something is needed, a key or signature of another length, a buffer that is too
\* small or lies on the key or the message.
BadArguments == {"ARGUMENT", "KEY", IF ecdsaOp = "sign" THEN "SMALL" ELSE "SIGNATURE"}
Refuse ==
  /\ ecdsaPc \in {"sign", "verify"} /\ ecdsaPc' = "refused"
  /\ ecdsaError' \in IF Strong(digestBytes) THEN BadArguments ELSE {"ALG_ID"}
  /\ UNCHANGED <<EcdsaCall, Generator0, ecdsaSignature>>

\* The hash or an HMAC may report an error.
EcdsaHashFails ==
  /\ ecdsaPc \in {"sign", "blocks", "verify"} /\ Strong(digestBytes)
  /\ EcdsaFail("HASH") /\ UNCHANGED <<EcdsaCall, Generator0>>
SignInvalid ==
  /\ ecdsaPc = "sign" /\ ~EcdsaIsValid(ecdsaD) /\ Strong(digestBytes)
  /\ EcdsaFail("KEY") /\ UNCHANGED <<EcdsaCall, Generator0>>
Initialise ==
  /\ ecdsaPc = "sign" /\ EcdsaIsValid(ecdsaD) /\ Strong(digestBytes)
  /\ key' = Initial.key /\ ecdsaValue' = Initial.value /\ ecdsaPc' = "blocks"
  /\ UNCHANGED <<EcdsaCall, generated, attempt, found, nonce, history, ecdsaSignature,
                 ecdsaError>>

\* Blocks until there are bytes enough for a scalar.
GenerateBlock ==
  /\ ecdsaPc = "blocks" /\ attempt < Candidates /\ Len(generated) * digestBytes < ScalarBytes
  /\ ecdsaValue' = Hmac(key, ecdsaValue)
  /\ generated' = Append(generated, ecdsaValue')
  /\ UNCHANGED <<EcdsaCall, key, attempt, found, nonce, history, ecdsaSignature, ecdsaError,
                 ecdsaPc>>
Selects(valid) == valid /\ ~found
UpdatedKey == Hmac(key, <<ecdsaValue, 0>>)
Candidate ==
  /\ ecdsaPc = "blocks" /\ attempt < Candidates /\ Len(generated) * digestBytes >= ScalarBytes
  /\ \E v \in EcdsaDraws :
       LET c == v \div 2^Excess
       IN  /\ nonce' = IF Selects(EcdsaIsValid(c)) THEN c ELSE nonce
           /\ found' = (found \/ EcdsaIsValid(c))
           /\ key' = UpdatedKey
           /\ history' = Append(history, [number |-> v, key |-> key, blocks |-> generated])
  /\ ecdsaValue' = Hmac(key', ecdsaValue)
  /\ generated' = <<>> /\ attempt' = attempt + 1
  /\ UNCHANGED <<EcdsaCall, ecdsaSignature, ecdsaError, ecdsaPc>>
NoCandidate ==
  /\ ecdsaPc = "blocks" /\ attempt = Candidates /\ ~found
  /\ EcdsaFail("INTERNAL") /\ UNCHANGED <<EcdsaCall, Generator0>>

\* r and s of the nonce; either may be zero.
R0(k) == EcdsaReduced(Multiple(k, Generator).x)
S0(k, r, e) == (InverseMod(k, N) * EcdsaReduced(e + ((r * ecdsaD) % N))) % N
Sign ==
  /\ ecdsaPc = "blocks" /\ attempt = Candidates /\ found
  /\ LET r == R0(nonce)
         s == S0(nonce, r, EcdsaScalar(digest, digestBytes))
     IN  IF r = 0 \/ s = 0 THEN EcdsaFail("INTERNAL")
         ELSE ecdsaSignature' = <<r, s>> /\ ecdsaError' = "OK" /\ ecdsaPc' = "done"
  /\ UNCHANGED <<EcdsaCall, Generator0>>

\* crypto_ecdsa_verify_internal after the key was decoded.
InRange(v) == EcdsaIsValid(v)
Accepts(q, e, r, s) ==
  LET w == InverseMod(s, N)
      p == Sum(Multiple((e * w) % N, Generator), Multiple((r * w) % N, q))
  IN  /\ InRange(r) /\ InRange(s)
      /\ ~p.infinity /\ EcdsaReduced(p.x) = r
PublicKey == Multiple(ecdsaD, Generator)
EcdsaVerify ==
  /\ ecdsaPc = "verify" /\ Strong(digestBytes)
  /\ ecdsaError' = IF Accepts(PublicKey, EcdsaScalar(digest, digestBytes), ecdsaSignature[1], ecdsaSignature[2])
                   THEN "OK" ELSE "SIGNATURE"
  /\ ecdsaPc' = "done"
  /\ UNCHANGED <<EcdsaCall, Generator0, ecdsaSignature>>

EcdsaFinished == ecdsaPc \in {"done", "refused"} /\ UNCHANGED ecdsaVars
EcdsaNext == \/ Refuse \/ EcdsaHashFails \/ SignInvalid \/ Initialise \/ GenerateBlock \/ Candidate \/ NoCandidate
             \/ Sign \/ EcdsaVerify \/ EcdsaFinished
EcdsaSpec == EcdsaInit /\ [][EcdsaNext]_ecdsaVars

(* ------------------------------- properties ----------------------------- *)

\* RFC 6979, section 3.2: the state before the i-th candidate, and its blocks.
BlocksNeeded == (ScalarBytes + digestBytes - 1) \div digestBytes
Chain(k, v) == LET c[j \in 0 .. BlocksNeeded] == IF j = 0 THEN v ELSE Hmac(k, c[j - 1]) IN c
StateBefore(i) ==
  LET state[j \in 1 .. i] ==
        IF j = 1 THEN Initial
        ELSE LET s == state[j - 1]
                 k == Hmac(s.key, <<Chain(s.key, s.value)[BlocksNeeded], 0>>)
             IN  [key |-> k, value |-> Hmac(k, Chain(s.key, s.value)[BlocksNeeded])]
  IN  state[i]

(* The nonce is the one RFC 6979 defines, although all candidates are computed: each *)
(* comes from the standard's state, and the first one in range is kept.              *)
NonceIsFirstValid ==
  LET c(i) == history[i].number \div 2^Excess
      valid(i) == c(i) \in 1 .. N - 1
  IN  /\ ecdsaPc = "blocks" /\ history # <<>> =>
           LET i == Len(history)  s == StateBefore(i)
           IN  /\ history[i].key = s.key
               /\ history[i].blocks = [j \in 1 .. BlocksNeeded |-> Chain(s.key, s.value)[j]]
      /\ found = (\E i \in 1 .. Len(history) : valid(i))
      /\ \A i \in 1 .. Len(history) : valid(i) /\ (\A j \in 1 .. i - 1 : ~valid(j)) => nonce = c(i)

(* What is signed is accepted under the matching key.                                *)
EcdsaSignaturesVerify ==
  ecdsaOp = "sign" /\ ecdsaPc = "done" /\ ecdsaError = "OK" =>
    /\ ecdsaSignature[1] \in 1 .. N - 1 /\ ecdsaSignature[2] \in 1 .. N - 1
    /\ Accepts(PublicKey, EcdsaScalar(digest, digestBytes), ecdsaSignature[1], ecdsaSignature[2])

(* A signature is accepted exactly when some nonce gives it: r of the nonce's point *)
(* and s k = e + r d, both in range.                                                *)
AcceptsExactly ==
  ecdsaOp = "verify" /\ ecdsaPc = "done" /\ ecdsaError # "HASH" =>
    LET r == ecdsaSignature[1]  s == ecdsaSignature[2]  n == EcdsaByteBits * digestBytes
        e == IF n > EcdsaScalarBits THEN digest \div 2^(n - EcdsaScalarBits) ELSE digest
    IN  (ecdsaError = "OK") = (/\ r \in 1 .. N - 1 /\ s \in 1 .. N - 1
                               /\ \E k \in 1 .. N - 1 : /\ r = Multiple(k, Generator).x % N
                                                        /\ (s * k - e - r * ecdsaD) % N = 0)

(* A failure, at whatever point of the generator, leaves no part of a signature; *)
(* a call refused for its hash or its arguments leaves the buffer alone.         *)
EcdsaFailureLeavesNothing ==
  ecdsaOp = "sign" =>
    /\ ecdsaPc = "done" /\ ecdsaError # "OK" => ecdsaSignature = EcdsaCleared
    /\ ecdsaPc = "refused" => ecdsaSignature = EcdsaOld

=============================================================================
