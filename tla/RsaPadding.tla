----------------------------- MODULE RsaPadding -----------------------------
(*****************************************************************************)
(* The padded operations of src/src/AsymmetricCipher/RSA/rsa_pkcs1.c: what   *)
(* OAEP and PSS share, OAEP encryption and decryption, and PSS signature and *)
(* verification.                                                             *)
(*****************************************************************************)
EXTENDS Integers, Sequences
LOCAL INSTANCE SequencesExt

-----------------------------------------------------------------------------
(***************************************************************************)
(* What OAEP and PSS share (rsa_pkcs1.c): bytes and numbers, the mask      *)
(* generation function, the validity of keys, and the RSA permutation.  A  *)
(* byte has ByteBits bits (8 in the code), a digest one byte or a few, and *)
(* the permutation of the residues modulo N is multiplication by a fixed   *)
(* number: KeyPairs and Exponentiation are about exponents.                *)
(***************************************************************************)
CONSTANTS RsaByteBits, RsaModuli, HashLengths

B == 2^RsaByteBits
RsaByte == 0 .. B - 1
RsaZeros(n) == [i \in 1 .. n |-> 0]

\* An external digest of h bytes.
Hash(s, h) ==
  [j \in 1 .. h |-> (FoldLeft(LAMBDA acc, x : 5 * acc + 3 * x + j + 1, Len(s), s) % 4099) % B]

\* rsa_mgf1_xor: block after block of the digest of seed and counter, the last
\* one possibly in part.
Take(left, h) == IF left > h THEN h ELSE left
XorByte(a, b) == CHOOSE x \in RsaByte :
  \A i \in 0 .. RsaByteBits - 1 :
    (x \div 2^i) % 2 = ((a \div 2^i) + (b \div 2^i)) % 2
Xor(s, t) == [i \in 1 .. Len(s) |-> XorByte(s[i], t[i])]
Mgf1Xor(output, seed, h) ==
  LET blocks == Len(output) \div h + (IF Len(output) % h # 0 THEN 1 ELSE 0)
      mask[b \in 0 .. blocks] ==
        IF b = 0 THEN <<>>
        ELSE mask[b - 1] \o SubSeq(Hash(Append(seed, b - 1), h), 1,
                                   Take(Len(output) - Len(mask[b - 1]), h))
  IN  Xor(output, mask[blocks])

\* Big-endian bytes of a number, and their number.
Number(s) == FoldLeft(LAMBDA acc, x : acc * B + x, 0, s)
Bytes(v, n) == [i \in 1 .. n |-> (v \div B^(n - i)) % B]

\* rsa_modulus_size.
RsaBitLength(v) == CHOOSE b \in 0 .. 31 : v < 2^b /\ (b = 0 \/ 2^(b - 1) <= v)
ByteCount(bits) == bits \div RsaByteBits + (IF bits % RsaByteBits # 0 THEN 1 ELSE 0)
ModulusSize(n) == ByteCount(RsaBitLength(n))

\* rsa_private_key_valid: a borrow out of D - N over the width of N says D < N.
PrivateKeyValid(n, d) ==
  LET w == ModulusSize(n)
      borrow[i \in 0 .. w] ==
        IF i = 0 THEN 0
        ELSE IF Bytes(d, w)[w + 1 - i] < Bytes(n, w)[w + 1 - i] + borrow[i - 1]
             THEN 1 ELSE 0
  IN  n % 2 = 1 /\ d # 0 /\ borrow[w] # 0

\* The permutation and its inverse.
Multiplier == 2
Public(v, n) == (v * Multiplier) % n
Private(v, n) == (v * ((n + 1) \div 2)) % n


-----------------------------------------------------------------------------
(*****************************************************************************)
(* RSA-OAEP (crypto_rsa_oaep_encrypt_internal, _decrypt_internal): encrypt a *)
(* message and decrypt the result, or decrypt any number of the ciphertext's *)
(* length.  The search for the delimiter runs over the whole data block with *)
(* masks; every reason to reject a ciphertext gives the same error.          *)
(*****************************************************************************)
VARIABLES
  oaepPc, oaepStatus,
  oaepN, oaepH,          \* modulus and digest length
  oaepD,             \* the private exponent, as the validity test sees it
  label,
  oaepPlain,         \* the message encrypted; Unknown for a made-up ciphertext
  oaepCipher,        \* bytes
  encoded,       \* EM: a zero byte, the seed, the data block
  oaepI, bad, seeking, index,  \* of the delimiter scan, i 0-based
  message, length          \* the caller's buffer and *message_length
oaepVars == <<oaepPc, oaepStatus, oaepN, oaepH, oaepD, label, oaepPlain, oaepCipher, encoded, oaepI, bad, seeking, index,
              message, length>>

Unknown == <<-1>>
OaepK == ModulusSize(oaepN)
MaxMessage == OaepK - 2 * oaepH - 2
OaepDbLength == OaepK - oaepH - 1
Seed(em) == SubSeq(em, 2, oaepH + 1)
DataBlock(em) == SubSeq(em, oaepH + 2, OaepK)
Join(first, seed, db) == <<first>> \o seed \o db
LabelHash == Hash(<<label>>, oaepH)

Strings(k) == UNION {[1 .. j -> RsaByte] : j \in 0 .. k}
\* What the caller's length variable holds before a call: no length of a message.
Garbage == -1

OaepInit ==
  /\ oaepN \in RsaModuli /\ oaepH \in HashLengths /\ label \in {0, 1}
  /\ oaepD = oaepN - 1
  /\ oaepPc = "encrypt" /\ oaepStatus = "none"
  /\ oaepPlain \in {Unknown} \cup {m \in Strings(2) : Len(m) <= MaxMessage + 1}
  /\ oaepCipher = <<>> /\ encoded = <<>>
  /\ oaepI = 0 /\ bad = 0 /\ seeking = 1 /\ index = 0
  /\ message = <<>> /\ length = Garbage
Scan == <<oaepI, bad, seeking, index>>
Key == <<oaepN, oaepH>>

\* The checks in their order: what is asked of a buffer of the caller's (that it is
\* large enough, that it overlaps no input) may fail in any call.
TooSmall == OaepK < 2 * oaepH + 2
RefuseEncrypt ==
  /\ oaepPc = "encrypt" /\ oaepPlain # Unknown
  /\ oaepStatus' \in IF TooSmall THEN {"invalid_key"}
                    ELSE {"buffer_too_small"} \cup
                         (IF Len(oaepPlain) > MaxMessage THEN {"message_too_large"} ELSE {"invalid_argument"})
  /\ oaepPc' = "done"
  /\ UNCHANGED <<Key, oaepD, label, oaepPlain, oaepCipher, encoded, Scan, message, length>>

\* lHash, zeros, one, message; masked both ways; any seed.
Delimiter == OaepDbLength - Len(oaepPlain) - 1
PaddedBlock ==
  [j \in 1 .. OaepDbLength |-> IF j <= oaepH THEN LabelHash[j]
                               ELSE IF j <= Delimiter THEN 0
                               ELSE IF j = Delimiter + 1 THEN 1
                               ELSE oaepPlain[j - Delimiter - 1]]
Masked(seed) ==
  LET db == Mgf1Xor(PaddedBlock, seed, oaepH)
  IN  Join(0, Mgf1Xor(seed, db, oaepH), db)
OaepEncrypt ==
  /\ oaepPc = "encrypt" /\ oaepPlain # Unknown
  /\ ~TooSmall /\ Len(oaepPlain) <= MaxMessage
  /\ \E seed \in [1 .. oaepH -> RsaByte] :
       oaepCipher' = Bytes(Public(Number(Masked(seed)), oaepN), OaepK)
  /\ oaepPc' = "decrypt"
  /\ UNCHANGED <<oaepStatus, Key, oaepD, label, oaepPlain, encoded, Scan, message, length>>

\* Hashing, randomness or the number library fails: the ciphertext is cleared.
EncryptFails ==
  /\ oaepPc = "encrypt" /\ oaepPlain # Unknown /\ ~TooSmall /\ Len(oaepPlain) <= MaxMessage
  /\ oaepStatus' = "error" /\ oaepPc' = "done" /\ oaepCipher' = RsaZeros(OaepK)
  /\ UNCHANGED <<Key, oaepD, label, oaepPlain, encoded, Scan, message, length>>

\* Somebody else's ciphertext, one byte short or not.
OaepReceive ==
  /\ oaepPc = "encrypt" /\ oaepPlain = Unknown
  /\ \E c \in [1 .. OaepK -> RsaByte], short \in BOOLEAN :
       oaepCipher' = IF short THEN SubSeq(c, 1, OaepK - 1) ELSE c
  /\ oaepPc' = "decrypt"
  /\ UNCHANGED <<oaepStatus, Key, oaepD, label, oaepPlain, encoded, Scan, message, length>>

\* ------------------------------- decryption ------------------------------
\* Keys of the wrong kind are tried too: zero, the modulus itself, and more.
OaepStart ==
  /\ oaepPc = "decrypt"
  /\ \E e \in {0, 1, oaepN - 1, oaepN, oaepN + 1} :
       /\ oaepD' = e
       /\ IF ~PrivateKeyValid(oaepN, e) \/ TooSmall
          THEN oaepPc' = "done" /\ oaepStatus' = "invalid_key" /\ UNCHANGED <<message, length>>
          ELSE \/ /\ oaepPc' = "done" /\ oaepStatus' \in {"buffer_too_small", "invalid_argument"}
                  /\ UNCHANGED <<message, length>>
               \/ /\ message' = RsaZeros(MaxMessage) /\ length' = 0
                  /\ IF Len(oaepCipher) # OaepK
                     THEN oaepPc' = "done" /\ oaepStatus' = "authentication_failed"
                     ELSE oaepPc' = "private" /\ oaepStatus' = oaepStatus
  /\ UNCHANGED <<Key, label, oaepPlain, oaepCipher, encoded, Scan>>

Clear == message' = RsaZeros(MaxMessage) /\ length' = 0
Fail(s) == oaepPc' = "done" /\ oaepStatus' = s /\ Clear

\* The number must be below the modulus; both masks come off.
NotBelow == "authentication_failed"
PrivateOperation ==
  /\ oaepPc = "private"
  /\ IF Number(oaepCipher) >= oaepN
     THEN Fail(NotBelow) /\ UNCHANGED <<encoded, Scan>>
     ELSE LET em   == Bytes(Private(Number(oaepCipher), oaepN), OaepK)
              seed == Mgf1Xor(Seed(em), DataBlock(em), oaepH)
              db   == Mgf1Xor(DataBlock(em), seed, oaepH)
          IN  /\ encoded' = Join(em[1], seed, db)
              /\ bad' = IF em[1] # 0 \/ SubSeq(db, 1, oaepH) # LabelHash THEN 1 ELSE 0
              /\ oaepI' = oaepH /\ seeking' = 1 /\ index' = OaepDbLength
              /\ oaepPc' = "scan" /\ UNCHANGED <<oaepStatus, message, length>>
  /\ UNCHANGED <<Key, oaepD, label, oaepPlain, oaepCipher>>

DecryptFails ==
  /\ oaepPc \in {"private", "scan"}
  /\ Fail("error")
  /\ UNCHANGED <<Key, oaepD, label, oaepPlain, oaepCipher, encoded, Scan>>

\* One byte of the data block: rsa_ct_is_zero_u8, rsa_ct_select_size.
IsZero(v) == IF v = 0 THEN 1 ELSE 0
StillSeeking(isOne) == seeking * (1 - isOne)
Marked(isZero, isOne) ==
  IF seeking = 1 /\ isZero = 0 /\ isOne = 0 THEN 1 ELSE bad
ScanByte ==
  /\ oaepPc = "scan" /\ oaepI < OaepDbLength
  /\ LET byte   == DataBlock(encoded)[oaepI + 1]
         isZero == IsZero(byte)
         isOne  == IsZero(XorByte(byte, 1))
     IN  /\ index' = IF seeking = 1 /\ isOne = 1 THEN oaepI + 1 ELSE index
         /\ bad' = Marked(isZero, isOne)
         /\ seeking' = StillSeeking(isOne)
  /\ oaepI' = oaepI + 1
  /\ UNCHANGED <<oaepPc, oaepStatus, Key, oaepD, label, oaepPlain, oaepCipher, encoded,
                 message, length>>

Deliver ==
  /\ oaepPc = "scan" /\ oaepI = OaepDbLength
  /\ IF bad = 1 \/ seeking = 1
     THEN Fail("authentication_failed")
     ELSE /\ message' = [j \in 1 .. MaxMessage |->
                IF j <= OaepDbLength - index THEN DataBlock(encoded)[index + j] ELSE message[j]]
          /\ length' = OaepDbLength - index
          /\ oaepPc' = "done" /\ oaepStatus' = "ok"
  /\ UNCHANGED <<Key, oaepD, label, oaepPlain, oaepCipher, encoded, Scan>>

OaepFinished == oaepPc = "done" /\ UNCHANGED oaepVars
OaepNext == \/ RefuseEncrypt \/ OaepEncrypt \/ EncryptFails \/ OaepReceive \/ OaepStart
            \/ PrivateOperation \/ DecryptFails \/ ScanByte \/ Deliver \/ OaepFinished
OaepSpec == OaepInit /\ [][OaepNext]_oaepVars

(* ------------------------------- properties ----------------------------- *)
\* A data block is well formed when some split of it into the label digest,
\* zeros, a one and a message exists.
Message(db, z) == SubSeq(db, oaepH + z + 2, Len(db))
Split(db) ==
  {z \in 0 .. Len(db) - oaepH - 1 :
     /\ \A j \in oaepH + 1 .. oaepH + z : db[j] = 0
     /\ db[oaepH + z + 1] = 1}

(* What was encrypted comes back whole, for every message length up to the *)
(* largest, every seed and every label.                                    *)
RoundTrip ==
  oaepPc = "done" /\ oaepPlain # Unknown /\ oaepD \in 1 .. oaepN - 1 /\ length # Garbage /\ oaepStatus # "error" =>
    oaepStatus = "ok" /\ SubSeq(message, 1, length) = oaepPlain

(* A ciphertext is accepted exactly when it is a residue whose leading byte is *)
(* zero, whose label digest agrees and whose data block splits; the message is *)
(* what follows the first one, whatever comes after it: the masked scan agrees *)
(* with the definition of the encoding.                                        *)
AcceptsExactly ==
  oaepPc = "done" /\ length # Garbage /\ oaepStatus # "error" =>
    IF oaepStatus = "ok"
    THEN /\ Number(oaepCipher) < oaepN /\ encoded[1] = 0
         /\ SubSeq(DataBlock(encoded), 1, oaepH) = LabelHash
         /\ \E z \in Split(DataBlock(encoded)) :
              SubSeq(message, 1, length) = Message(DataBlock(encoded), z)
    ELSE \/ Len(oaepCipher) # OaepK \/ Number(oaepCipher) >= oaepN
         \/ encoded[1] # 0 \/ SubSeq(DataBlock(encoded), 1, oaepH) # LabelHash
         \/ Split(DataBlock(encoded)) = {}

(* Whatever is wrong with a ciphertext, the caller sees one error, an empty *)
(* message and a cleared buffer.                                            *)
RejectionIsUniform ==
  oaepPc = "done" /\ length # Garbage /\ oaepStatus # "ok" =>
    /\ oaepStatus \in {"authentication_failed", "error"}
    /\ length = 0 /\ message = RsaZeros(MaxMessage)

(* The fixed-width borrow scan admits exactly the exponents between zero and the *)
(* modulus; nothing is written for any other.                                    *)
InvalidKeysRefused ==
  oaepPc \in {"private", "scan"} \/ oaepStatus = "ok" => oaepD \in 1 .. oaepN - 1


-----------------------------------------------------------------------------
(******************************************************************************)
(* RSA-PSS (crypto_rsa_pss_sign_internal, _verify_internal).  The encoding    *)
(* has one bit less than the modulus, so it may be one byte shorter, and its  *)
(* unused top bits are cleared so that it is a residue.  Verification adds up *)
(* everything that is wrong before it decides.                                *)
(******************************************************************************)
CONSTANTS
  PssModuli,
  SaltLengths    \* asked for; Digest means the length of the digest

Digest == -1
Trailer == B - 2

VARIABLES
  pssPc, pssStatus,
  pssN, pssH, asked,      \* modulus, digest length, salt length
  text,             \* the message signed; 0 or 1
  signature,        \* bytes
  claimed           \* the message a signature is verified for
pssVars == <<pssPc, pssStatus, pssN, pssH, asked, text, signature, claimed>>

PssNone == -1
PssK == ModulusSize(pssN)
EncodedBits == RsaBitLength(pssN) - 1
EncodedLength == ByteCount(EncodedBits)
\* rsa_resolve_salt_length
SaltLength == IF asked = Digest THEN pssH ELSE asked
Fits == EncodedLength >= pssH + SaltLength + 2
PssDbLength == EncodedLength - pssH - 1
PaddingLength == PssDbLength - SaltLength - 1
UnusedBits == RsaByteBits * EncodedLength - EncodedBits
\* The first byte with its unused bits cleared.
Allowed(byte) == byte % 2^(RsaByteBits - UnusedBits)
Cut(db) == <<Allowed(db[1])>> \o SubSeq(db, 2, Len(db))
MessageHash(m) == Hash(<<m>>, pssH)
\* rsa_hash_three over a zero prefix, the message digest and the salt.
Digest3(m, salt) == Hash(RsaZeros(2) \o MessageHash(m) \o salt, pssH)

PssInit ==
  /\ pssPc = "sign" /\ pssStatus = "none"
  /\ pssN \in PssModuli /\ pssH \in HashLengths /\ asked \in SaltLengths \cup {Digest}
  /\ text \in {PssNone, 0, 1} /\ claimed = PssNone
  /\ signature = <<>>

\* Too long for the modulus, or a buffer that is too small or overlaps the message.
RefuseSign ==
  /\ pssPc = "sign" /\ text # PssNone
  /\ pssStatus' \in (IF Fits THEN {"buffer_too_small", "invalid_argument"} ELSE {"message_too_large"})
  /\ pssPc' = "done"
  /\ UNCHANGED <<pssN, pssH, asked, text, signature, claimed>>

Encoding(m, salt) ==
  LET hash == Digest3(m, salt)
      db   == Mgf1Xor(Append(RsaZeros(PaddingLength), 1) \o salt, hash, pssH)
  IN  Cut(db) \o hash \o <<Trailer>>

Sign ==
  /\ pssPc = "sign" /\ text # PssNone /\ Fits
  /\ \E salt \in [1 .. SaltLength -> RsaByte] :
       signature' = Bytes(Private(Number(Encoding(text, salt)), pssN), PssK)
  /\ pssPc' = "verify" /\ pssStatus' = "ok"
  /\ UNCHANGED <<pssN, pssH, asked, text, claimed>>

\* Hashing, randomness or the number library fails: the signature is cleared.
SignFails ==
  /\ pssPc = "sign" /\ text # PssNone /\ Fits
  /\ signature' = RsaZeros(PssK) /\ pssStatus' = "error" /\ pssPc' = "done"
  /\ UNCHANGED <<pssN, pssH, asked, text, claimed>>

\* Any bytes somebody else sends as a signature, of the right length or not.
PssReceive ==
  /\ pssPc = "sign" /\ text = PssNone
  /\ \E s \in [1 .. PssK -> RsaByte] \cup {RsaZeros(PssK - 1)} : signature' = s
  /\ pssPc' = "verify"
  /\ UNCHANGED <<pssStatus, pssN, pssH, asked, text, claimed>>

\* rsa_public_verify_operation: not a residue, or too long for the encoding.
Recovers(s) ==
  Number(s) < pssN /\ Public(Number(s), pssN) < B^EncodedLength

\* What is wrong with a recovered encoding; all of it is looked at.
Unused(em) == IF em[1] # Allowed(em[1]) THEN {"unused bits"} ELSE {}
Faults(em, m) ==
  LET hash == SubSeq(em, PssDbLength + 1, PssDbLength + pssH)
      raw  == Mgf1Xor(SubSeq(em, 1, PssDbLength), hash, pssH)
      db   == Cut(raw)
      salt == SubSeq(db, PaddingLength + 2, PssDbLength)
  IN  Unused(em)
      \cup (IF em[EncodedLength] # Trailer THEN {"trailer"} ELSE {})
      \cup (IF SubSeq(db, 1, PaddingLength) # RsaZeros(PaddingLength) THEN {"padding"} ELSE {})
      \cup (IF db[PaddingLength + 1] # 1 THEN {"delimiter"} ELSE {})
      \cup (IF hash # Digest3(m, salt) THEN {"hash"} ELSE {})

Verify ==
  /\ pssPc = "verify" /\ claimed' \in {0, 1}
  /\ pssStatus' =
       IF Len(signature) # PssK THEN "signature_invalid"
       ELSE IF ~Fits THEN "invalid_argument"
       ELSE IF ~Recovers(signature) THEN "signature_invalid"
       ELSE LET em == Bytes(Public(Number(signature), pssN), EncodedLength)
            IN  IF Faults(em, claimed') = {} THEN "ok" ELSE "signature_invalid"
  /\ pssPc' = "verified"
  /\ UNCHANGED <<pssN, pssH, asked, text, signature>>

Again == pssPc = "verified" /\ pssPc' = "verify" /\ UNCHANGED <<pssStatus, pssN, pssH,
                                                                asked, text, signature,
                                                                claimed>>
PssFinished == pssPc = "done" /\ UNCHANGED pssVars
PssNext == RefuseSign \/ Sign \/ SignFails \/ PssReceive \/ Verify \/ Again \/ PssFinished
PssSpec == PssInit /\ [][PssNext]_pssVars

(* ------------------------------- properties ----------------------------- *)

(* The private operation takes the encoding without comparing it with the    *)
(* modulus (rsa_pkcs1.c:253): for every salt it is in fact a residue, and it *)
(* fits in as many bytes as the encoding has.                                *)
EncodingIsResidue ==
  pssPc = "sign" /\ text # PssNone /\ Fits =>
    \A salt \in [1 .. SaltLength -> RsaByte] :
      /\ Number(Encoding(text, salt)) < pssN
      /\ Len(Encoding(text, salt)) = EncodedLength

(* Every signature made verifies for its message, with the same salt length.     *)
SignaturesVerify ==
  pssPc = "verified" /\ text # PssNone /\ claimed = text => pssStatus = "ok"

(* A signature is accepted only if it is the permuted encoding of the message   *)
(* with some salt, and it is always accepted then: summing up faults accepts no *)
(* second form of a signature, with an unused bit set or a multiple of the      *)
(* modulus added.                                                               *)
AcceptsExactlyEncodings ==
  pssPc = "verified" =>
    (pssStatus = "ok" <=>
       Fits /\ \E salt \in [1 .. SaltLength -> RsaByte] :
         signature = Bytes(Private(Number(Encoding(claimed, salt)), pssN), PssK))

=============================================================================
