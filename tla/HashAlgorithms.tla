--------------------------- MODULE HashAlgorithms ---------------------------
(***************************************************************************)
(* The hash algorithms behind the incremental interface, as parameters,    *)
(* and what their standards say a message is padded to: the reference the  *)
(* context code is compared with.                                          *)
(*                                                                         *)
(* The compression functions and the Keccak permutation are symbolic: a    *)
(* state is named by the bytes fed to it, so two states are equal only     *)
(* when the same bytes were compressed (ideal, collision-free compression).*)
(***************************************************************************)
EXTENDS Integers, Sequences

CONSTANTS
    Algs,         \* supported LIBERAC_ALG_HASH_* identifiers
    Family,       \* [Algs -> "SHA1", "SHA256", "SHA512", "LSH", "SHA3", "SHAKE"]
    Block,        \* [Algs -> block length in bytes, the rate of a sponge]
    DigestLen,    \* [Algs -> digest length in bytes], 0 for a XOF
    Domain,       \* [Algs -> domain byte of a sponge]
    Radix,        \* number of byte values (256)
    BitsPerByte,  \* the factor of the length field (8)
    LenBytes      \* bytes of the length field that ends the last block

Byte == 0 .. Radix - 1
Top  == Radix \div 2                \* 0x80

LengthFamilies == {"SHA1", "SHA256", "SHA512"}
SpongeFamilies == {"SHA3", "SHAKE"}

(* The length field has LenMax + 1 values; SHA-512 keeps it in two words.  *)
LenMax == Radix^LenBytes - 1
Word   == Radix^(LenBytes \div 2)

ASSUME HashConstants ==
    /\ Family \in [Algs -> LengthFamilies \cup SpongeFamilies \cup {"LSH"}]
    /\ Block \in [Algs -> Nat \ {0}]
    /\ DigestLen \in [Algs -> Nat]
    /\ Radix \in Nat /\ Radix > 3 /\ Radix % 2 = 0
    /\ Domain \in [Algs -> 1 .. Top - 1]
    /\ BitsPerByte \in Nat \ {0}
    /\ LenBytes \in Nat \ {0}

(* The facts about powers that the length arithmetic relies on.            *)
ASSUME LengthConstants ==
    /\ LenMax \in Nat /\ Word \in Nat \ {0}
    /\ LenMax = Word * Word - 1
    /\ Word % BitsPerByte = 0
    /\ LenBytes % 2 = 0
    /\ \A k \in 0 .. LenBytes : Radix^k \in Nat \ {0}
    /\ Radix^1 = Radix
    /\ \A j, k \in 0 .. LenBytes :
          j + k <= LenBytes => Radix^(j + k) = Radix^j * Radix^k
    /\ \A a \in Algs : Family[a] \in LengthFamilies => LenBytes < Block[a]

(* Two sponges differ in their rate or in their domain byte; no algorithm  *)
(* has the name InitialValue gives the state all of them start from.       *)
ASSUME SpongeConstants ==
    /\ \A a, b \in Algs :
          /\ {Family[a], Family[b]} \subseteq SpongeFamilies
          /\ Block[a] = Block[b] /\ Domain[a] = Domain[b]
          => a = b
    /\ "zero" \notin Algs

----------------------------------------------------------------------------
(* The longest message of a length family, in bytes: the largest whose     *)
(* length in bits fits the length field.                                   *)
Bounded(a)    == Family[a] \in LengthFamilies
MaxMessage    == LenMax \div BitsPerByte
Fits(a, n)    == Bounded(a) => n <= MaxMessage

(* Big-endian representation of a number in n bytes.                       *)
BigEndian(v, n) == [j \in 1 .. n |-> (v \div Radix^(n - j)) % Radix]

Fill(n) == [j \in 1 .. n |-> 0]

(* Zero bytes needed after n bytes to reach a multiple of B.               *)
Gap(n, B) == (B - (n % B)) % B

(* SHA-1 and SHA-2 (FIPS 180-4): 0x80, zeros, the length in bits.  LSH:    *)
(* 0x80, zeros.  SHA-3 and SHAKE (FIPS 202): the domain byte, zeros, and   *)
(* the top bit of the last byte of the block.                              *)
Padding(a, n) ==
    LET B == Block[a]
    IN  CASE Family[a] \in LengthFamilies ->
               <<Top>> \o Fill(Gap(n + 1 + LenBytes, B))
                       \o BigEndian(n * BitsPerByte, LenBytes)
          [] Family[a] = "LSH" ->
               <<Top>> \o Fill(Gap(n + 1, B))
          [] Family[a] \in SpongeFamilies ->
               [j \in 1 .. 1 + Gap(n + 1, B) |->
                   (IF j = 1 THEN Domain[a] ELSE 0)
                   + (IF j = 1 + Gap(n + 1, B) THEN Top ELSE 0)]

Padded(a, m) == m \o Padding(a, Len(m))

(* An output byte is named by all that determines it: the initial value,   *)
(* the block length, the bytes fed, the permutations made since they were  *)
(* all fed and the offset in the state.                                    *)
InitialValue(a) == IF Family[a] \in SpongeFamilies THEN "zero" ELSE a
OutByte(a, fed, n, at) == <<InitialValue(a), Block[a], fed, n, at>>

(* Byte k (from 0) of what the algorithm outputs for message m.            *)
Stream(a, m, k) ==
    IF Family[a] \in SpongeFamilies
    THEN OutByte(a, Padded(a, m), k \div Block[a], k % Block[a])
    ELSE OutByte(a, Padded(a, m), 0, k)

Digest(a, m) == [k \in 1 .. DigestLen[a] |-> Stream(a, m, k - 1)]
=============================================================================
