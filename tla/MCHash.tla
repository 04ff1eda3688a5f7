------------------------------- MODULE MCHash -------------------------------
(***************************************************************************)
(* HashContext on miniature algorithms: blocks of 3 and 4 bytes, 8 byte    *)
(* values and a two-byte length field.                                     *)
(***************************************************************************)
EXTENDS HashContext

MCAlgs == {"sha1", "sha256", "sha512", "lsh", "sha3", "shake"}

MCFamily ==
    [a \in Algs |->
        CASE a = "sha1" -> "SHA1" [] a = "sha256" -> "SHA256"
          [] a = "sha512" -> "SHA512" [] a = "lsh" -> "LSH"
          [] a = "sha3" -> "SHA3" [] a = "shake" -> "SHAKE"]

MCBlock == [a \in Algs |-> IF a \in {"lsh", "sha3", "shake"} THEN 3 ELSE 4]

MCDigestLen == [a \in Algs |-> IF a = "shake" THEN 0 ELSE 2]

MCDomain == [a \in Algs |-> IF a = "shake" THEN 3 ELSE 1]
=============================================================================
