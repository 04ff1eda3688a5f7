----------------------------- MODULE Signatures -----------------------------
(****************************************************************************)
(* The dispatch of src/src/DigitalSignature.c over the post-quantum schemes *)
(* and their wrappers, and the message that each scheme signs: domain byte, *)
(* context and pre-hash.                                                    *)
(****************************************************************************)
EXTENDS Naturals, Sequences

-----------------------------------------------------------------------------
(*****************************************************************************************)
(* The calls of the post-quantum signature schemes (ml_dsa.c, slh_dsa.c, aimer.c and the *)
(* interface of haetae.c): what they refuse before they touch a buffer, and what they    *)
(* clear when the random source, the key or the backend lets them down half way.  Only   *)
(* the buffers that these functions declare are followed.  What a backend keeps in       *)
(* frames of its own is not: SLH-DSA leaves the drawn seed in its slh_var_t              *)
(* (Backend/slh_dsa.c:482-498) and the two header bytes of a context in h_msg and        *)
(* prf_msg (slh_shake.c:23 and 74).                                                      *)
(*****************************************************************************************)
Schemes == {"ml_dsa", "slh_dsa", "aimer", "haetae"}
Sizes == {"short", "exact", "long"}

VARIABLES
  req,      \* the request
  callsPc,
  callsOutput,   \* the caller's buffers: "old", "partial", "whole" or "zero"
  callsDrawn,    \* random strings in the call's own buffers
  prefix,   \* the call's own buffer holds the prefix
  callsResult
callsVars == <<req, callsPc, callsOutput, callsDrawn, prefix, callsResult>>

Requests ==
  [scheme : Schemes, call : {"keygen", "sign", "verify"}, known : BOOLEAN,
   nullKey : BOOLEAN, nullMessage : BOOLEAN, nullContext : BOOLEAN, nullSignature : BOOLEAN,
   longContext : BOOLEAN, key : Sizes, signature : Sizes, overlap : BOOLEAN]
CallsInit ==
  /\ req \in {r \in Requests :
       r.call = "keygen" => ~r.nullMessage /\ ~r.nullContext /\ ~r.longContext /\ r.nullSignature = FALSE}
  /\ callsPc = "check" /\ callsOutput = "old" /\ callsDrawn = 0 /\ prefix = FALSE /\ callsResult = "none"

Null == req.nullKey \/ req.nullMessage \/ req.nullContext \/ req.nullSignature
\* Which calls look for overlapping buffers.
Overlaps == req.overlap /\ req.call # "verify" /\ req.scheme \in {"aimer", "haetae"}
\* The first check that fails; ML-DSA looks at the pointers before the algorithm.
CallRefusal ==
  IF Null /\ (req.scheme = "ml_dsa" \/ req.known) THEN "argument"
  ELSE IF req.scheme = "ml_dsa" /\ req.call # "keygen" /\ req.longContext THEN "argument"
  ELSE IF ~req.known THEN "algorithm"
  ELSE IF req.call = "keygen" /\ (req.key = "short" \/ req.signature = "short") THEN "small"
  ELSE IF req.call # "keygen" /\ req.longContext THEN "argument"
  ELSE IF req.call # "keygen" /\ req.key # "exact" THEN "key"
  ELSE IF req.call = "sign" /\ req.signature = "short" THEN "small"
  ELSE IF req.call = "verify" /\ req.signature # "exact" THEN "signature"
  ELSE IF Overlaps THEN "argument"
  ELSE "none"
\* SLH-DSA's calls have no buffer for a prefix.
Prefixing == req.scheme # "slh_dsa"
Check ==
  /\ callsPc = "check" /\ callsResult' = CallRefusal
  /\ callsPc' = IF CallRefusal # "none" THEN "done"
                ELSE IF req.call = "verify" THEN "verify"
                ELSE IF req.call = "sign" /\ req.scheme = "aimer" THEN "validate"
                ELSE "random"
  /\ prefix' = (/\ CallRefusal = "none" /\ Prefixing
                /\ req.call = "verify" \/ (req.call = "sign" /\ req.scheme = "haetae"))
  /\ UNCHANGED <<req, callsOutput, callsDrawn>>

\* crypto_aimer_validate_private_key, before anything is signed.
Validate ==
  /\ callsPc = "validate"
  /\ \/ callsPc' = "random" /\ prefix' = TRUE /\ UNCHANGED <<callsOutput, callsResult>>
     \/ callsPc' = "done" /\ callsResult' \in {"key", "internal"} /\ callsOutput' = "zero" /\ UNCHANGED prefix
  /\ UNCHANGED <<req, callsDrawn>>

\* AIMer draws its plaintext and its iv by two requests.
Draws == IF req.call = "keygen" /\ req.scheme = "aimer" THEN 2 ELSE 1
Abandoned == "zero"
Random ==
  /\ callsPc = "random" /\ callsDrawn < Draws
  /\ \/ /\ callsDrawn' = callsDrawn + 1 /\ callsPc' = (IF callsDrawn' = Draws THEN "backend" ELSE callsPc)
        /\ UNCHANGED <<callsOutput, prefix, callsResult>>
     \/ callsPc' = "done" /\ callsResult' = "random" /\ callsOutput' = Abandoned /\ callsDrawn' = 0 /\ prefix' = FALSE
  /\ UNCHANGED req
\* ML-DSA makes the prefix next to the backend; every backend writes as it goes.
Backend ==
  /\ callsPc = "backend" /\ callsOutput' = "partial" /\ callsPc' = "running"
  /\ prefix' = (prefix \/ (Prefixing /\ req.call = "sign"))
  /\ UNCHANGED <<req, callsDrawn, callsResult>>
CallsLeft == 0
Return ==
  /\ callsPc = "running" /\ callsPc' = "done"
  /\ \/ callsResult' = "success" /\ callsOutput' = "whole"
     \/ callsResult' \in {"allocation", "key", "argument", "internal"} /\ callsOutput' = "zero"
  /\ callsDrawn' = CallsLeft /\ prefix' = FALSE
  /\ UNCHANGED req
\* AIMer and HAETAE tell a key they cannot read and a failing allocation from a signature.
Verdicts == {"success", "signature"} \cup (IF req.scheme \in {"aimer", "haetae"} THEN {"key", "allocation"} ELSE {})
CallsVerify ==
  /\ callsPc = "verify" /\ callsPc' = "done" /\ prefix' = FALSE
  /\ callsResult' \in Verdicts
  /\ UNCHANGED <<req, callsOutput, callsDrawn>>
CallsFinished == callsPc = "done" /\ UNCHANGED callsVars
CallsNext == Check \/ Validate \/ Random \/ Backend \/ Return \/ CallsVerify \/ CallsFinished
CallsSpec == CallsInit /\ [][CallsNext]_callsVars

(* ------------------------------- properties ----------------------------- *)
(* What a caller finds in its buffers: everything or zeros, and what was there before only     *)
(* when nothing but the request itself was looked at; never a part of a key or of a signature. *)
NothingHalfDone ==
  callsPc = "done" =>
    callsOutput = IF req.call = "verify" \/ callsResult = CallRefusal THEN "old"
                  ELSE IF callsResult = "success" THEN "whole"
                  ELSE "zero"

(* Whichever way a call ends, a failing draw between two others included, its own buffers hold no *)
(* random string and no prefix any more: seed, rnd and addrnd, plaintext, iv and randomness, and  *)
(* the prefix of ML-DSA, AIMer and HAETAE.  Nothing is said of the frames of a backend.           *)
OwnBuffersAreClean == callsPc = "done" => callsDrawn = 0 /\ ~prefix

(* No backend is given a pointer that is null, a buffer that is too short or a context that *)
(* does not fit one byte, and AIMer and HAETAE not an output that overlaps an input.        *)
BackendIsSafe ==
  callsPc \in {"running", "verify", "validate"} =>
    /\ ~Null /\ req.known /\ ~req.longContext
    /\ req.call # "keygen" => req.key = "exact"
    /\ req.call = "keygen" => req.key # "short"
    /\ req.signature # "short" /\ (req.call = "verify" => req.signature = "exact")
    /\ (req.scheme \in {"aimer", "haetae"} /\ req.call # "verify" => ~req.overlap)


-----------------------------------------------------------------------------
(*******************************************************************************************)
(* What is really signed: a message or a hash of one behind a context, put into one string *)
(* by ML-DSA (sign.c), SLH-DSA (slh_prehash.c and the h_msg functions) and by AIMer and    *)
(* HAETAE, which know no hashes and write no domain byte.                                  *)
(*******************************************************************************************)
CONSTANTS
  Bytes,     \* values of a byte, from zero on: a context is shorter
  MaxBody,   \* longest message
  HashLength \* the hashes that have an identifier: their identifier and the length of their values
ASSUME MessagesAssumption ==
  /\ Bytes \in Nat \ {0, 1} /\ MaxBody \in Nat
  /\ DOMAIN HashLength \subseteq 1..Bytes - 1
  /\ HashLength \in [DOMAIN HashLength -> Nat]

VARIABLES
  scheme, \* "ml_dsa", "slh_dsa" or "short"
  hash,   \* <<>>, the identifier of a hash, or <<0>> for an unknown one
  context, body,
  messagesPc,
  pre,    \* what of the prefix is still to be absorbed, empty when it is refused
  signed  \* the whole string
messagesVars == <<scheme, hash, context, body, messagesPc, pre, signed>>

MessagesByte == 0..Bytes - 1
Strings(n) == UNION {[1..k -> MessagesByte] : k \in 0..n}
Hashes == DOMAIN HashLength
MessagesInit ==
  /\ scheme \in {"ml_dsa", "slh_dsa", "short"}
  /\ hash \in {<<>>} \cup {<<h>> : h \in Hashes \cup {0}}
  /\ (scheme = "short" => hash = <<>>)
  /\ context \in Strings(Bytes) /\ body \in Strings(MaxBody)
  \* SLH-DSA makes the hash value itself, ML-DSA is given one.
  /\ (scheme = "slh_dsa" /\ hash # <<>> /\ hash[1] \in Hashes => Len(body) = HashLength[hash[1]])
  /\ messagesPc = "prefix" /\ pre = <<>> /\ signed = <<>>

TooLong == Len(context) > Bytes - 1
FaultyHashFits == hash[1] \in Hashes
HashFits == hash[1] \in Hashes /\ Len(body) = HashLength[hash[1]]
Refused == TooLong \/ (hash # <<>> /\ ~HashFits)
LengthByte == <<Len(context) % Bytes>>
\* mld_prepare_domain_separation_prefix and hash_slh_dsa_pad
Domain == IF scheme = "short" THEN <<>> ELSE IF hash = <<>> THEN <<0>> ELSE <<1>>
Prefix ==
  /\ messagesPc = "prefix"
  /\ IF Refused THEN messagesPc' = "refused" /\ UNCHANGED pre
     ELSE messagesPc' = "absorb" /\ pre' = Domain \o LengthByte \o context \o hash
  /\ UNCHANGED <<scheme, hash, context, body, signed>>
\* The prefix and the body are absorbed one after the other.
Absorb ==
  /\ messagesPc = "absorb" /\ signed' = pre \o body /\ pre' = <<>> /\ messagesPc' = "signed"
  /\ UNCHANGED <<scheme, hash, context, body>>
MessagesFinished == messagesPc \in {"refused", "signed"} /\ UNCHANGED messagesVars
MessagesNext == Prefix \/ Absorb \/ MessagesFinished
MessagesSpec == MessagesInit /\ [][MessagesNext]_messagesVars

(* ------------------------------- properties ----------------------------- *)
Tail_(s, n) == SubSeq(s, n + 1, Len(s))
Read(s) ==
  LET hashed == scheme # "short" /\ s[1] = 1
      from == IF scheme = "short" THEN 1 ELSE 2
      rest == Tail_(s, from + s[from])
  IN [context |-> SubSeq(s, from + 1, from + s[from]),
      hash |-> IF hashed THEN <<rest[1]>> ELSE <<>>,
      body |-> IF hashed THEN Tail_(rest, 1) ELSE rest]
(* The string that is signed can be read back: no two contexts, messages or hashes are signed by *)
(* one and the same string, and a hash of a message never passes for the message.                *)
SignedCanBeRead ==
  messagesPc = "signed" => Read(signed) = [context |-> context, hash |-> hash, body |-> body]

(* What follows the identifier of a hash is as long as that hash, so a signature never binds a *)
(* shortened or a lengthened value.                                                            *)
HashIsWhole ==
  messagesPc = "signed" /\ hash # <<>> =>
    hash[1] \in Hashes /\ Len(signed) = 3 + Len(context) + HashLength[hash[1]]

(* A caller of LIBERAC_SIGN, _VERIFY and _KEYGEN finds a whole result or zeros, the call *)
(* leaves nothing secret in the buffers it declares itself, no backend is reached with   *)
(* arguments that it does not check, and what is signed can be read back as one context, *)
(* hash and message only.                                                                *)
SignatureCallsAreWhole ==
  NothingHalfDone /\ OwnBuffersAreClean /\ BackendIsSafe /\ SignedCanBeRead /\ HashIsWhole
=============================================================================
