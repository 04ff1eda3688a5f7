-------------------------------- MODULE Aead --------------------------------
(***************************************************************************)
(* LIBERAC_AEAD_ENCRYPT and LIBERAC_AEAD_DECRYPT as calls on one memory    *)
(* (AuthenticatedEncryption.c, aes_aead.c, chacha20_poly1305.c): the       *)
(* caller's buffers may touch, overlap or coincide, the loops read and     *)
(* write byte after byte in the order of the code, and bytes may change    *)
(* between a call that seals and one that opens.  Every algorithm has one  *)
(* key; the memory holds its bytes but no call depends on their value.     *)
(***************************************************************************)
EXTENDS Integers, Sequences

-----------------------------------------------------------------------------
(***************************************************************************)
(* What the three AEAD modes feed to their block function and to their MAC *)
(* (aes_aead.c, chacha20_poly1305.c, chacha20.c): counter blocks, and the  *)
(* byte strings that are authenticated.  Bytes are symbolic, numbers are   *)
(* written in digits of base Radix, in fields that can overflow.           *)
(***************************************************************************)

CONSTANTS
    Algs,
    Family,     \* "GCM", "CCM" or "CHACHA"
    NonceLens,  \* LIBERAC_AEAD_NONCE_LENGTH_VALID
    TagLens,    \* LIBERAC_AEAD_TAG_LENGTH_VALID
    BlockLen,   \* bytes of keystream in a block, and of padding
    CtrMod,     \* number of values of the counter word, 2^32
    DirectLen,  \* 12, the GCM nonce that is used as it is
    Radix,      \* number of values of a byte in a length field, 256
    LenWidth,   \* 8, bytes of a length in GCM and ChaCha20-Poly1305
    LongWidth,  \* 4, bytes of the middle form of the length of AAD in CCM
    CcmRoom     \* 15, bytes of nonce and length together in a CCM block

ASSUME ModeConstants ==
    /\ Family \in [Algs -> {"GCM", "CCM", "CHACHA"}]
    /\ \A a \in Algs : NonceLens[a] \subseteq Nat \ {0} /\ TagLens[a] \subseteq Nat \ {0}
    /\ CtrMod \in [Algs -> Nat \ {0, 1}]
    /\ BlockLen \in Nat \ {0} /\ DirectLen \in Nat \ {0} /\ Radix \in Nat \ {0, 1}
    /\ LenWidth \in Nat \ {0} /\ LongWidth \in Nat \ {0} /\ CcmRoom \in Nat
    /\ \A a \in Algs : Family[a] = "CCM" =>
         /\ \A n \in NonceLens[a] : n < CcmRoom /\ CcmRoom <= n + 8
         /\ \A t \in TagLens[a] : 4 <= t /\ t <= 16

(* The powers a length field is made of.                                   *)
ASSUME PowersOfRadix ==
    /\ Radix^0 = 1
    /\ \A w \in {2, LenWidth, LongWidth, CcmRoom} : \A k \in 0 .. w :
         /\ Radix^k \in Nat \ {0}
         /\ k < w => Radix^(k + 1) = Radix * Radix^k

(* A byte is the set of unknowns XORed in it; a known byte is empty or the *)
(* unknown that stands for its value.                                      *)
Digit(d) == IF d = 0 THEN {} ELSE {<<"digit", d>>}

Xor(x, y) == (x \ y) \cup (y \ x)

(* A number in a field of w bytes, most significant first: what does not   *)
(* fit is cut off.                                                         *)
Encode(w, v) == [i \in 1 .. w |-> Digit((v \div Radix^(w - i)) % Radix)]

Blocks(n) == (n + BlockLen - 1) \div BlockLen

Pad(x) == [i \in 1 .. BlockLen * Blocks(Len(x)) |-> IF i <= Len(x) THEN x[i] ELSE {}]

----------------------------------------------------------------------------
(* Counter blocks.  Block 0 masks the tag (it makes the one-time key in    *)
(* ChaCha20-Poly1305), blocks from 1 on encrypt.                           *)

(* gcm_make_j0: a nonce of another length is hashed with its length.       *)
GcmStart(nonce) ==
    IF Len(nonce) = DirectLen THEN <<nonce, 1>>
    ELSE <<<<{<<"hashed", 0>>}>> \o Pad(nonce) \o Encode(LenWidth, Len(nonce)), 0>>

(* The block that gives the hash key: all zero.                            *)
HashKeyBlock == <<[i \in 1 .. DirectLen |-> {}], 0>>

CcmQ(nonce) == CcmRoom - Len(nonce)

CcmBlock(nonce, i) == <<Digit(CcmQ(nonce) - 1)>> \o nonce \o Encode(CcmQ(nonce), i)

Counter(a, nonce, i) ==
    CASE Family[a] = "GCM"    -> LET j0 == GcmStart(nonce) IN
                                 <<j0[1], (j0[2] + i) % CtrMod[a]>>
      [] Family[a] = "CCM"    -> CcmBlock(nonce, i)
      [] Family[a] = "CHACHA" -> <<nonce, i % CtrMod[a]>>

(* Byte i of the keystream.                                                *)
Keystream(a, nonce, i) ==
    {<<"ks", a, Counter(a, nonce, 1 + ((i - 1) \div BlockLen)), (i - 1) % BlockLen>>}

(* The longest message: gcm_validate_lengths, ccm_length_fits and          *)
(* crypto_chacha20_validate_length with the counter starting at 1.         *)
FaultyFits(a, nn, n) ==
    CASE Family[a] = "GCM"    -> Blocks(n) <= CtrMod[a] - 1
      [] Family[a] = "CCM"    -> n <= Radix^(CcmRoom - nn) - 1
      [] Family[a] = "CHACHA" -> Blocks(n) <= CtrMod[a]
Fits(a, nn, n) ==
    CASE Family[a] = "GCM"    -> n <= (CtrMod[a] - 2) * BlockLen
      [] Family[a] = "CCM"    -> n <= Radix^(CcmRoom - nn) - 1
      [] Family[a] = "CHACHA" -> Blocks(n) <= (CtrMod[a] - 1) - 1 + 1

----------------------------------------------------------------------------
(* What is authenticated.                                                  *)

FaultyPaddedContent(aad, cipher) == Pad(aad) \o Pad(cipher) \o Encode(LenWidth, Len(aad))
PaddedContent(aad, cipher) ==
    Pad(aad) \o Pad(cipher) \o Encode(LenWidth, Len(aad)) \o Encode(LenWidth, Len(cipher))

(* ccm_compute_mac: the first block tells whether there is AAD, the length *)
(* of the tag and, in what the nonce leaves, the length of the message.    *)
CcmFirst(nonce, aad, n, t) ==
    <<Digit((IF aad # <<>> THEN 64 ELSE 0) + ((t - 2) \div 2) * 8 + CcmQ(nonce) - 1)>>
        \o nonce \o Encode(CcmQ(nonce), n)

(* ccm_mac_aad: two bytes, or a mark that no two-byte length begins with.  *)
CcmAad(aad) ==
    LET n   == Len(aad)
        top == Radix - 1
    IN  IF n = 0 THEN <<>>
        ELSE Pad((IF n < top * Radix THEN Encode(2, n)
                  ELSE IF n < Radix^LongWidth
                       THEN <<Digit(top), Digit(top - 1)>> \o Encode(LongWidth, n)
                       ELSE <<Digit(top), Digit(top)>> \o Encode(LenWidth, n)) \o aad)

(* GCM and ChaCha20-Poly1305 authenticate the ciphertext, CCM the message. *)
Content(a, nonce, aad, plain, cipher, t) ==
    IF Family[a] = "CCM"
    THEN CcmFirst(nonce, aad, Len(plain), t) \o CcmAad(aad) \o Pad(plain)
    ELSE PaddedContent(aad, cipher)

(* The tag: the MAC of the content under the key and the mask of block 0.  *)
Tag(a, nonce, aad, plain, cipher, t) ==
    [i \in 1 .. t |-> {<<"mac", a, Counter(a, nonce, 0),
                         Content(a, nonce, aad, plain, cipher, t), i>>}]

(* Every input of the block function in one call, with what it is for.     *)
BlockUses(a, nonce, aad, n, t) ==
    {[alg |-> a, block |-> Counter(a, nonce, i), nonce |-> nonce, use |-> i]
        : i \in 0 .. Blocks(n)}
    \cup (IF Family[a] = "GCM"
          THEN {[alg |-> a, block |-> HashKeyBlock, nonce |-> <<>>, use |-> -1]}
          ELSE {})
    \cup (IF Family[a] = "CCM"
          THEN {[alg |-> a, block |-> CcmFirst(nonce, aad, n, t), nonce |-> nonce,
                 use |-> -2]}
          ELSE {})
-----------------------------------------------------------------------------
(***************************************************************************)
(* The calls on one memory.                                                *)
(***************************************************************************)

CONSTANTS
    Memory,     \* addresses, 1 .. last
    Memories,   \* initial contents of the memory
    KeyLen,     \* LIBERAC_AEAD_KEY_SIZE
    Requests,   \* the arguments a caller may pass
    Tampered,   \* addresses whose byte may be changed between calls
    MaxCalls    \* bound on the number of calls

ASSUME MemoryConstants ==
    /\ Memory \subseteq Nat \ {0} /\ Tampered \subseteq Memory
    /\ \A m \in Memories :
         /\ m = [a \in Memory |-> m[a]]
         \* No byte is a tag, or the start of a hashed nonce, before the first call.
         /\ \A a \in Memory : \A e \in m[a] : e[1] \notin {"mac", "hashed"}
    /\ KeyLen \in [Algs -> Nat \ {0}]
    /\ MaxCalls \in Nat

NULL == 0

(* A caller owns the buffers it names, whatever else is wrong with them; a *)
(* length is a size_t, which a length field holds.                         *)
ASSUME RequestConstants ==
    \A r \in Requests :
      /\ {r.out, r.in, r.tag, r.key, r.nonce, r.aad} \subseteq Nat
      /\ {r.cap, r.tcap} \subseteq Nat
      /\ {r.n, r.t, r.kn, r.nn, r.an} \subseteq 0 .. Radix^LenWidth - 1
      /\ \A x \in {<<r.out, r.n>>, <<r.in, r.n>>, <<r.tag, r.t>>, <<r.key, r.kn>>,
                   <<r.nonce, r.nn>>, <<r.aad, r.an>>} :
           x[1] # NULL => x[1] .. x[1] + x[2] - 1 \subseteq Memory

VARIABLES
    mem,        \* the bytes at every address
    sealed,     \* what was encrypted and the result (history)
    uses,       \* inputs of the block functions (history)
    call,       \* the last call
    calls

vars == <<mem, sealed, uses, call, calls>>

Span(start, n) == start .. (start + n - 1)

Slice(m, start, n) == [i \in 1 .. n |-> m[start + i - 1]]

Store(m, start, x) ==
    [a \in Memory |-> IF a \in Span(start, Len(x)) THEN x[a - start + 1] ELSE m[a]]

Clear(m, start, n) == Store(m, start, [i \in 1 .. n |-> {}])

----------------------------------------------------------------------------
(* Requests that are refused before anything is written.                   *)

FaultyOverlap(a, an, b, bn) == an # 0 /\ bn # 0 /\ a <= b /\ b - a < an
Overlap(a, an, b, bn) ==
    an # 0 /\ bn # 0 /\ (IF a <= b THEN b - a < an ELSE a - b < bn)

Aliased(r) ==
    LET inputs == {<<r.key, r.kn>>, <<r.nonce, r.nn>>, <<r.aad, r.an>>} IN
    \/ r.out # r.in /\ Overlap(r.out, r.n, r.in, r.n)
    \/ \E x \in inputs \cup {<<r.tag, r.t>>} : Overlap(r.out, r.n, x[1], x[2])
    \/ \E x \in inputs \cup {<<r.in, r.n>>} : Overlap(r.tag, r.t, x[1], x[2])

NullMissing(r) ==
    \/ NULL \in {r.tag, r.key, r.nonce}
    \/ r.n # 0 /\ NULL \in {r.in, r.out}
    \/ r.an # 0 /\ r.aad = NULL

Refusal(op, r) ==
    IF r.alg \notin Algs THEN "INVALID_ALG_ID"
    ELSE IF NullMissing(r) THEN "INVALID_ARGUMENT"
    ELSE IF r.kn # KeyLen[r.alg] THEN "INVALID_KEY"
    ELSE IF r.nn \notin NonceLens[r.alg] \/ r.t \notin TagLens[r.alg] THEN "INVALID_ARGUMENT"
    ELSE IF r.cap < r.n THEN "BUFFER_TOO_SMALL"
    ELSE IF Family[r.alg] = "CHACHA" /\ ~Fits(r.alg, r.nn, r.n) THEN "MESSAGE_TOO_LARGE"
    ELSE IF Aliased(r) THEN "INVALID_ARGUMENT"
    ELSE IF op = "seal" /\ r.tcap < r.t THEN "BUFFER_TOO_SMALL"
    ELSE "SUCCESS"

(* The AES modes check the length of the message after the wrapper's       *)
(* checks, and the wrapper then clears what the caller would have got.     *)
TooLong(r) == ~Fits(r.alg, r.nn, r.n)

----------------------------------------------------------------------------
(* What a call reads and writes.                                           *)

Nonce(r) == Slice(mem, r.nonce, r.nn)

(* gcm_ctr, ccm_ctr and crypto_chacha20_xor_internal: byte after byte.     *)
XorInto(r) ==
    LET w[i \in 0 .. r.n] ==
          IF i = 0 THEN mem
          ELSE [w[i - 1] EXCEPT ![r.out + i - 1] =
                   Xor(w[i - 1][r.in + i - 1], Keystream(r.alg, Nonce(r), i))]
    IN  w[r.n]

(* GCM and ChaCha20-Poly1305 compute the tag from OUTPUT after the loop,   *)
(* CCM from INPUT before it.                                               *)
FaultyMacSource(r, after) == Slice(mem, r.in, r.n)
MacSource(r, after) ==
    IF Family[r.alg] = "CCM" THEN Slice(mem, r.in, r.n) ELSE Slice(after, r.out, r.n)

SealTag(r, after) ==
    LET text == MacSource(r, after)
    IN  Tag(r.alg, Nonce(r), Slice(IF Family[r.alg] = "CCM" THEN mem ELSE after, r.aad, r.an),
            text, text, r.t)

SealedMemory(r) == LET after == XorInto(r) IN Store(after, r.tag, SealTag(r, after))

(* GCM and ChaCha20-Poly1305 verify INPUT, CCM the message it has written. *)
ExpectedTag(r) ==
    LET ccm  == Family[r.alg] = "CCM"
        from == IF ccm THEN XorInto(r) ELSE mem
        text == Slice(from, IF ccm THEN r.out ELSE r.in, r.n)
    IN  Tag(r.alg, Nonce(r), Slice(from, r.aad, r.an), text, text, r.t)

Verified(r) == ExpectedTag(r) = Slice(mem, r.tag, r.t)

OpenedMemory(r) == IF Verified(r) THEN XorInto(r) ELSE Clear(mem, r.out, r.n)

(* Everything about a call that the caller can see.                        *)
Record(op, r, ret, before, after) ==
    [op |-> op, ret |-> ret, req |-> r,
     nonce |-> Slice(before, r.nonce, r.nn), aad |-> Slice(before, r.aad, r.an),
     text |-> Slice(before, r.in, r.n), tag |-> Slice(after, r.tag, r.t),
     result |-> Slice(after, r.out, r.n)]

Refused(op, code) == [op |-> op, ret |-> code]

----------------------------------------------------------------------------
Refuse(op, r) ==
    /\ Refusal(op, r) # "SUCCESS"
    /\ call' = Refused("refused", Refusal(op, r))
    /\ UNCHANGED <<mem, sealed, uses>>

(* An AES message too long for its counter or its length field.            *)
Overlong(op, r) ==
    /\ Refusal(op, r) = "SUCCESS" /\ TooLong(r)
    /\ mem' = LET m == Clear(mem, r.out, r.n)
              IN  IF op = "seal" THEN Clear(m, r.tag, r.t) ELSE m
    /\ call' = Record(op, r, "MESSAGE_TOO_LARGE", mem, mem')
    /\ UNCHANGED <<sealed, uses>>

Run(r) == uses' = uses \cup BlockUses(r.alg, Nonce(r), Slice(mem, r.aad, r.an), r.n, r.t)

Seal(r) ==
    /\ Refusal("seal", r) = "SUCCESS" /\ ~TooLong(r)
    /\ mem' = SealedMemory(r)
    /\ call' = Record("seal", r, "SUCCESS", mem, mem')
    /\ sealed' = sealed \cup
         {[alg |-> r.alg, nonce |-> call'.nonce, aad |-> call'.aad,
           plain |-> call'.text, cipher |-> call'.result, tag |-> call'.tag]}
    /\ Run(r)

Open(r) ==
    /\ Refusal("open", r) = "SUCCESS" /\ ~TooLong(r)
    /\ mem' = OpenedMemory(r)
    /\ call' = Record("open", r, IF Verified(r) THEN "SUCCESS" ELSE "AUTHENTICATION_FAILED",
                      mem, mem')
    /\ Run(r)
    /\ UNCHANGED sealed

Call ==
    /\ calls < MaxCalls
    /\ calls' = calls + 1
    /\ \E r \in Requests :
         \/ Seal(r) \/ Open(r)
         \/ \E op \in {"seal", "open"} : Refuse(op, r) \/ Overlong(op, r)

(* Between the two calls: the message travels, and comes back changed.     *)
Tamper ==
    /\ 0 < calls /\ calls < MaxCalls /\ call.op # "tampered"
    /\ \E a \in Tampered, d \in {0, 1} : mem' = [mem EXCEPT ![a] = Digit(d)]
    /\ call' = Refused("tampered", "NONE")
    /\ UNCHANGED <<sealed, uses, calls>>

Init ==
    /\ mem \in Memories
    /\ sealed = {} /\ uses = {}
    /\ call = Refused("none", "NONE")
    /\ calls = 0

Next == Call \/ Tamper

Spec == Init /\ [][Next]_vars

----------------------------------------------------------------------------
Completed == calls > 0 /\ call.op \in {"seal", "open"}

Matches(s) == s.alg = call.req.alg /\ s.nonce = call.nonce /\ s.aad = call.aad

(* Every call that got past the checks used lengths its mode allows.       *)
TypeOK ==
    /\ DOMAIN mem = Memory /\ calls \in 0 .. MaxCalls
    /\ call.op \in {"none", "tampered", "refused", "seal", "open"}
    /\ Completed =>
         /\ Len(call.tag) \in TagLens[call.req.alg]
         /\ Len(call.nonce) \in NonceLens[call.req.alg]
         /\ Len(call.result) = Len(call.text)

(* An input of the block function never serves twice: two equal counter    *)
(* blocks come from the same nonce at the same place, never the mask of    *)
(* the tag or the hash key and a block of the message, at any length that  *)
(* the checks of aes_aead.c and chacha20.c let through.                    *)
KeystreamOnce ==
    \A u, v \in uses :
        u.alg = v.alg /\ u.block = v.block => u.nonce = v.nonce /\ u.use = v.use

(* crypto_ranges_overlap keeps every call inside OUTPUT and TAG: whatever  *)
(* the layout, no call changes key, nonce or AAD, nor a byte elsewhere,    *)
(* and one that is refused changes nothing.                                *)
Confined ==
    [][calls' # calls =>
         IF call'.op = "refused" THEN mem' = mem
         ELSE LET r == call'.req IN
              /\ \A a \in Memory :
                   mem'[a] # mem[a] => a \in Span(r.out, r.n) \cup Span(r.tag, r.t)
              /\ call'.op = "open" => Slice(mem', r.tag, r.t) = Slice(mem, r.tag, r.t)
              /\ \A x \in {<<r.key, r.kn>>, <<r.nonce, r.nn>>, <<r.aad, r.an>>} :
                   Slice(mem', x[1], x[2]) = Slice(mem, x[1], x[2])]_vars

(* What was sealed opens to what it was, in place or not: the tag that     *)
(* encryption computes is the one that decryption expects, for every       *)
(* layout the checks let through.                                          *)
RoundTrip ==
    Completed /\ call.op = "open" /\ call.ret # "MESSAGE_TOO_LARGE" =>
        \A s \in sealed :
            Matches(s) /\ s.cipher = call.text /\ s.tag = call.tag =>
                call.ret = "SUCCESS" /\ call.result = s.plain

(* Nothing opens that was not sealed with the same nonce, AAD and message: *)
(* neither a changed byte nor a moved boundary between nonce, AAD and      *)
(* message goes unnoticed, so what is authenticated is unambiguous.        *)
Authentic ==
    Completed /\ call.op = "open" /\ call.ret = "SUCCESS" =>
        \E s \in sealed : Matches(s) /\ s.cipher = call.text /\ s.plain = call.result

(* A call that fails after its checks leaves only zeros in OUTPUT: no byte *)
(* of a message that was not authenticated, even in CCM, which decrypts    *)
(* before it verifies.                                                     *)
FailureClears ==
    Completed /\ call.ret # "SUCCESS" => \A i \in 1 .. Len(call.result) : call.result[i] = {}

(* A call of LIBERAC_AEAD_OPEN answers with the message that was sealed    *)
(* or with nothing, after checks that admit only the lengths of the mode:  *)
(* the parts above together.                                               *)
OpenedOrNothing == TypeOK /\ Authentic /\ FailureClears
=============================================================================
