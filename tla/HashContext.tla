----------------------------- MODULE HashContext -----------------------------
(***************************************************************************)
(* The incremental hash/XOF interface of HashFunction.c (LIBERAC_HASH_INIT,*)
(* _UPDATE, _FINALIZE, _SQUEEZE, _CLEAR and the one-shot LIBERAC_HASH) with*)
(* the block buffering, length accounting and padding of the families      *)
(* behind it: SHA-1, SHA-2, LSH and the SHA-3/SHAKE sponge.  Where a byte  *)
(* lands, which stale byte is overwritten and what is counted is the       *)
(* code's; the compression functions are symbolic (see HashAlgorithms).    *)
(***************************************************************************)
EXTENDS HashAlgorithms

(* Operators named Faulty... are what a plausible slip in the operator     *)
(* that follows them would be.  Nothing uses them: they are there to show  *)
(* that the properties below can tell the code from the slip.              *)

CONSTANTS
    Contexts,    \* the caller's LiberaCHashContext objects
    NoAlg,       \* an identifier that is no hash algorithm
    MaxBlock,    \* bytes in the BLOCK array of a context
    Data,        \* bound: byte values the callers hash
    MaxChunk,    \* bound: bytes in one update
    MaxAbsorb,   \* bound: bytes a context is asked to absorb
    MaxVaried,   \* bound: bytes of it that vary, those after them are Top
    MaxOut       \* bound: bytes requested from a context

ASSUME ContextConstants ==
    /\ NoAlg \notin Algs
    /\ MaxBlock \in Nat
    /\ \A a \in Algs : Block[a] <= MaxBlock
    /\ Data \subseteq Byte
    /\ MaxChunk \in Nat /\ MaxAbsorb \in Nat /\ MaxVaried \in Nat /\ MaxOut \in Nat
    /\ MaxChunk < Word      \* a size_t fits one word of SHA-512's length

VARIABLES
    phase,     \* PHASE of each context, "CLEARED" when MAGIC is not set
    alg,       \* ALG of each context
    st,        \* STATE of each context: the algorithm's own context
    absorbed,  \* history: the bytes accepted since LIBERAC_HASH_INIT
    out,       \* history: the output bytes delivered since then
    ret        \* value returned by the last call

vars == <<phase, alg, st, absorbed, out, ret>>

Phases == {"CLEARED", "ABSORBING", "FINALIZED", "SQUEEZING", "CONSUMED"}
Statuses == {"SUCCESS", "INVALID_ARGUMENT", "INVALID_ALG_ID",
             "MESSAGE_TOO_LARGE", "BUFFER_TOO_SMALL"}

(* An algorithm's context: the bytes fed to the compression function so    *)
(* far (they name the chaining value), BLOCK with whatever stale bytes it  *)
(* holds, BUFFER_LENGTH or the sponge's position, the length words, and    *)
(* the permutations made since the sponge was finalized.                   *)
Fresh == [fed |-> <<>>, block |-> Fill(MaxBlock), used |-> 0,
          low |-> 0, high |-> 0, perms |-> 0]

----------------------------------------------------------------------------
(* Length accounting.  crypto_sha1_update counts bits in one word,         *)
(* sha2_add_length counts bytes, in one word for SHA-256 and in two for    *)
(* SHA-512, where the low word wraps and carries.                          *)

Carry(s, n)   == IF (s.low + n) % Word < s.low THEN 1 ELSE 0
NewHigh(s, n) == (s.high + Carry(s, n)) % Word

LengthFits(a, s, n) ==
    CASE Family[a] = "SHA1"   -> n <= (LenMax - s.low) \div BitsPerByte
      [] Family[a] = "SHA256" -> s.high = 0 /\ n <= (LenMax \div BitsPerByte) - s.low
      [] Family[a] = "SHA512" -> /\ NewHigh(s, n) >= s.high
                                 /\ NewHigh(s, n) <= (Word - 1) \div BitsPerByte
      [] OTHER                -> TRUE

AddLength(a, s, n) ==
    CASE Family[a] = "SHA1"   -> [s EXCEPT !.low = @ + n * BitsPerByte]
      [] Family[a] = "SHA256" -> [s EXCEPT !.low = @ + n]
      [] Family[a] = "SHA512" -> [s EXCEPT !.low = (@ + n) % Word,
                                           !.high = NewHigh(s, n)]
      [] OTHER                -> s

(* The bytes stored in the length field.  Shifting a word left drops the   *)
(* bits that leave it; SHA-512 moves them to the high word.                *)
LengthField(a, s) ==
    LET shifted == s.low * BitsPerByte
        half    == LenBytes \div 2
    IN  CASE Family[a] = "SHA1"   -> BigEndian(s.low, LenBytes)
          [] Family[a] = "SHA256" -> BigEndian(shifted % (LenMax + 1), LenBytes)
          [] OTHER -> BigEndian((s.high * BitsPerByte) + (shifted \div Word), half)
                      \o BigEndian(shifted % Word, half)

----------------------------------------------------------------------------
(* Block buffering.                                                        *)

(* memcpy of the bytes b into BLOCK at offset at.                          *)
Put(block, at, b) ==
    [j \in DOMAIN block |->
        IF j > at /\ j <= at + Len(b) THEN b[j - at] ELSE block[j]]

(* memset of BLOCK to zero from offset at up to offset end.                *)
Clear(block, at, end) ==
    [j \in DOMAIN block |-> IF j > at /\ j <= end THEN 0 ELSE block[j]]

Drop(s, n) == SubSeq(s, n + 1, Len(s))

(* The bytes the loop over whole blocks takes from n bytes.                *)
FaultyWholeIf(n, B)     == IF n >= B THEN B ELSE 0
FaultyWholeStrict(n, B) == IF n = 0 THEN 0 ELSE (n - 1) - ((n - 1) % B)
Whole(n, B) == n - (n % B)

(* crypto_sha1_update, crypto_sha2_update, crypto_lsh_update: top up a     *)
(* partial block, compress whole blocks straight from the input, keep the  *)
(* tail.                                                                   *)
AbsorbBuffered(B, s, input) ==
    LET room   == B - s.used
        copied == IF s.used = 0 THEN 0
                  ELSE IF Len(input) < room THEN Len(input) ELSE room
        filled == Put(s.block, s.used, SubSeq(input, 1, copied))
        full   == s.used + copied = B
        rest   == Drop(input, copied)
        whole  == Whole(Len(rest), B)
        tail   == Drop(rest, whole)
    IN [s EXCEPT
          !.fed   = @ \o (IF full THEN SubSeq(filled, 1, B) ELSE <<>>)
                      \o SubSeq(rest, 1, whole),
          !.block = Put(filled, 0, tail),
          !.used  = IF tail # <<>> THEN Len(tail)
                    ELSE IF full THEN 0 ELSE s.used + copied]

(* crypto_sha3_update: each byte is XORed in at position and the state is  *)
(* permuted as soon as the rate is reached.  block is what was XORed into  *)
(* the rate since the last permutation, so it restarts from zeros.         *)
AbsorbSponge(R, s, input) ==
    LET pending == SubSeq(s.block, 1, s.used) \o input
        whole   == Whole(Len(pending), R)
        tail    == Drop(pending, whole)
    IN [s EXCEPT !.fed   = @ \o SubSeq(pending, 1, whole),
                 !.block = Put(Fill(MaxBlock), 0, tail),
                 !.used  = Len(tail)]

Absorb(a, s, input) ==
    IF Family[a] \in SpongeFamilies THEN AbsorbSponge(Block[a], s, input)
    ELSE AbsorbBuffered(Block[a], AddLength(a, s, Len(input)), input)

----------------------------------------------------------------------------
(* Padding.  Compress feeds the first B bytes of BLOCK.                    *)

(* The 0x80 byte leaves no room for the length in the block.               *)
FaultySpills(a, used) == used > Block[a] - LenBytes
Spills(a, used)       == used + 1 > Block[a] - LenBytes

(* crypto_sha1_finalize and crypto_sha2_finalize.                          *)
FinalizeLength(a, s) ==
    LET B      == Block[a]
        marked == Put(s.block, s.used, <<Top>>)
        spill  == Spills(a, s.used)
        first  == Clear(marked, s.used + 1, B)
        zeroed == Clear(IF spill THEN first ELSE marked,
                        IF spill THEN 0 ELSE s.used + 1, B - LenBytes)
        last   == Put(zeroed, B - LenBytes, LengthField(a, s))
    IN [s EXCEPT !.fed   = @ \o (IF spill THEN SubSeq(first, 1, B) ELSE <<>>)
                             \o SubSeq(last, 1, B),
                 !.block = IF Family[a] = "SHA1" THEN last ELSE Fill(MaxBlock),
                 !.used  = 0]

(* crypto_lsh_finalize: zeros first, then the marking byte.                *)
FinalizeLsh(a, s) ==
    LET last == Put(Clear(s.block, s.used, Block[a]), s.used, <<Top>>)
    IN [s EXCEPT !.fed = @ \o SubSeq(last, 1, Block[a]),
                 !.block = Fill(MaxBlock), !.used = 0]

(* sha3_context_init: the byte that keeps SHA-3 and SHAKE apart.           *)
FaultyDomainByte(a) == Top - 1
DomainByte(a)       == Domain[a]

(* crypto_sha3_finalize: the domain byte and the top bit are XORed in,     *)
(* possibly into one byte; their bits are disjoint, so + is XOR there.     *)
FinalizeSponge(a, s) ==
    LET R    == Block[a]
        last == [j \in 1 .. R |-> s.block[j]
                                  + (IF j = s.used + 1 THEN DomainByte(a) ELSE 0)
                                  + (IF j = R THEN Top ELSE 0)]
    IN [s EXCEPT !.fed = @ \o last, !.block = Fill(MaxBlock), !.used = 0]

Finalize(a, s) ==
    CASE Family[a] \in LengthFamilies -> FinalizeLength(a, s)
      [] Family[a] = "LSH"            -> FinalizeLsh(a, s)
      [] Family[a] \in SpongeFamilies -> FinalizeSponge(a, s)

----------------------------------------------------------------------------
(* Output.                                                                 *)

(* crypto_sha3_squeeze: the state is permuted lazily, when a byte is       *)
(* wanted and the rate is exhausted.                                       *)
SqueezeBytes(a, s, n) ==
    [i \in 1 .. n |-> LET at == s.used + i - 1
                      IN  OutByte(a, s.fed, s.perms + (at \div Block[a]),
                                  at % Block[a])]


SqueezeState(a, s, n) ==
    IF n = 0 THEN s
    ELSE LET last == s.used + n - 1
         IN  [s EXCEPT !.perms = @ + (last \div Block[a]),
                       !.used  = (last % Block[a]) + 1]

(* crypto_sha1_squeeze, crypto_sha2_squeeze, crypto_lsh_squeeze: the       *)
(* leading bytes of the chaining value.                                    *)
DigestBytes(a, s) ==
    IF Family[a] \in SpongeFamilies THEN SqueezeBytes(a, s, DigestLen[a])
    ELSE [i \in 1 .. DigestLen[a] |-> OutByte(a, s.fed, 0, i - 1)]

----------------------------------------------------------------------------
(* The interface.  A call works on a local copy of the context and saves   *)
(* it only when it succeeds, so a rejected call changes nothing else.      *)

Reject(status) == ret' = status /\ UNCHANGED <<phase, alg, st, absorbed, out>>

Forget(c) ==
    /\ st'  = [st EXCEPT ![c] = Fresh]
    /\ out' = [out EXCEPT ![c] = <<>>]
    /\ absorbed' = [absorbed EXCEPT ![c] = <<>>]

HashInit(c, a) ==
    /\ a \in Algs
    /\ Forget(c)
    /\ phase' = [phase EXCEPT ![c] = "ABSORBING"]
    /\ alg'   = [alg EXCEPT ![c] = a]
    /\ ret'   = "SUCCESS"

(* LIBERAC_HASH_CLEAR; LIBERAC_HASH_INIT clears the context before it      *)
(* looks at the identifier.                                                *)
Erase(c) ==
    /\ Forget(c)
    /\ phase' = [phase EXCEPT ![c] = "CLEARED"]
    /\ alg'   = [alg EXCEPT ![c] = NoAlg]

HashInitUnknown(c) == Erase(c) /\ ret' = "INVALID_ALG_ID"

HashClear(c) == Erase(c) /\ UNCHANGED ret

HashUpdate(c, input) ==
    /\ phase[c] = "ABSORBING"
    /\ LengthFits(alg[c], st[c], Len(input))
    /\ st' = [st EXCEPT ![c] = Absorb(alg[c], @, input)]
    /\ absorbed' = [absorbed EXCEPT ![c] = @ \o input]
    /\ ret' = "SUCCESS"
    /\ UNCHANGED <<phase, alg, out>>

HashUpdateTooLarge(c, n) ==
    /\ phase[c] = "ABSORBING"
    /\ ~LengthFits(alg[c], st[c], n)
    /\ Reject("MESSAGE_TOO_LARGE")

(* A null INPUT with a nonzero length, or a phase other than ABSORBING.    *)
HashUpdateInvalid(c, isNull) ==
    /\ isNull \/ phase[c] # "ABSORBING"
    /\ Reject("INVALID_ARGUMENT")

HashFinalize(c) ==
    /\ phase[c] = "ABSORBING"
    /\ st'    = [st EXCEPT ![c] = Finalize(alg[c], @)]
    /\ phase' = [phase EXCEPT ![c] = "FINALIZED"]
    /\ ret'   = "SUCCESS"
    /\ UNCHANGED <<alg, absorbed, out>>

HashFinalizeInvalid(c) ==
    /\ phase[c] # "ABSORBING"
    /\ Reject("INVALID_ARGUMENT")

IsShake(a) == Family[a] = "SHAKE"

(* LIBERAC_HASH_SQUEEZE into a buffer of n bytes (null when n = 0).        *)
SqueezeXof(c, n) ==
    /\ phase[c] \in {"FINALIZED", "SQUEEZING"}
    /\ IsShake(alg[c])
    /\ out'   = [out EXCEPT ![c] = @ \o SqueezeBytes(alg[c], st[c], n)]
    /\ st'    = [st EXCEPT ![c] = SqueezeState(alg[c], @, n)]
    /\ phase' = [phase EXCEPT ![c] = "SQUEEZING"]
    /\ ret'   = "SUCCESS"
    /\ UNCHANGED <<alg, absorbed>>

FaultySqueezeDigest(c, n) ==
    /\ phase[c] = "FINALIZED"
    /\ ~IsShake(alg[c])
    /\ n >= DigestLen[alg[c]]
    /\ out' = [out EXCEPT ![c] = @ \o DigestBytes(alg[c], st[c])]
    /\ ret' = "SUCCESS"
    /\ UNCHANGED <<phase, alg, st, absorbed>>

SqueezeDigest(c, n) ==
    /\ phase[c] = "FINALIZED"
    /\ ~IsShake(alg[c])
    /\ IF n < DigestLen[alg[c]]
       THEN Reject("BUFFER_TOO_SMALL")
       ELSE /\ out'   = [out EXCEPT ![c] = @ \o DigestBytes(alg[c], st[c])]
            /\ st'    = [st EXCEPT ![c] = Fresh]
            /\ phase' = [phase EXCEPT ![c] = "CONSUMED"]
            /\ ret'   = "SUCCESS"
            /\ UNCHANGED <<alg, absorbed>>

\* isNull: no OUTPUT although bytes are asked for.
SqueezeInvalid(c, isNull) ==
    /\ isNull \/ phase[c] \notin {"FINALIZED", "SQUEEZING"}
    /\ Reject("INVALID_ARGUMENT")

Inputs == UNION {[1 .. n -> Data] : n \in 0 .. MaxChunk}

Init ==
    /\ phase = [c \in Contexts |-> "CLEARED"]
    /\ alg   = [c \in Contexts |-> NoAlg]
    /\ st    = [c \in Contexts |-> Fresh]
    /\ absorbed = [c \in Contexts |-> <<>>]
    /\ out   = [c \in Contexts |-> <<>>]
    /\ ret   = "SUCCESS"

Update(c) ==
    \/ \E input \in Inputs :
          /\ Len(absorbed[c]) + Len(input) <= MaxAbsorb
          /\ \A j \in DOMAIN input : Len(absorbed[c]) + j > MaxVaried => input[j] = Top
          /\ HashUpdate(c, input)
    \/ \E n \in 1 .. MaxChunk : HashUpdateTooLarge(c, n)
    \/ \E isNull \in BOOLEAN : HashUpdateInvalid(c, isNull)

Squeeze(c) ==
    \/ \E n \in 0 .. MaxOut : Len(out[c]) + n <= MaxOut /\ SqueezeXof(c, n)
    \/ \E n \in 0 .. MaxOut : SqueezeDigest(c, n)
    \/ \E isNull \in BOOLEAN : SqueezeInvalid(c, isNull)

Next ==
    \E c \in Contexts :
        \/ \E a \in Algs : HashInit(c, a)
        \/ HashInitUnknown(c)
        \/ HashClear(c)
        \/ Update(c)
        \/ HashFinalize(c) \/ HashFinalizeInvalid(c)
        \/ Squeeze(c)

Spec == Init /\ [][Next]_vars

----------------------------------------------------------------------------
(* LIBERAC_HASH: the same calls in a row on a context of its own.          *)
OneShot(a, input, n) ==
    LET done == Finalize(a, Absorb(a, Fresh, input))
    IN  IF a \notin Algs
        THEN [ret |-> "INVALID_ALG_ID", out |-> <<>>]
        ELSE IF ~IsShake(a) /\ n < DigestLen[a]
        THEN [ret |-> "BUFFER_TOO_SMALL", out |-> <<>>]
        ELSE IF ~LengthFits(a, Fresh, Len(input))
        THEN [ret |-> "MESSAGE_TOO_LARGE", out |-> <<>>]
        ELSE [ret |-> "SUCCESS",
              out |-> IF IsShake(a) THEN SqueezeBytes(a, done, n)
                      ELSE DigestBytes(a, done)]

----------------------------------------------------------------------------
(* Properties.                                                             *)

OutBytes == (Algs \cup {"zero"}) \X Nat \X Seq(Nat) \X Nat \X Nat

State == [fed : Seq(Nat), block : [1 .. MaxBlock -> Byte], used : 0 .. MaxBlock,
          low : 0 .. LenMax, high : 0 .. Word - 1, perms : Nat]

(* Every variable has its type; in particular what BLOCK holds is bytes,   *)
(* BUFFER_LENGTH never passes the array and the length words keep their    *)
(* width without being cut.                                                *)
TypeOK ==
    /\ phase \in [Contexts -> Phases]
    /\ alg \in [Contexts -> Algs \cup {NoAlg}]
    /\ st \in [Contexts -> State]
    /\ absorbed \in [Contexts -> Seq(Byte)]
    /\ out \in [Contexts -> Seq(OutBytes)]
    /\ ret \in Statuses

Absorbing(c) == phase[c] = "ABSORBING"
Closed(c)    == phase[c] \in {"FINALIZED", "SQUEEZING"}

(* inc/HashFunction.h: "Splitting a message into arbitrary chunks produces *)
(* the same result".  Whatever calls of LIBERAC_HASH_UPDATE brought the    *)
(* message in, the bytes compressed followed by the bytes waiting in BLOCK *)
(* are the message: none lost, repeated, reordered or left from an earlier *)
(* block, and a full block never waits.                                    *)
NothingLost ==
    \A c \in Contexts : Absorbing(c) =>
        /\ st[c].used < Block[alg[c]]
        /\ Len(st[c].fed) % Block[alg[c]] = 0
        /\ st[c].fed \o SubSeq(st[c].block, 1, st[c].used) = absorbed[c]

(* LIBERAC_HASH_FINALIZE: the bytes compressed are the message padded as   *)
(* its standard says, whichever block the padding and the length fell in   *)
(* and however the message was split.                                      *)
PaddedAsStandard ==
    \A c \in Contexts :
        Closed(c) => st[c].fed = Padded(alg[c], absorbed[c])

(* LIBERAC_HASH_UPDATE answers MESSAGE_TOO_LARGE exactly when the whole    *)
(* message, not the chunk, would have a length in bits that the length     *)
(* field cannot hold, although the three length counters of the code count *)
(* different things.                                                       *)
LimitIsExact ==
    \A c \in Contexts : Absorbing(c) =>
        \A n \in 0 .. MaxChunk :
            LengthFits(alg[c], st[c], n)
              <=> Fits(alg[c], Len(absorbed[c]) + n)

(* LIBERAC_HASH_SQUEEZE: the bytes delivered since LIBERAC_HASH_INIT are   *)
(* the algorithm's output for the message: pieces of a XOF's output        *)
(* concatenate to one stream, a fixed-length digest is complete and comes  *)
(* at most once.                                                           *)
OutputIsTheStream ==
    \A c \in Contexts : phase[c] # "CLEARED" =>
        /\ \A k \in 1 .. Len(out[c]) :
               out[c][k] = Stream(alg[c], absorbed[c], k - 1)
        /\ ~IsShake(alg[c]) =>
               Len(out[c]) = IF phase[c] = "CONSUMED" THEN DigestLen[alg[c]] ELSE 0

(* LIBERAC_HASH returns for the whole message what the incremental calls   *)
(* delivered, and rejects the message they would have rejected, when the   *)
(* message is one that a single size_t can describe.                       *)
OneShotAgrees ==
    \A c \in Contexts : Len(absorbed[c]) < Word =>
        /\ out[c] # <<>> =>
              OneShot(alg[c], absorbed[c], Len(out[c]))
                = [ret |-> "SUCCESS", out |-> out[c]]
        /\ phase[c] # "CLEARED" =>
              OneShot(alg[c], absorbed[c], MaxOut + DigestLen[alg[c]]).ret = "SUCCESS"

(* Every call of the incremental interface and of LIBERAC_HASH answers as  *)
(* the standard of the algorithm does: the four parts above together.      *)
AnswersAreStandard ==
    PaddedAsStandard /\ LimitIsExact /\ OutputIsTheStream /\ OneShotAgrees

(* The first output byte of a context is shared by no other message of up  *)
(* to a block and by no other algorithm: the padding that                  *)
(* LIBERAC_HASH_FINALIZE applied is injective and the domain byte keeps    *)
(* SHA-3 and SHAKE apart at the same rate.                                 *)
OutputBindsMessage ==
    \A c \in Contexts : out[c] # <<>> =>
        \A a \in Algs, n \in 0 .. MaxBlock : \A m \in [1 .. n -> Data] :
            Stream(a, m, 0) = out[c][1] => a = alg[c] /\ m = absorbed[c]

Promise == INSTANCE HashSpec WITH msg <- absorbed

(* The context code implements HashSpec: it never shows a caller that a    *)
(* message is buffered, counted and padded.                                *)
ImplementsHashSpec == Promise!Spec
=============================================================================
