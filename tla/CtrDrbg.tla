------------------------------- MODULE CtrDrbg -------------------------------
(***************************************************************************)
(* One LiberaCCtrDrbgContext (ctr_drbg.c): instantiate, reseed, generate   *)
(* and clear, with caller-supplied or operating-system entropy, with and   *)
(* without the derivation function, with and without prediction            *)
(* resistance.  The block cipher is symbolic: KEY and the V it was set     *)
(* with are named by the updates that produced them, so V is an offset and *)
(* a keystream block is a pair of that name and an offset.                 *)
(***************************************************************************)
EXTENDS Integers, Sequences

CONSTANTS
    Algs,        \* supported LIBERAC_ALG_CTR_DRBG_* identifiers
    UseDf,       \* USE_DF
    BlockLen,    \* BLOCK_LENGTH
    SeedLen,     \* KEY_LENGTH + BLOCK_LENGTH
    Security,    \* SECURITY_BYTES
    MaxRequest,  \* MAX_REQUEST_BYTES
    Interval,    \* RESEED_INTERVAL
    VMod,        \* number of values of V
    JoinMax,     \* UINT32_MAX, the longest input of the derivation function
    NoAlg,       \* an identifier that is no CTR-DRBG algorithm
    Strings,     \* bound: byte strings the callers pass
    MaxOut,      \* bound: bytes asked for in one request
    MaxUpdates,  \* bound: updates of KEY and V since instantiation
    MaxDraws     \* bound: calls of the operating system's random source

(* A byte is the set of unknowns XORed in it: the zero byte is {}.  An     *)
(* unknown is <<k, i>>: byte i of draw k of the operating system, or, when *)
(* k = 0, a caller's byte.                                                 *)
Unknown == Nat \X Nat
Bytes   == SUBSET Unknown
Xor(x, y) == (x \ y) \cup (y \ x)

ASSUME DrbgConstants ==
    /\ UseDf \in [Algs -> BOOLEAN]
    /\ BlockLen \in [Algs -> Nat \ {0}] /\ SeedLen \in [Algs -> Nat \ {0}]
    /\ Security \in [Algs -> Nat \ {0}] /\ MaxRequest \in [Algs -> Nat]
    /\ Interval \in [Algs -> Nat \ {0}] /\ VMod \in [Algs -> Nat \ {0}]
    /\ JoinMax \in Nat /\ NoAlg \notin Algs
    /\ Strings \subseteq Seq(Bytes)
    /\ \A s \in Strings : \A i \in DOMAIN s : s[i] \subseteq {0} \X Nat
    /\ MaxOut \in Nat /\ MaxUpdates \in Nat /\ MaxDraws \in Nat

(* Blocks that hold n bytes: the loops that copy at most a block at a time.*)
Blocks(a, n)  == (n + (BlockLen[a] - 1)) \div BlockLen[a]
SeedBlocks(a) == Blocks(a, SeedLen[a])

(* V does not come round within one request and the update that ends it.   *)
ASSUME RequestFitsV ==
    \A a \in Algs : Blocks(a, MaxRequest[a]) + SeedBlocks(a) <= VMod[a]

VARIABLES
    ctx,    \* the context
    draws,  \* how often the operating system was asked for bytes
    call,   \* what the last call returned, delivered and consumed
    spent   \* history: the blocks computed before it, since instantiation

vars == <<ctx, draws, call, spent>>

Cleared == [alg |-> NoAlg, inst |-> FALSE, counter |-> 0, name |-> <<>>, off |-> 0]

Quiet(code) == [ret |-> code, out |-> <<>>, keyed |-> {}, pr |-> FALSE]

----------------------------------------------------------------------------
(* Seeds.                                                                  *)

(* memcpy into a zeroed seed.                                              *)
Padded(a, x) == [i \in 1 .. SeedLen[a] |-> IF i <= Len(x) THEN x[i] ELSE {}]

PlainSeed(a, x, y) ==
    [df |-> FALSE,
     bytes |-> [i \in 1 .. SeedLen[a] |-> Xor(Padded(a, x)[i], Padded(a, y)[i])]]

(* block_cipher_df: the length is part of what is encrypted.               *)
DfSeed(joined) == [df |-> TRUE, bytes |-> joined]

SeedFrom(a, entropy, nonce, other) ==
    IF UseDf[a] THEN DfSeed(entropy \o nonce \o other)
    ELSE PlainSeed(a, entropy, other)

(* make_df_seed and block_cipher_df allocate; either may be refused.       *)
DfOutcomes(n) ==
    IF n > JoinMax THEN {"MESSAGE_TOO_LARGE"} ELSE {"SUCCESS", "ALLOCATION_FAILED"}

(* Bytes of entropy and nonce together.                                    *)
Required(a) == Security[a] + ((Security[a] + 1) \div 2)

InstantiateOutcomes(a, entropy, nonce, other) ==
    LET e == Len(entropy)
        n == Len(nonce)
    IN  IF UseDf[a]
        THEN IF e < Security[a] \/ (e < Required(a) /\ n < Required(a) - e)
             THEN {"INVALID_ARGUMENT"}
             ELSE DfOutcomes(e + n + Len(other))
        ELSE IF e # SeedLen[a] \/ n # 0 \/ Len(other) > SeedLen[a]
             THEN {"INVALID_ARGUMENT"}
             ELSE {"SUCCESS"}

ReseedOutcomes(a, entropy, additional) ==
    LET e == Len(entropy)
    IN  IF UseDf[a]
        THEN IF e < Security[a] THEN {"INVALID_ARGUMENT"}
             ELSE DfOutcomes(e + Len(additional))
        ELSE IF e # SeedLen[a] \/ Len(additional) > SeedLen[a]
             THEN {"INVALID_ARGUMENT"}
             ELSE {"SUCCESS"}

(* prepare_additional: an empty input leaves a zero seed.                  *)
AdditionalOutcomes(a, additional) ==
    IF additional = <<>> THEN {"SUCCESS"}
    ELSE IF UseDf[a] THEN DfOutcomes(Len(additional))
    ELSE IF Len(additional) > SeedLen[a] THEN {"INVALID_ARGUMENT"}
    ELSE {"SUCCESS"}

Provided(a, additional) ==
    IF additional # <<>> /\ UseDf[a] THEN DfSeed(additional)
    ELSE PlainSeed(a, additional, <<>>)

----------------------------------------------------------------------------
(* The working state.                                                      *)

(* increment_v, n times, from the V of c: the blocks encrypted.            *)
FaultyRun(c, from, n) == {<<c.name, (c.off + from + i - 1) % VMod[c.alg]>> : i \in 1 .. n}
Run(c, from, n) == {<<c.name, (c.off + from + i) % VMod[c.alg]>> : i \in 1 .. n}

(* The blocks ctr_drbg_update turns into the next KEY and V, after used    *)
(* blocks have been generated with the present ones.                       *)
Keying(c, used) == Run(c, used, SeedBlocks(c.alg))

(* ctr_drbg_update: the new KEY and V depend on the old ones, on where V   *)
(* stood and on the provided data, and on nothing else.                    *)
FaultyRekeyed(c, used, seed) == [c EXCEPT !.off = (@ + used) % VMod[c.alg]]
Rekeyed(c, used, seed) ==
    [c EXCEPT !.name = Append(@, [at |-> (c.off + used) % VMod[c.alg], seed |-> seed]),
              !.off  = 0]

(* n bytes of output: whole blocks and the beginning of the last.          *)
Output(c, n) ==
    [i \in 1 .. n |->
        <<c.name, (c.off + 1 + ((i - 1) \div BlockLen[c.alg])) % VMod[c.alg],
          (i - 1) % BlockLen[c.alg]>>]

BlocksOf(out) == {<<out[i][1], out[i][2]>> : i \in DOMAIN out}

Seeded(a, c, seed) == [Rekeyed(c, 0, seed) EXCEPT !.alg = a, !.inst = TRUE, !.counter = 1]
Blank(a)  == [Cleared EXCEPT !.alg = a]

FaultyReseeded(c, seed) == [Rekeyed(c, 0, seed) EXCEPT !.counter = c.counter]
Reseeded(c, seed) == [Rekeyed(c, 0, seed) EXCEPT !.counter = 1]

OsBytes(k, n) == [i \in 1 .. n |-> {<<k, i>>}]
EntropyLen(a) == IF UseDf[a] THEN Security[a] ELSE SeedLen[a]
NonceLen(a)   == IF UseDf[a] THEN (Security[a] + 1) \div 2 ELSE 0

----------------------------------------------------------------------------
(* Calls.                                                                  *)

(* A call that fails before it writes to the context.                      *)
Refuse(code) ==
    /\ call' = Quiet(code)
    /\ spent' = spent \cup BlocksOf(call.out) \cup call.keyed
    /\ UNCHANGED ctx

Wipe(code) ==
    /\ ctx' = Cleared
    /\ call' = Quiet(code)
    /\ spent' = {}

(* A null ENTROPY, PERSONALIZATION, ADDITIONAL or OUTPUT, or an unknown    *)
(* algorithm: found before anything else.                                  *)
BadArguments == Refuse("INVALID_ARGUMENT") /\ UNCHANGED draws
UnknownAlg   == Refuse("INVALID_ALG_ID") /\ UNCHANGED draws

InstantiateWith(a, entropy, nonce, other) ==
    \E code \in InstantiateOutcomes(a, entropy, nonce, other) :
        IF code # "SUCCESS" THEN Wipe(code)
        ELSE /\ ctx'  = Seeded(a, Blank(a), SeedFrom(a, entropy, nonce, other))
             /\ call' = [Quiet(code) EXCEPT !.keyed = Keying(Blank(a), 0)]
             /\ spent' = {}

Instantiate(a, entropy, nonce, other) ==
    InstantiateWith(a, entropy, nonce, other) /\ UNCHANGED draws

(* Entropy is drawn first, then the nonce; the context is not touched when *)
(* either draw fails.                                                      *)
InstantiateOs(a, other) ==
    LET entropy == OsBytes(draws + 1, EntropyLen(a))
        nonce   == OsBytes(draws + 2, NonceLen(a))
    IN  /\ InstantiateWith(a, entropy, nonce, other)
        /\ draws' = draws + (IF NonceLen(a) = 0 THEN 1 ELSE 2)

InstantiateOsFails(a) ==
    /\ Refuse("RANDOM_FAILED")
    /\ \E k \in 1 .. (IF NonceLen(a) = 0 THEN 1 ELSE 2) : draws' = draws + k

ReseedWith(entropy, additional) ==
    \E code \in ReseedOutcomes(ctx.alg, entropy, additional) :
        IF code # "SUCCESS" THEN Refuse(code)
        ELSE /\ ctx'  = Reseeded(ctx, SeedFrom(ctx.alg, entropy, <<>>, additional))
             /\ call' = [Quiet(code) EXCEPT !.keyed = Keying(ctx, 0)]
             /\ spent' = spent \cup BlocksOf(call.out) \cup call.keyed

Reseed(entropy, additional) ==
    /\ ctx.inst
    /\ ReseedWith(entropy, additional)
    /\ UNCHANGED draws

ReseedOs(additional) ==
    /\ ctx.inst
    /\ ReseedWith(OsBytes(draws + 1, EntropyLen(ctx.alg)), additional)
    /\ draws' = draws + 1

(* The operating system's bytes fail to come, in LIBERAC_CTR_DRBG_RESEED_OS*)
(* or in a request with prediction resistance.                             *)
OsFails ==
    /\ ctx.inst
    /\ Refuse("RANDOM_FAILED")
    /\ draws' = draws + 1

NotInstantiated == ~ctx.inst /\ Refuse("INVALID_ARGUMENT") /\ UNCHANGED draws

GenerateTooLarge(n) ==
    /\ ctx.inst
    /\ n > MaxRequest[ctx.alg]
    /\ Refuse("MESSAGE_TOO_LARGE")
    /\ UNCHANGED draws

(* What generate does with a context c that is fit to serve: an update     *)
(* with the additional input, the output, and an update that makes the KEY *)
(* and V that gave it unrecoverable.                                       *)
Mixed(c, additional) ==
    IF additional = <<>> THEN c ELSE Rekeyed(c, 0, Provided(c.alg, additional))

Served(c, n, additional) ==
    LET m == Mixed(c, additional)
    IN  [Rekeyed(m, Blocks(c.alg, n), Provided(c.alg, additional))
            EXCEPT !.counter = @ + 1]

Consumed(c, n, additional) ==
    LET m == Mixed(c, additional)
    IN  (IF additional = <<>> THEN {} ELSE Keying(c, 0))
            \cup Keying(m, Blocks(c.alg, n))

FaultyExhausted(c) == c.counter > Interval[c.alg] + 1
Exhausted(c) == c.counter > Interval[c.alg]

Generate(n, additional) ==
    /\ ctx.inst
    /\ n <= MaxRequest[ctx.alg]
    /\ UNCHANGED draws
    /\ IF Exhausted(ctx) THEN Refuse("RESEED_REQUIRED")
       ELSE \E code \in AdditionalOutcomes(ctx.alg, additional) :
              IF code # "SUCCESS" THEN Refuse(code)
              ELSE /\ ctx'  = Served(ctx, n, additional)
                   /\ call' = [ret |-> code, pr |-> FALSE,
                               out |-> Output(Mixed(ctx, additional), n),
                               keyed |-> Consumed(ctx, n, additional)]
                   /\ spent' = spent \cup BlocksOf(call.out) \cup call.keyed

(* With prediction resistance the additional input goes into a reseed from *)
(* the operating system, before the counter is looked at.                  *)
FaultyFreshened(c, entropy, additional) == c
Freshened(c, entropy, additional) ==
    Reseeded(c, SeedFrom(c.alg, entropy, <<>>, additional))

GenerateResistant(n, additional) ==
    LET entropy == OsBytes(draws + 1, EntropyLen(ctx.alg))
    IN  /\ ctx.inst
        /\ n <= MaxRequest[ctx.alg]
        /\ draws' = draws + 1
        /\ \E code \in ReseedOutcomes(ctx.alg, entropy, additional) :
             IF code # "SUCCESS" THEN Refuse(code)
             ELSE LET c == Freshened(ctx, entropy, additional)
                  IN  /\ ctx'  = Served(c, n, <<>>)
                      /\ call' = [ret |-> code, pr |-> TRUE,
                                  out |-> Output(c, n),
                                  keyed |-> Keying(ctx, 0) \cup Consumed(c, n, <<>>)]
                      /\ spent' = spent \cup BlocksOf(call.out) \cup call.keyed

Clear == Wipe(call.ret) /\ UNCHANGED draws

Init ==
    /\ ctx = Cleared
    /\ draws = 0
    /\ call = Quiet("SUCCESS")
    /\ spent = {}

InstantiateSome ==
    \E a \in Algs, other \in Strings :
        \/ \E entropy, nonce \in Strings : Instantiate(a, entropy, nonce, other)
        \/ draws + 2 <= MaxDraws /\ (InstantiateOs(a, other) \/ InstantiateOsFails(a))

ReseedSome ==
    \E additional \in Strings :
        \/ \E entropy \in Strings : Reseed(entropy, additional)
        \/ draws < MaxDraws /\ ReseedOs(additional)

GenerateSome ==
    \E n \in 0 .. MaxOut, additional \in Strings :
        \/ Generate(n, additional)
        \/ draws < MaxDraws /\ GenerateResistant(n, additional)

Next ==
    \/ InstantiateSome
    \/ Len(ctx.name) < MaxUpdates /\ ReseedSome
    \/ Len(ctx.name) < MaxUpdates /\ GenerateSome
    \/ ctx.inst /\ Exhausted(ctx) /\ \E n \in 0 .. MaxOut : Generate(n, <<>>)
    \/ draws < MaxDraws /\ OsFails
    \/ NotInstantiated
    \/ \E n \in 0 .. MaxOut : GenerateTooLarge(n)
    \/ BadArguments \/ UnknownAlg
    \/ Clear

Spec == Init /\ [][Next]_vars

----------------------------------------------------------------------------
(* Properties.                                                             *)

Names   == Seq([at : Nat, seed : [df : BOOLEAN, bytes : Seq(Bytes)]])
Context == [alg : Algs \cup {NoAlg}, inst : BOOLEAN, counter : Nat,
            name : Names, off : Nat]
Codes   == {"SUCCESS", "INVALID_ARGUMENT", "INVALID_ALG_ID", "MESSAGE_TOO_LARGE",
            "ALLOCATION_FAILED", "RANDOM_FAILED", "RESEED_REQUIRED"}

(* Every variable has its type, and a context that is INSTANTIATED has an  *)
(* algorithm and a RESEED_COUNTER that was set.                            *)
TypeOK ==
    /\ ctx \in Context
    /\ ctx.inst => ctx.alg \in Algs /\ ctx.counter \in 1 .. Interval[ctx.alg] + 1
    /\ draws \in Nat
    /\ call \in [ret : Codes, out : Seq(Names \X Nat \X Nat),
                 keyed : SUBSET (Names \X Nat), pr : BOOLEAN]
    /\ spent \in SUBSET (Names \X Nat)

(* Between two instantiations no keystream block is computed twice with    *)
(* the same KEY and V: no two bytes delivered are the same byte, in one    *)
(* request or in two, and no block delivered is one that went into a KEY.  *)
NeverTwice ==
    LET delivered == BlocksOf(call.out)
    IN  /\ \A i, j \in DOMAIN call.out : call.out[i] = call.out[j] => i = j
        /\ delivered \cap call.keyed = {}
        /\ (delivered \cup call.keyed) \cap spent = {}

(* Backtracking resistance: whatever call just returned, the KEY in the    *)
(* context is not one that any block computed so far was made with, so the *)
(* context gives away nothing that was delivered before.                   *)
KeyErased ==
    \A b \in spent \cup call.keyed \cup BlocksOf(call.out) : b[1] # ctx.name

(* PREDICTION_RESISTANCE: every byte of the request, and the state it      *)
(* leaves, depend on operating-system entropy drawn during the request.    *)
Knows(name, k) ==
    \E e \in DOMAIN name : \E i \in DOMAIN name[e].seed.bytes :
        <<k, 1>> \in name[e].seed.bytes[i]

PredictionResistant ==
    call.pr => /\ Knows(ctx.name, draws)
               /\ \A i \in DOMAIN call.out : Knows(call.out[i][1], draws)

Promise == INSTANCE DrbgSpec WITH
    ready  <- IF ctx.inst THEN ctx.alg ELSE NoAlg,
    served <- IF ctx.inst THEN ctx.counter - 1 ELSE 0,
    ret    <- call.ret

(* RESEED_COUNTER serves the budget inc/RandomNumberGeneration.h promises: *)
(* exactly Interval requests between two seedings, whatever calls fail in  *)
(* between, and RESEED_REQUIRED only when they are used up.                *)
ImplementsDrbgSpec == Promise!Spec
=============================================================================
