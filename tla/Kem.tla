-------------------------------- MODULE Kem --------------------------------
(***************************************************************************)
(* Key encapsulation (KeyEncapsulation.c): ML-KEM, NTRU+ and SMAUG-T       *)
(* called by several threads.  The public-key encryption below each scheme *)
(* is ideal: a ciphertext is named by the key, message and coins it was    *)
(* made from.  The control above it is the code's: the argument checks,    *)
(* the thread-local parameter set ML-KEM reads through macros at every     *)
(* step, the random draws, the comparison after re-encryption, what the    *)
(* output buffers hold and when they are cleared.                          *)
(***************************************************************************)
EXTENDS Integers, Sequences, FiniteSets

-----------------------------------------------------------------------------
(***************************************************************************)
(* The random source of the post-quantum schemes (pqc_kat_rng.c).  In a    *)
(* build with CRYPTO_ENABLE_PQC_KAT each thread may switch itself to a     *)
(* DRBG seeded by a known-answer test; without the switch the bytes come   *)
(* from the operating system.  Values are symbolic: a DRBG's output is     *)
(* named by its seed and the lengths asked of it so far, the operating     *)
(* system's by a number it never repeats.                                  *)
(***************************************************************************)

CONSTANTS
    Threads,
    Seeds,        \* seeds of known-answer tests, {} in other builds
    NoSeed,
    MaxDraws,     \* bound: values taken from the operating system
    MaxRequests   \* bound: values taken from one DRBG

ASSUME RandomConstants ==
    /\ NoSeed \notin Seeds
    /\ MaxDraws \in Nat /\ MaxRequests \in Nat

VARIABLES
    kat,      \* pqc_kat_active and pqc_kat_drbg of each thread
    osDrawn,  \* values the operating system has given
    stream    \* history: what each thread drew since it last switched

randomVars == <<kat, osDrawn, stream>>

Off == [active |-> FALSE, seed |-> NoSeed, requests |-> <<>>]

RandomInit ==
    /\ kat = [t \in Threads |-> Off]
    /\ osDrawn = 0
    /\ stream = [t \in Threads |-> <<>>]

(* Only thread t's switch changes.                                         *)
FaultySwitched(t, state) == [u \in Threads |-> state]
Switched(t, state)       == [kat EXCEPT ![t] = state]

(* The seed is 48 bytes without a personalisation string, which the DRBG   *)
(* always accepts; a null seed is refused before anything changes.         *)
KatInitialize(t, seed) ==
    /\ kat' = Switched(t, [active |-> TRUE, seed |-> seed, requests |-> <<>>])
    /\ stream' = [stream EXCEPT ![t] = <<>>]
    /\ UNCHANGED osDrawn

KatFinalize(t) ==
    /\ kat' = Switched(t, Off)
    /\ stream' = [stream EXCEPT ![t] = <<>>]
    /\ UNCHANGED osDrawn

(* The value crypto_pqc_random_bytes_internal returns for n bytes.         *)
Value(t, n) ==
    IF kat[t].active
    THEN [src |-> "kat", seed |-> kat[t].seed, at |-> 0,
          requests |-> Append(kat[t].requests, n)]
    ELSE [src |-> "os", seed |-> NoSeed, at |-> osDrawn + 1, requests |-> <<>>]

RandomBytes(t, n) ==
    /\ IF kat[t].active
       THEN /\ Len(kat[t].requests) < MaxRequests
            /\ kat' = Switched(t, [kat[t] EXCEPT !.requests = Append(@, n)])
            /\ UNCHANGED osDrawn
       ELSE osDrawn < MaxDraws /\ osDrawn' = osDrawn + 1 /\ UNCHANGED kat
    /\ stream' = [stream EXCEPT ![t] = Append(@, [n |-> n, value |-> Value(t, n)])]

(* The operating system may fail, the DRBG does not.                       *)
RandomFails(t) == ~kat[t].active /\ UNCHANGED randomVars

----------------------------------------------------------------------------
(* pqc_kat_rng.c: a thread under a known-answer test draws what its seed   *)
(* and its own requests determine, whatever the other threads do, and a    *)
(* thread that is not under test, or no longer, draws from the operating   *)
(* system only.                                                            *)
StreamsAreOwn ==
    \A t \in Threads : \A i \in 1 .. Len(stream[t]) :
        LET drawn == stream[t][i].value IN
        IF kat[t].active
        THEN /\ drawn.src = "kat" /\ drawn.seed = kat[t].seed
             /\ drawn.requests = [j \in 1 .. i |-> stream[t][j].n]
        ELSE drawn.src = "os"
-----------------------------------------------------------------------------
(***************************************************************************)
(* Key encapsulation.                                                      *)
(***************************************************************************)

CONSTANTS
    Algs,
    NoAlg,      \* an identifier that is no KEM; also the unset parameter set
    Family,     \* of each algorithm
    Size,       \* orders the encoded lengths of a family's algorithms
    Flips,      \* the ways a ciphertext is changed on its way
    Singular,   \* NTRU+ coins whose polynomial has no inverse
    Careless,   \* whether callers pass bad arguments and damaged keys
    MaxOpened   \* bound: decapsulations that end

Families == {"MLKEM", "NTRU", "SMAUG"}

ASSUME KemConstants ==
    /\ NoAlg \notin Algs
    /\ Family \in [Algs -> Families]
    /\ Size \in [Algs -> Nat]
    /\ \A a, b \in Algs : Family[a] = Family[b] /\ Size[a] = Size[b] => a = b
    /\ Flips \subseteq {"noise", "message", "malformed"}
    /\ Careless \in BOOLEAN /\ MaxOpened \in Nat

VARIABLES
    active,   \* mlkem_active_parameters of each thread
    call,     \* the call each thread is in
    out,      \* its output buffers
    ret,      \* its last return value
    keys, sent, opened   \* history: results delivered

results == <<keys, sent, opened>>
vars == <<kat, osDrawn, stream, active, call, out, ret, keys, sent, opened>>

(* What an output buffer holds before the call, what it holds when it has  *)
(* been cleared, and nothing at all: none of them a key, a ciphertext, a   *)
(* secret or coins.                                                        *)
Caller == [holds |-> "the caller's bytes"]
Zero   == [holds |-> "zeros"]
None   == [holds |-> "nothing"]

Idle == [op |-> "idle", alg |-> NoAlg, step |-> "none", key |-> None,
         ct |-> None, coins |-> <<>>, msg |-> None]

SameFamily(a, b) == a \in Algs /\ b \in Algs /\ Family[a] = Family[b]

----------------------------------------------------------------------------
(* Encoded keys: which key they encode, the length, and whether the checks *)
(* of the encoding pass (coefficients in range; in an ML-KEM private key   *)
(* the hash of its public key).  The routines read the length their        *)
(* parameter set says: of a longer object, its beginning.                  *)

Encoding(alg, coins) ==
    [of |-> [made |-> alg, coins |-> coins], len |-> Size[alg], ok |-> TRUE]

Beginning(key, alg)   == [of |-> key.of, len |-> Size[alg], ok |-> key.ok]
BeginningOf(ct, alg)  == [ct EXCEPT !.len = Size[alg]]

Whole(key) == key.ok /\ key.len = Size[key.of.made]

(* The public key that goes with a private key.                            *)
PublicOf(sk) == Encoding(sk.of.made, sk.of.coins)

(* Hashes are one to one: the coins of an encryption, the secret and the   *)
(* secret that stands in for it are named by what they are computed from.  *)
Coins(m, pk)      == [m |-> m, pk |-> pk]
Secret(m, pk)     == [kind |-> "agreed", m |-> m, from |-> pk]
Rejection(sk, ct) == [kind |-> "rejected", m |-> ct, from |-> sk]

(* K_PKE_Enc, smaug_t_pke_encrypt, the encryption of NTRU+.                *)
Encrypt(alg, pk, m, coins) ==
    [to |-> Beginning(pk, alg), m |-> m, coins |-> coins,
     len |-> Size[alg], flip |-> "none"]

(* K_PKE_Dec and the others: noise is removed, anything else gives some    *)
(* other message.                                                          *)
Garbled(m) == [m EXCEPT !.src = "garbled"]

Decrypt(alg, sk, ct) ==
    IF /\ Whole(sk) /\ sk.of.made = alg /\ ct.len = Size[alg]
       /\ ct.to = PublicOf(sk) /\ ct.flip \in {"none", "noise"}
    THEN ct.m ELSE Garbled(ct.m)

----------------------------------------------------------------------------
(* A call: the checks every function starts with, its end and its failure. *)

Refusal(alg, null, fits, overlap) ==
    IF alg \notin Algs THEN "INVALID_ALG_ID"
    ELSE IF null THEN "INVALID_ARGUMENT"
    ELSE IF ~fits THEN "BUFFER_TOO_SMALL"
    ELSE IF overlap THEN "INVALID_ARGUMENT"
    ELSE "SUCCESS"

Fits(len, alg) == alg \in Algs => len >= Size[alg]

Buffers(op) ==
    CASE op = "keygen" -> {"pk", "sk"}
      [] op = "encaps" -> {"ss", "ct"}
      [] op = "decaps" -> {"ss"}

Filled(op, x) == [b \in Buffers(op) |-> x]

Returns(t, status, buffers) ==
    /\ call' = [call EXCEPT ![t] = Idle]
    /\ ret'  = [ret EXCEPT ![t] = status]
    /\ out'  = [out EXCEPT ![t] = buffers]

Refuses(t, op, status) ==
    /\ Returns(t, status, Filled(op, Caller))
    /\ UNCHANGED <<active, randomVars, results>>

FaultyCleared(op) == [b \in Buffers(op) |-> IF b = "ss" THEN Caller ELSE Zero]
Cleared(op)       == Filled(op, Zero)

Fails(t, status) ==
    /\ Returns(t, status, Cleared(call[t].op))
    /\ UNCHANGED <<active, results>>

(* ML-KEM: the parameter set is set once the arguments are accepted.       *)
FaultyActivated(t, alg) ==
    IF Family[alg] = "MLKEM" THEN [u \in Threads |-> alg] ELSE active
Activated(t, alg) ==
    IF Family[alg] = "MLKEM" THEN [active EXCEPT ![t] = alg] ELSE active

Enters(t, op, alg, key, ct, step) ==
    /\ active' = Activated(t, alg)
    /\ call' = [call EXCEPT ![t] = [op |-> op, alg |-> alg, step |-> step,
                                    key |-> key, ct |-> ct,
                                    coins |-> <<>>, msg |-> None]]
    /\ ret' = [ret EXCEPT ![t] = "NONE"]
    /\ out' = [out EXCEPT ![t] = Filled(op, Caller)]
    /\ UNCHANGED <<randomVars, results>>

KeyGen(t, alg, null, fits, overlap) ==
    LET refusal == Refusal(alg, null, fits, overlap) IN
    /\ call[t] = Idle
    /\ \/ refusal # "SUCCESS" /\ Refuses(t, "keygen", refusal)
       \/ refusal = "SUCCESS" /\ Enters(t, "keygen", alg, None, None, "draw")

(* ML-KEM looks at the public key before it draws, NTRU+ after; every      *)
(* SMAUG-T encoding is a key.                                              *)
Encaps(t, alg, null, pk, fits, overlap) ==
    LET refusal == Refusal(alg, null, fits /\ Fits(pk.len, alg), overlap) IN
    /\ call[t] = Idle
    /\ \/ refusal # "SUCCESS" /\ Refuses(t, "encaps", refusal)
       \/ /\ refusal = "SUCCESS" /\ Family[alg] = "MLKEM" /\ ~pk.ok
          /\ Returns(t, "INVALID_KEY", Cleared("encaps"))
          /\ UNCHANGED <<active, randomVars, results>>
       \/ /\ refusal = "SUCCESS" /\ (Family[alg] = "MLKEM" => pk.ok)
          /\ Enters(t, "encaps", alg, Beginning(pk, alg), None, "draw")

(* mlkem_private_key_hash_is_valid finds the hash where the parameter set  *)
(* puts it, so the beginning of a longer key does not pass;                *)
(* poly_frombytes and smaug_t_encoded_secret_key_is_valid look at ranges.  *)
KeyAccepted(alg, sk) ==
    IF Family[alg] = "MLKEM" THEN Whole(sk) /\ sk.of.made = alg ELSE sk.ok

Decaps(t, alg, null, sk, ct, overlap) ==
    LET refusal == Refusal(alg, null, Fits(sk.len, alg) /\ Fits(ct.len, alg), overlap)
    IN
    /\ call[t] = Idle
    /\ \/ refusal # "SUCCESS" /\ Refuses(t, "decaps", refusal)
       \/ /\ refusal = "SUCCESS" /\ ~KeyAccepted(alg, sk)
          /\ Returns(t, "INVALID_KEY", Cleared("decaps"))
          /\ UNCHANGED <<active, randomVars, results>>
       \/ /\ refusal = "SUCCESS" /\ KeyAccepted(alg, sk)
          /\ Enters(t, "decaps", alg, Beginning(sk, alg), BeginningOf(ct, alg), "open")

----------------------------------------------------------------------------
(* The steps of a call.  Between two of them other threads run.            *)

(* The parameter set a step works with.                                    *)
Parameters(t) == IF Family[call[t].alg] = "MLKEM" THEN active[t] ELSE call[t].alg

(* Bytes asked for; NTRU+ draws a message of n / 8 bytes, here for n = 768. *)
Request(c) ==
    CASE c.op = "keygen" /\ Family[c.alg] = "MLKEM" -> 64
      [] c.op = "encaps" /\ Family[c.alg] = "NTRU"  -> 96
      [] OTHER -> 32

FaultyWanted(c) == IF c.op = "keygen" THEN 3 ELSE 1
Wanted(c) ==
    IF c.op = "keygen" /\ Family[c.alg] # "MLKEM" THEN 2 ELSE 1

(* NTRU+ draws again until its polynomial has an inverse.                  *)
Usable(c, v) ==
    ~(/\ c.op = "keygen" /\ Family[c.alg] = "NTRU"
      /\ (IF v.src = "os" THEN v.at ELSE Len(v.requests)) \in Singular)

Draw(t) ==
    LET c     == call[t]
        v     == Value(t, Request(c))
        coins == IF Usable(c, v) THEN Append(c.coins, v) ELSE c.coins
    IN
    /\ c.step = "draw"
    /\ RandomBytes(t, Request(c))
    /\ call' = [call EXCEPT ![t].coins = coins,
                            ![t].step  = IF Len(coins) = Wanted(c) THEN "make" ELSE "draw"]
    /\ UNCHANGED <<active, out, ret, results>>

DrawFails(t) ==
    /\ call[t].step = "draw"
    /\ RandomFails(t)
    /\ Fails(t, "RANDOM_FAILED")

(* calloc of the ML-KEM workspaces; SMAUG-T's sampler of sparse secrets    *)
(* gives up after 256 attempts.                                            *)
WorkFails(t) ==
    /\ \/ /\ call[t].step \in {"make", "open", "reencrypt"}
          /\ Family[call[t].alg] = "MLKEM"
          /\ Fails(t, "ALLOCATION_FAILED")
       \/ /\ call[t].op = "keygen" /\ call[t].step = "make"
          /\ Family[call[t].alg] = "SMAUG"
          /\ Fails(t, "INTERNAL")
    /\ UNCHANGED randomVars

MakeKey(t) ==
    LET c   == call[t]
        key == Encoding(Parameters(t), c.coins)
    IN
    /\ c.op = "keygen" /\ c.step = "make"
    /\ Returns(t, "SUCCESS", [pk |-> key, sk |-> key])
    /\ keys' = keys \cup {[alg |-> c.alg, pk |-> key, sk |-> key]}
    /\ UNCHANGED <<active, randomVars, sent, opened>>

MakeCiphertext(t) ==
    LET c  == call[t]
        m  == c.coins[1]
        pk == Beginning(c.key, Parameters(t))
        ct == Encrypt(Parameters(t), pk, m, Coins(m, pk))
        ss == Secret(m, pk)
    IN
    /\ c.op = "encaps" /\ c.step = "make"
    /\ UNCHANGED randomVars
    /\ \/ Family[c.alg] = "NTRU" /\ ~c.key.ok /\ Fails(t, "INVALID_KEY")
       \/ /\ Family[c.alg] = "NTRU" => c.key.ok
          /\ Returns(t, "SUCCESS", [ss |-> ss, ct |-> ct])
          /\ sent' = sent \cup {[alg |-> c.alg, pk |-> c.key, ct |-> ct, ss |-> ss]}
          /\ UNCHANGED <<active, keys, opened>>

Delivers(t, ss) ==
    LET c == call[t] IN
    /\ Returns(t, "SUCCESS", [ss |-> ss])
    /\ opened' = opened \cup {[alg |-> c.alg, sk |-> c.key, ct |-> c.ct, ss |-> ss]}
    /\ UNCHANGED <<active, keys, sent>>

(* ML_KEM_Decaps_internal writes the secret of whatever message it got     *)
(* before it knows that the ciphertext is that message's.                  *)
OpenMlkem(t) ==
    LET c == call[t]
        m == Decrypt(Parameters(t), c.key, c.ct)
    IN
    /\ c.op = "decaps" /\ c.step = "open" /\ Family[c.alg] = "MLKEM"
    /\ call' = [call EXCEPT ![t].msg = m, ![t].step = "reencrypt"]
    /\ out'  = [out EXCEPT ![t] = [ss |-> Secret(m, PublicOf(c.key))]]
    /\ UNCHANGED <<active, ret, randomVars, results>>

(* The ciphertext is the one its message would have been sent as.          *)
FaultyGenuine(alg, sk, ct, m) == ct.to = PublicOf(sk) /\ ct.m = m
Genuine(alg, sk, ct, m) ==
    ct = Encrypt(alg, PublicOf(sk), m, Coins(m, PublicOf(sk)))

Reencrypt(t) ==
    LET c == call[t] IN
    /\ c.step = "reencrypt"
    /\ Delivers(t, IF Genuine(Parameters(t), c.key, c.ct, c.msg)
                   THEN out[t].ss ELSE Rejection(c.key, c.ct))
    /\ UNCHANGED randomVars

OpenSmaug(t) ==
    LET c == call[t]
        m == Decrypt(c.alg, c.key, c.ct)
    IN
    /\ c.op = "decaps" /\ c.step = "open" /\ Family[c.alg] = "SMAUG"
    /\ Delivers(t, IF Genuine(c.alg, c.key, c.ct, m)
                   THEN Secret(m, PublicOf(c.key)) ELSE Rejection(c.key, c.ct))
    /\ UNCHANGED randomVars

(* NTRU+ recovers the coins too and compares them instead of encrypting    *)
(* again: it says that a ciphertext is bad.                                *)
Recovered(ct)       == IF ct.flip = "none" THEN ct.coins ELSE None

OpenNtru(t) ==
    LET c    == call[t]
        m    == Decrypt(c.alg, c.key, c.ct)
        good == c.ct.flip # "malformed" /\ Recovered(c.ct) = Coins(m, PublicOf(c.key))
    IN
    /\ c.op = "decaps" /\ c.step = "open" /\ Family[c.alg] = "NTRU"
    /\ \/ good /\ Delivers(t, Secret(m, PublicOf(c.key)))
       \/ ~good /\ Fails(t, "AUTHENTICATION_FAILED")
    /\ UNCHANGED randomVars

----------------------------------------------------------------------------
(* What callers pass: keys and ciphertexts they were given, whole or       *)
(* damaged, and any parameter set of the family.                           *)

Damaged(x) == IF Careless THEN {x, [x EXCEPT !.ok = FALSE]} ELSE {x}

AnyAlg == IF Careless THEN Algs \cup {NoAlg} ELSE Algs

Changed(ct) == {ct} \cup {[ct EXCEPT !.flip = f] : f \in Flips}

SomeCall(t) ==
    \E alg \in AnyAlg, null, overlap \in {FALSE, Careless} :
        \/ \E fits \in {TRUE, ~Careless} : KeyGen(t, alg, null, fits, overlap)
        \/ \E k \in keys, fits \in {TRUE, ~Careless} : \E pk \in Damaged(k.pk) :
               /\ alg \in Algs => SameFamily(alg, k.alg)
               /\ Encaps(t, alg, null, pk, fits, overlap)
        \/ \E k \in keys, s \in sent :
               /\ alg \in Algs => SameFamily(alg, k.alg)
               /\ SameFamily(s.alg, k.alg)
               /\ Cardinality(opened) < MaxOpened
               /\ \E sk \in Damaged(k.sk),
                     ct \in IF null \/ overlap THEN {s.ct} ELSE Changed(s.ct) :
                      Decaps(t, alg, null, sk, ct, overlap)

Step(t) ==
    \/ Draw(t) \/ DrawFails(t) \/ WorkFails(t)
    \/ MakeKey(t) \/ MakeCiphertext(t)
    \/ OpenMlkem(t) \/ Reencrypt(t) \/ OpenSmaug(t) \/ OpenNtru(t)

(* A test switches the source between two calls of its thread.             *)
Switch(t) ==
    /\ call[t] = Idle
    /\ Seeds # {}
    /\ KatFinalize(t) \/ \E seed \in Seeds : KatInitialize(t, seed)
    /\ UNCHANGED <<active, call, out, ret, results>>

Init ==
    /\ RandomInit
    /\ active = [t \in Threads |-> NoAlg]
    /\ call   = [t \in Threads |-> Idle]
    /\ out    = [t \in Threads |-> [ss |-> Caller]]
    /\ ret    = [t \in Threads |-> "NONE"]
    /\ keys = {} /\ sent = {} /\ opened = {}

Next == \E t \in Threads : SomeCall(t) \/ Step(t) \/ Switch(t)

Spec == Init /\ [][Next]_vars

----------------------------------------------------------------------------
(* Properties.                                                             *)

Refusals == {"INVALID_ALG_ID", "INVALID_ARGUMENT", "BUFFER_TOO_SMALL"}
Failures == {"INVALID_KEY", "RANDOM_FAILED", "ALLOCATION_FAILED", "INTERNAL",
             "AUTHENTICATION_FAILED"}
Steps == {"none", "draw", "make", "open", "reencrypt"}

(* Every variable has its type: a call never asks for more coins than the  *)
(* scheme uses and the parameter set of a thread is an ML-KEM one.         *)
TypeOK ==
    /\ active \in [Threads -> {a \in Algs : Family[a] = "MLKEM"} \cup {NoAlg}]
    /\ \A t \in Threads :
        /\ call[t].alg \in Algs \cup {NoAlg} /\ call[t].step \in Steps
        /\ Len(call[t].coins) <= 2
        /\ DOMAIN out[t] \in {{"pk", "sk"}, {"ss", "ct"}, {"ss"}}
        /\ ret[t] \in {"NONE", "SUCCESS"} \cup Refusals \cup Failures

(* inc/KeyEncapsulation.h: "Pointer, size, and overlap validation failures *)
(* leave the supplied buffers unchanged.  After those checks pass", a      *)
(* failure clears every output, at whatever step it comes and although     *)
(* ML-KEM has already written a secret there.                              *)
FailureClears ==
    \A t \in Threads : call[t] = Idle =>
        \A b \in DOMAIN out[t] :
            /\ ret[t] \in Failures => out[t][b] = Zero
            /\ ret[t] \in Refusals => out[t][b] = Caller
            /\ ret[t] = "SUCCESS"  => out[t][b] \notin {Zero, Caller}

(* Every key and every ciphertext is made with the parameter set its       *)
(* caller named, although ML-KEM's routines find theirs in a variable that *)
(* each call sets and other threads set at the same time.                  *)
SetsNeverMix ==
    /\ \A k \in keys : k.pk.of.made = k.alg /\ k.pk.len = Size[k.alg]
    /\ \A s \in sent : s.ct.len = Size[s.alg] /\ s.ct.to.len = Size[s.alg]

Promise == INSTANCE KemSpec WITH Explicit <- {a \in Algs : Family[a] = "NTRU"}

(* The three schemes, with their checks and draws and with calls of        *)
(* several threads interleaved, implement the atomic KEM of KemSpec.       *)
ImplementsKemSpec == Promise!Spec
=============================================================================
