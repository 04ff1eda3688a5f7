# Formal models of LiberaCrypt

LiberaCrypt is a C library of cryptographic primitives: hashes, MACs, key
derivation, block and stream ciphers, AEAD, random numbers, RSA, ElGamal,
elliptic curves, and post-quantum KEMs and signatures.  Almost all of it is
sequential code over memory that the caller owns.  What makes it hard to get
right is not concurrency but state that outlives a call: a partly filled block,
a counter near its limit, a buffer that overlaps another, a loop that restarts,
a call that fails half way, a key that must not be used again.  Those are what
the modules here are about.  Strength of the primitives is not: compression
functions, block ciphers and MACs are ideal (symbolic) functions throughout,
and the models decide what is fed to them, how often, and where results go.

Paths below are relative to the repository; the library's code is in `src/`,
its public headers are in `inc/`.

## 1. Inventory

| Component (code) | State | Operations | What is hard | Correct when |
|---|---|---|---|---|
| Hash and XOF contexts (`src/HashFunction.c`, `src/HashFunction/*`) | phase, algorithm, `BLOCK`, `BUFFER_LENGTH`, length words, sponge position | init, update, finalize, squeeze, clear, one-shot | any chunking; padding that spills over; length counters at their limit; squeezing in pieces; calls in the wrong phase | chunking does not matter, padding is the standard's, the limit is exact, a rejected call changes nothing |
| CTR-DRBG (`src/RandomNumberGeneration/CTR_DRBG/ctr_drbg.c`) | algorithm, `INSTANTIATED`, `RESEED_COUNTER`, `KEY`, `V` | instantiate, reseed (caller's or OS entropy), generate with or without prediction resistance, clear | order of update and output, counter and `V` at their limit, failure of allocation or of the OS between two steps | no block twice, old keys gone, prediction resistance, request budget |
| OS random source (`.../Noise/random.c`) | none in the library; descriptors in the process | fill a buffer | partial results, EINTR, fallback to a device, several threads | success means filled once, no descriptor lost, every call returns |
| PQC random source (`.../KAT/pqc_kat_rng.c`) | thread-local DRBG and switch (test builds) | initialize, finalize, random bytes | a thread left in the deterministic mode | the OS is the source whenever the switch is off |
| AEAD (`src/AuthenticatedEncryption.c`, `aes_aead.c`, `chacha20_poly1305.c`) | none; the caller's memory | encrypt, decrypt | overlapping buffers, in-place use, counter limits, order of verifying and writing, encodings of lengths | confined writes, round trip, authenticity, keystream used once, failure leaves zeros |
| MACs (`src/MessageAuthentication.c`, `poly1305.c`) | a hash context, a chain block, Poly1305's limbs and buffer | HMAC, CMAC, GMAC, Poly1305, verify | Poly1305's updates cut anywhere, the last block, keys longer than a block, failure half way | the tag is the definition's, nothing of it or of the key stays |
| KDFs (`src/KeyDerivation.c`) | none | HKDF, PBKDF2 | partial last block, the counter's limit, failure half way | output is the standard's prefix, failing clears |
| Stream cipher (`src/StreamCipher.c`, `chacha20.c`) | none | XOR with a caller's counter | counter limit, in-place use | each byte has its own byte of key stream |
| Block ciphers (`src/BlockCipher*`) | key schedules | AES, Triple DES, ECB, CBC, CTR | schedules that divide no round key, order of decryption, overlapping ranges | equal to the standard and round trip unless the output lies above an input it overlaps; nothing written outside the output |
| Big numbers (`src/Util/Bignum/*`) | heap arrays with length and capacity | arithmetic, conversions, modular exponentiation | carries, quotient correction, the same register given twice, stale limbs, failing growth | equal to integer arithmetic |
| Primes (`src/Util/Prime/*`) | temporaries | test, search, safe primes | failing draws, ownership of candidates | primes pass, nothing leaks, the search ends |
| RSA, ElGamal (`src/AsymmetricCipher*`) | key objects that own memory | keygen, encrypt, decrypt, sign, verify | retries with ownership, copies that fail half way, uniform rejection | keys invert, encodings are invertible, no mixed pair |
| Elliptic curves (`src/Util/ECC/*`), ECDSA, ECDH | none | field and scalar arithmetic, points, keygen, sign, verify, agree | exceptional points, carries, candidate loops | arithmetic is exact, additions complete, the nonce is RFC 6979's |
| X25519, Ed25519 (`src/KeyAgreement/x25519.c`, `DigitalSignature/Ed25519/*`) | none | keygen, agree, sign, verify | folding carries, conditional swaps, strict decoding | sides agree, an accepted signature is unique |
| ML-KEM (`src/KeyEncapsulation/ML-KEM/*`) | thread-local parameter set | keygen, encaps, decaps, K-PKE, coding | parameter sets of several threads, a secret written early, failing allocations, implicit rejection, bit packing, nonces | sets never mix, only the receiver gets the sender's secret, rejection is fixed and unrelated, failure clears |
| NTRU+, SMAUG-T (`src/KeyEncapsulation/NTRU-Plus/*`, `SMAUG-T/*`) | none | keygen, encaps, decaps | draws repeated until a polynomial is invertible, a sampler that gives up, explicit and implicit rejection | same |
| HAETAE (`src/DigitalSignature/HAETAE/*`) | streaming samplers | keygen, sign, verify | rejection loop and its counter, samplers that run out of bytes, rANS coding | no mask twice, coding is invertible, what is signed verifies |
| ML-DSA (`src/DigitalSignature/ML-DSA/*`) | the caller's signature buffer | keygen, sign, verify, public key of a private key | attempts and their nonces, roundings, hints, four lanes at different paces | what is signed verifies, one reading of the hints, no nonce twice |
| SLH-DSA (`src/DigitalSignature/SLH-DSA/*`) | one address structure rewritten in place | keygen, sign, verify | fields left over from the call before, indices cut out of a digest, the checksum | signer and verifier hash under the same addresses, never two things under one |
| AIMer (`src/DigitalSignature/AIMer/*`) | heap buffers with shares | keygen, sign, verify | a tree rebuilt in uncleared memory, corrections on one party, failing allocations | honest proofs are accepted, altered ones not, the hidden seed stays hidden |
| Signature calls (`src/DigitalSignature.c`, the wrappers) | none | dispatch, checks, draws | order of refusals, overlapping buffers, failure half way, contexts and pre-hashing | all or zeros, own buffers wiped, unambiguous messages |
| Endian, version, error texts | none | conversions | - | - |

Interactions.  Everything is a direct call.  Hash contexts serve HMAC, the
KDFs, RSA encodings, ECDSA and the PQC schemes; the block cipher serves AEAD,
CMAC and the DRBG; the OS source serves key generation everywhere and seeds
the DRBG; the PQC schemes draw through the PQC source, which in a test build
is a thread-local DRBG.  There are no callbacks, no locks and no globals
shared by threads: threads meet only in the operating system (descriptors), and
two thread-local variables (ML-KEM's parameter set, the PQC source's switch) keep
calls apart only as long as they stay thread-local.

## 2. Modules

### HashAlgorithms, HashSpec, HashContext (MCHash)

`HashContext` is `src/HashFunction.c` with the four families behind it.  A
context is the record of the algorithm's own context: `fed` is the sequence of
bytes given to the compression function so far (it names the chaining value),
`block` is `BLOCK` with its stale bytes, `used` is `BUFFER_LENGTH` or the
position in the sponge, `low` and `high` the length words, `perms` the
permutations since finalization.  `HashInit`, `HashUpdate`, `HashFinalize`,
`SqueezeXof`, `SqueezeDigest` and `HashClear` are the calls, each with its
refusals; `OneShot` is `LIBERAC_HASH`.  `HashAlgorithms` has the parameters of
an algorithm and the symbolic output; `HashSpec` states what the header
promises, without blocks or counters, and `HashContext` is shown to implement it.

### DrbgSpec, CtrDrbg (MCCtrDrbg)

`CtrDrbg` is one `LiberaCCtrDrbgContext`.  The pair of `KEY` and the `V` it was
set with is named by the sequence of updates that made it (`name`), `V` by its
offset from there (`off`), a keystream block by the pair of the two.  A byte of
seed is the set of unknowns XORed in it, so two seeds that cancel are equal.
`Generate`, `GenerateResistant`, `Reseed`, `ReseedOs`, `Instantiate` and
`InstantiateOs` are whole calls; each includes the failures of allocation and of
the OS that the code can return from, and what they leave behind.  `spent` is
history.  `DrbgSpec` is the request budget of `inc/RandomNumberGeneration.h`.

### OsRandom (MCOsRandom)

`OsRandom` is `random.c` on Linux and on other Unix systems, for several threads that
share a descriptor table.  Every system call is a step; the kernel's answers are chosen by
`kernel`, which says what getrandom, open and read may do on this machine.

### Aead (MCAead)

The first part of `Aead` has what the modes feed to the block function and to the MAC:
counter blocks with their wrap-around, length fields that may overflow, padding,
CCM's flags and three encodings of the AAD length.  The second puts the two calls on
one memory.  Every argument is an address and a length, so buffers can overlap,
touch or coincide; the XOR loop runs byte by byte over the memory as it changes;
the tag is computed from OUTPUT or INPUT as the mode does, before or after the
loop.  `Refusal` is the order of the checks in `aead_validate_request` and in the
two calls; `Overlong` is the late refusal of the AES modes, whose wrapper clears
the output.  `Tamper` changes a byte between calls.

### KemSpec, Kem (MCKem)

`Kem` begins with `pqc_kat_rng.c`: `kat` holds each thread's switch and generator,
whose output is named by its seed and the lengths asked of it so far.  On it
stand the KEMs of `KeyEncapsulation.c` called by several threads.
`active` is `mlkem_active_parameters`; a call is a record in `call[t]` whose
`step` says what comes next, `out[t]` is what its buffers hold.  `KeyGen`,
`Encaps` and `Decaps` are the entries with their refusals in the code's order;
`Draw` and `DrawFails` the requests to the source; `MakeKey`, `MakeCiphertext`,
`OpenMlkem`, `Reencrypt`, `OpenSmaug`, `OpenNtru` the work; `WorkFails` a failing
`calloc` of ML-KEM or SMAUG-T's sampler after 256 attempts.  Other threads run
between two steps.  Every step of ML-KEM takes its parameter set from
`Parameters`, as the macros of `parameter.h` do, and never from the call.  The
public-key encryption under each scheme is ideal: a ciphertext is named by the
key, message and coins it was made from; a change is `noise` (decryption does not
notice), `message` (it gives another message) or `malformed` (coefficients out of
range).  `KemSpec` is an atomic KEM, three actions on what was generated, sent
and opened; `Kem` is shown to implement it.

The modules below have one section per machine: a machine is one call, or one loop inside a
call, with its own variables, `...Init`, actions and `...Next`; names that two machines
would share carry the machine's name (`productA`, `divisionA`).  A machine is
begun in every state that the code's caller could give it, and ends in a state that stutters.

### Big numbers: Limbs, BignumSpec, Bignum, Exponentiation (MCNumbers)

`Limbs` is arithmetic on arrays of limbs as the code does it, with explicit
carries, in base `2^LimbBits`.  `Bignum` has the registers of a caller (heap
array, length, capacity) and one action per call of `bignum.h` that computes in
place; every growth may fail.  `BignumSpec` is the same interface on natural
numbers, and `Bignum` is shown to implement it.  The inner algorithms are machines of
their own: the three ways to multiply (`product`), division by estimated digits with
corrections and add-back (`division`), both in `Bignum`; the two Montgomery products
(`mont`) and the five exponent schedules (`exp`) in `Exponentiation`.

### Primes, RSA and ElGamal: Primes, Modular, KeyPairs, RsaPadding (MCNumbers)

`Primes` is `prime_is_probable_checked` with every base it may draw (`test`) and the two
searches around it (`search`).  The searches, `crypto_rsa_keygen_internal` (`rsa`) and ElGamal
(`elGamal`, both in `KeyPairs`) follow ownership: which temporaries are
allocated, which numbers the key objects hold, over attempts, abandoned attempts
and failing copies.  `RsaPadding` has OAEP (`oaep`) and PSS (`pss`) byte by byte; the RSA
permutation is a fixed permutation of the residues there.  `Modular` is the
reference arithmetic.

### MACs, KDFs and ciphers: KeyedHashing, Ciphers (MCSymmetric)

`KeyedHashing`: `poly` computes in limbs modulo a small `2^n - 5`, `hmac` is the sequence of
calls on one hash context, `cmac` the chain with its two subkeys, `kdf` the
block loops of HKDF-Expand and PBKDF2 with terms for digests, with the limits on lengths and on
PBKDF2's block numbers and the refusal of an overlapping output.  `Ciphers`: `chaCha` and
`mode` work on one memory that input, output and feedback share.  A stream cipher call refuses
an output that overlaps its input without being the input.  A block mode call looks for no
overlaps: with an output above an input that it overlaps it succeeds and its ciphertext is not
the standard's, so `CiphertextIsStandard` and `RoundTrip` speak of the other placements, and
`StaysInRange` of all of them; `aes` is AES with the
real S-box, `des` Triple DES with words as sets of bits and the contents of the boxes as a
constant.

### Curves: EcCurve, EcSchemes, X25519, Ed25519 (MCCurves)

`EcCurve` has the field arithmetic limb by limb (`field`) and, over a small field, the point
formulas, multiplications and encodings next to the group law as the reference (`mult`).
`EcSchemes` has the calls on top of them: key pairs (`keys`), `ecdh` and `ecdsa` with draws,
refusals, wiped buffers and RFC 6979's candidates.  `X25519` has the folding field (`fold`) and
the ladder with its call (`x`); `Ed25519` the Edwards group, windows, scalars and strict decoding
(`edArith`) and the three calls (`edSign`).  Each curve is a real curve of its family over a
field small enough to list its points.

### Lattice signatures: Haetae, MlDsa (MCPostQuantum)

`Haetae`: `reduce` runs the reductions over every word; `packing` is the entropy coder (rANS)
with small digits and the variable part of a signature; `sampler` names a byte of a stream by
its position, so that losing or repeating one shows; `haetae` puts keys, signing loop,
rejection, hint and verification together over polynomials of one coefficient.
`MlDsa` is cut the same way: `rounding` (a small modulus, and by two instances of the module
the program's own), `hints` (the hint section of a signature), `sampling` (samplers that
fill several lanes in lock step, and the challenge), `schedule` (calls and nonces where four does
not divide the number of polynomials) and `mlDsa` (the loop of attempts).

### Coding of lattices and ML-KEM's encryption: LatticeCoding (MCPostQuantum)

`LatticeCoding` has the three transforms of the lattice schemes at degree eight (`ntt`) and a
table per packing function of ML-DSA and HAETAE: which bits of which coefficient go where in
which byte, and back (`layout`); then the reservoir of bits of ML-KEM's `auxiliary.c` (`coding`)
and K-PKE with its nonces, matrix order, roundings and workspaces (`pke`).

### Signature calls: Signatures (MCPostQuantum)

`calls` is what the interface and the wrappers of ML-DSA, SLH-DSA, AIMer and HAETAE do
around a backend: a request is a record of what is wrong with it, `CallRefusal` the checks in
their order, and draws, key checks and the backend may fail.  `OwnBuffersAreClean` is about the
buffers that the wrappers declare: seed, rnd, addrnd, plaintext, iv, randomness, and the prefix of
ML-DSA, AIMer and HAETAE.  It is not true of what lies below them: SLH-DSA's backend copies the
drawn seed into a `slh_var_t` that it never wipes (`Backend/slh_dsa.c:482-498`,
`slh_shake.c:133-138`), and leaves the two header bytes in front of a context
(`slh_shake.c:23,74`, `slh_sha2.c`).  `messages` is the string that is really signed.

### SLH-DSA and AIMer: SlhDsa, Aimer (MCPostQuantum)

`SlhDsa` follows the one address structure through every call (`slh`):
`Seven(Six(v, i), j)` sets two fields of the address in `v` and leaves the others as they
were.  A hash value is the number of the query that made it, so two values are equal only
for the same address and input.  `digest` is what is cut out of a digest.
`Aimer` multiplies words that are sets of exponents (`binary`), so that every sum is a
symmetric difference; `tree` is the seed tree over memory that holds anything; `aimer` is the
scheme: shares of every party, corrections, challenges that are arbitrary elements, and a
verifier that recomputes all parties but one.  A signature may be altered on its way in one place:
its salt, one of its two hashes, or any part of one proof.

### Suites

`MCNumbers`, `MCSymmetric`, `MCCurves` and `MCPostQuantum` put the machines of several
modules into one run: `running` names the one call that is made, its machine steps, and the
variables of all others hold `Idle`.  Nothing is shared between two machines of a suite, so the run
explores exactly the union of what each machine would reach alone.  A suite states one
property per subject; its conjuncts are the named properties of the machines, which stand
in their modules with a comment each.

Operators named `Faulty...` stand before the operator of which they are a
plausible slip.  Nothing uses them; `PROJECT.json` pairs each with the property that
tells the code from it.

## 3. Runs

| Run | Question | Bounds and why they are enough |
|---|---|---|
| `hash` | Is what is compressed the padded message, what is delivered its output, whatever the chunks; do the counters refuse exactly what is too long; does a call that is refused change nothing; can two messages or algorithms share output? | blocks of 3 and 4 bytes, every message of up to 6 bytes and equal bytes beyond, chunks up to 6, output up to 7: every phase of the buffer, top-up, whole block and tail in one update, padding that spills, output over two permutations; length fields of two digits of base 8 with four bits to a byte, so that messages of up to 17 bytes pass every limit |
| `ctr_drbg` | No block twice, keys erased, prediction resistance, budget | one algorithm with and one without derivation function, `V` of 4 values, which the largest request and its update fill exactly as `RequestFitsV` allows, interval 1 and 2, three updates, two draws of the OS |
| `os_random` | Filled once, descriptors balanced, fallback, termination | two threads, two bytes, one EINTR each, thirty kernels |
| `aead_aliasing` | No accepted layout writes elsewhere or breaks the round trip | ten bytes of memory, OUTPUT, INPUT and TAG anywhere around nonce, key and AAD, lengths 1 and 2, two calls: every relative position of two ranges occurs |
| `aead_formats` | Keystream once, authenticity, failures clear | one tape cut into nonce, AAD and message in every way, counters of 3 and 4 values, length digits of base 2, messages up to 5 bytes, which is past the limit of every mode; a byte changed between two calls |
| `kem_threads` | Do threads with two parameter sets of ML-KEM stay apart, are their calls atomic? | two threads, two parameter sets, three draws, one decapsulation: a call of one thread can stop at any step while the other enters with the other set, and a key made by one thread serves the other |
| `kem_schemes` | Do failures leave the buffers as the header says, does only the receiver get the secret, for all three schemes? | one thread, one parameter set of ML-KEM and of SMAUG-T, two of NTRU+, four draws (a key of one or two draws, the second of NTRU+ not invertible, and encapsulations), a decapsulation of an intact or changed ciphertext; bad arguments, damaged keys, keys of another parameter set |
| `kem_kat` | Does each thread draw from its own source? | two threads, one seed, so that equal output is a matter of requests alone, three requests, one value of the OS; SMAUG-T, whose key generation draws twice |
| `numbers` | Is every result the exact integer; are temporaries returned and keys whole after any failure; are exactly the right encodings accepted; does every call end? | two registers of two two-bit limbs with two bytes each, so that output, operands and modulus coincide and stale limbs lie above a length; products of three limbs, division of four limbs by two and three (digits that need no, one and two corrections and an add-back occur); Montgomery moduli of one and two limbs; exponents that use both windows; primality of every number below 42 and four more with strong liars, every base; searches of up to six bits, three tries; RSA keys of up to eight bits, two attempts, two generations into the same objects, a failure at any call; OAEP and PSS over moduli of every bit length that matters modulo a byte of two bits, every ciphertext and signature there is |
| `symmetric` | Is the tag, key or ciphertext the standard's for every chunking, length and placement, and nothing left after? | two blocks and every cut of them; keys of both sides of the block length; output lengths past the limit of HKDF's counter and of PBKDF2's block number (four here); every placement of the ranges in 7 (modes) and 14 bytes (ChaCha20), counters that carry through all their bytes; all AES key lengths with four keys each, the example vectors of FIPS 197 among them |
| `curves` | Are field elements reduced and in the right residue, additions complete, decoding strict, accepted signatures exactly the right ones, failures clean? | moduli of one to three limbs that fill their top limb or do not, every pair of operands; every pair of points of a curve of 23 and one of 56 points, every scalar and encoding that the field width can write; for ECDSA three candidates and thirty values of a signature part around the order |
| `post_quantum` | HAETAE, ML-DSA: one reading of a signature, each byte of a stream used once within a vector and no stream by two vectors, exact roundings, nonces fresh, what is signed verifies; bits kept at every width; all or zeros after a failed call; SLH-DSA: the same addresses on both sides and no address twice; AIMer: honest proofs accepted, altered ones not | digits of two bits with six arbitrary ones; records cut by a block end in every phase; every value of a small modulus and, for the program's two moduli, both ends of every rounding interval, where the reciprocal could fail; two lanes that reject at every pace; the real dimensions of the three parameter sets of ML-DSA; every key, mask and challenge over one coefficient; the program's own layouts; two layers of height two, two FORS trees; three fields of eight- and eleven-bit words; eight leaves, four parties, two repetitions |

Deadlock checking is off only in the runs of `Aead` and `Kem`, where a bound on calls ends
the run.

Bounds cost something: with two-limb registers the borrow of `crypto_bignum_sub` never
crosses a second limb boundary, and rANS bodies have two digits fewer than could
be arbitrary.  Both were run larger by themselves when the machines were written.

Fairness is assumed in two runs.  In `numbers`, exponentiation, prime search and RSA key
generation are sequential calls that go on until they return, so their next step is
weakly fair; that they end (`CallsEnd`, `SearchEnds`, `KeygenEnds`, together
`EveryCallEnds`) is due to the code's own bounds on attempts.  In `os_random` it is weak
fairness of every thread's next
step (the scheduler runs every thread, and every system call returns), and a
bounded number of EINTR, since the code retries an interrupted call without
limit and a signal that never stops coming would keep it for ever.

A comment that is wrong: `haetae_reduce.c:17` promises `-Q < r < Q` for every `a` up to and
including `Q*2^31`.  For `a = Q*2^31` the code returns `Q`.  No caller reaches that
value, and `MontgomeryIsExact` shows the range below it.

## 4. Proofs

Every theorem here holds for every value of the constants that the assumptions
named beside them allow, so for any number of threads, any block length, any
memory.  TLC found each invariant true on the runs of section 3 before it was proved.
An assumption is a fact about the program's parameters, and TLC evaluates it on each
run.  Some of them are arithmetic that the provers do not know (`LengthConstants`,
`PowersOfRadix`: powers of a number multiply).

| Module | Theorem | States | Rests on |
|---|---|---|---|
| `HashContext_proofs` | `TypeCorrect`, `ChunksDoNotMatter` | `TypeOK`, `NothingLost` | `IInv` |
| | `AnswersRight` | `AnswersAreStandard` | `SInv` |
| | `OutputNamesMessage` | `OutputBindsMessage` | `SInv`, injective padding |
| | `Refinement` | `ImplementsHashSpec` | `SInv` |
| `Random_proofs` | `RequestsServed` | `RequestsAreServed` | `OsInv` |
| | `TypeCorrect`, `NoBlockTwice`, `BacktrackingResistance` | `TypeOK`, `NeverTwice`, `KeyErased` | `IInv` |
| | `FreshEntropy` | `PredictionResistant` | `IInv` |
| | `Refinement` | `ImplementsDrbgSpec` | `IInv` |
| `Aead_proofs` | `SealedOpens` | `RoundTrip` | `AInv` |
| | `CallsConfined` | `Confined` | the loop alone |
| | `KeystreamServesOnce` | `KeystreamOnce` | `UsesInv`, injective formats |
| | `OpenedWasSealedOrNothing` | `OpenedOrNothing` | `AInv`, injective formats |
| `PostQuantum_proofs` | `SetsStayApart` | `SetsNeverMix` | `IInv` |
| | `TypeCorrect`, `FailuresClear` | `TypeOK`, `FailureClears` | `CallsRight` |
| | `Refinement` | `ImplementsKemSpec` | `CallsRight` |
| | `StreamsApart` | `StreamsAreOwn` | `SourcesRight` |
| | `CallsAreWhole` | `SignatureCallsAreWhole` | `CallsInv`, `MessagesInv` |
| `Numbers_proofs` | `KeysWhole` | `KeysAreWhole` | `SearchInv`, `RsaInv`, `ElGamalInv` |
| | `LimbsExact` | `LimbsAreExact` | `BigInv`, `ProductInv`, `DivInv` |
| | `BignumImplements` | `ImplementsBignumSpec` | `BigInv` |

`Limbs_proofs` and `Bignum_proofs` hold the lemmas about big numbers that the last two
theorems combine, `ProofLemmas` what several modules need.

*Hash contexts.*  `IInv` says that the bytes buffered together with those compressed
are the message and that a full block never waits; without that the top-up of a
partial block could overrun `BLOCK`.  Updates are split by family.  `SInv` adds, phase
by phase, that the length words, the compressed bytes and the place in the output are
those that the standard computes from the message (`Standard`): padding in one block
or in two, both length words with the carry between them, the domain byte of a sponge
alone or together with the last bit.  `OutputBindsMessage` then is the
injectivity of padding: from a padded input the marker is found (`MarkReadBack`), and
what stands before it is the message.  Assumed besides types: the length field leaves
room for a marker in a block, it has two halves of whole digits, and no two sponges
share both rate and domain byte (`SpongeConstants`), which the table in
`HashFunction.c` satisfies.

*CTR-DRBG.*  The inductive invariant adds that `V` stands at the
offset where `KEY` was set (every call ends in an update) and that every block
computed so far was made under a shorter history of updates (`Older`), which is
why a new key can never meet an old block.  It needs `RequestFitsV`: the largest
request and the update after it
use no more blocks than `V` has values.  `LIBERAC_CTR_DRBG_MAX_REQUEST_BYTES` and
its TDEA variant are far below that for 128- and 64-bit `V`.  `FreshEntropy` rests on
an order of events: a caller's string was chosen before the draw of the same call, so
it cannot cancel what is drawn.

*OS source.*  At each system call exactly the bytes below `out` have been written, and
`out` and `length` add up to what was asked for.  The descriptor table is shared: that a
descriptor is read and closed only by the thread that opened it follows from the
kernel's giving out free numbers only; that there is a free one is a pigeonhole
argument, for which the threads must be finitely many.

*AEAD.*  `AInv` speaks of three things: the record of the last call answers to what its
buffers held (`CallOk`), every entry of the history is what the code computes (`SealOk`),
and a byte of a tag that lies in memory came from an entry (`Clean`).  The XOR loop works
over memory that changes under it; `Upto` is its closed form under the overlaps
that `Refusal` lets through, shown by induction over the bytes done.  From there the
properties are injectivity: of
numerals and length fields, of padded pieces, of counter blocks within one nonce and
between two, and of everything the MAC is given (`ModeConstants`: CCM's nonce leaves room for a
length field of at most eight bytes and its tags are of 4 to 16 bytes).  Buffers that are not
NULL lie in memory and lengths fit their type (`RequestConstants`); memory holds no tag
before the first call (`MemoryConstants`).

*KEM calls.*  Three invariants, each resting on the one before.  `IInv`: while a call of ML-KEM
is under way its thread's parameter set is the one that call named (`OwnSet`); an entering
call sets it, the steps of a call keep it, and no step touches another thread's.
`SetsNeverMix` speaks of results only and is not inductive without it.
`CallsRight`: what a call has read, drawn and written so far is what its algorithm says of
its own inputs; with it each step of `Kem` is a step of `KemSpec` or a stutter.
`SourcesRight`: a thread's stream is determined by its seed and its own requests.
Lengths tell the parameter sets of one family apart (`KemConstants`), as
`*_PUBLIC_KEY_BYTES` do.

*Signature calls.*  `CallsInv`: until a backend runs the caller's buffers are untouched and
nothing is left to refuse; no way out leaves a random string or a prefix in the call's own buffers.
`MessagesInv`: the string put together so far is the prefix of what the request asks for.
That it is read back in one way goes piece by piece (`MiddleAndRest`): the length byte ends
the context, the domain byte says whether an identifier follows.  A context fits its
length byte and identifiers are distinct (`MessagesAssumption`).

*Big numbers.*  `BigInv`: the limbs of every register are limbs, those above its length are
zero, and the topmost below it is not.  Each call is then shown to store the number its
name says (`Holds`), for every limb width, every capacity, every choice of the same
register for two arguments, and every allocation that may fail; the in-place loops read
limb `i` of the result's array before they write it, which is why the aliased case is the
same lemma.  `BignumImplements` follows because a step that holds the right value is a step of
`BignumSpec`, and a failed call leaves every value as it was.  Below that, the recursive
functions of `Limbs` are read off as sequences of steps (`Recursion`), words are compared by
what they are worth in places of the base (`PlacesValue`), and the invariant of each loop is
an equation between such values: rows of the schoolbook product, the three half-size products
of Karatsuba's method with the carry of its half sums, cross products and doubled diagonal of the square.

*Long division.*  `DivInv`: the divisor has its top bit set, and the rest is below the
divisor shifted to the present offset and congruent to the dividend.  The estimate from two
limbs is never below the digit (`FirstEstimate`), a correction does not take it below
(`CorrectedEstimate`), and where the comparison with the third limb ends the corrections it is
the digit or one more (`FinalEstimate`).  So a borrow out of the top limb means exactly one
divisor too much, and the single add-back of `crypto_bignum_mod` repairs it.  With limbs of
32 bits random numbers meet that case about once in `2^31` digits.  The remainder is then
exact because the rest is below the divisor at offset zero and division is unique.

*Primes, RSA and ElGamal.*  `SearchInv`, `RsaInv` and `ElGamalInv` say for each place in the
code which temporaries are allocated there and what they are; on every way out none is.
While the key objects are filled, copy by copy, the invariants also say how far
(`Filled`, `ElGamalFilled`): `NoMixedPair` and `SecretFitsParameters` speak of objects at
rest and could not be carried over a failing copy without it.  That an RSA key has
`e d = 1` modulo `phi` does not rest on the extended Euclidean algorithm: the proof shows
that `rsa_inverse_u32` stays within the integers (`Iteration` gives its rounds as a
function), and the equation follows from the division without rest by which
`make_private_exponent` ends.  That the exponent is coprime, that decryption undoes
encryption and that a test accepts primes and, for enough bases, only those, is number
theory; `SchemesWork` has it for small numbers.  Assumed: powers of two are positive,
the primes divided by are above two, `E` is an odd prime, and an RSA key has more than three bits
(`SearchAssumption`, `EAssumption`, `RsaAssumption`, `ElGamalAssumption`).

The library's induction theorems take an operator as parameter, which the installed
provers cannot instantiate.  `SetInduction` in `ProofLemmas` states induction over the
naturals with a set in its place and derives it from the well-foundedness of `<`.  It is
what the loop of `Aead`, the numerals, the padding and every loop over limbs use.

Only model-checked are:

- liveness (`EveryCallReturns`, `EveryCallEnds`): it rests on fairness and on `ENABLED`;
- what is computed by recursion over data or by folds and not listed above, where the claim is about the value
  for every input: `ArithmeticIsExact` (Montgomery products and exponent schedules, which
  need the inverse of the radix), `SchemesWork` (number theory and encodings), the properties
  of the runs `symmetric` and `curves`, and those of HAETAE, ML-DSA, SLH-DSA, AIMer and the
  lattice coding in `post_quantum`;
- `NeverBack`, which speaks of loops of the same kind.

## 5. What is left out

- In the hash module: the compression functions and Keccak-f themselves; the
  copies of SHA-2 and SHA-3 inside the ML-DSA and SLH-DSA backends.
- In the DRBG: the internals of the block cipher and of the derivation function;
  the derived seed is the string it is derived from.  Triple DES differs in
  parameters only.
- In the OS source: the Windows branch.
- In AEAD: a block encryption that fails on an initialised AES context (no input
  causes it), limits of 2^61 bytes that no buffer reaches, GHASH, CBC-MAC and
  Poly1305, which are ideal there.  One key per algorithm.
- In the calls of the KEMs: the public-key encryption, which is ideal
  (`LatticeCoding` is about ML-KEM's), and decryption failures.  The `INTERNAL` exits of
  `K-PKE.c` after its parameter check, which no input reaches.  At most one way of
  changing a ciphertext at a time.  In a test build the deterministic generator
  does not fail: its seed has the length it needs and no test reaches its limit.
- In NTRU+ and SMAUG-T: polynomial arithmetic, samplers and packing.
- In the signature calls: the stack frames of the backends (section 3), and the
  heap of those that allocate.
- In the stream cipher: outputs that overlap the key or the nonce, which are refused too.
- In the numbers: widths.  Limbs, moduli, curves, degrees and digests are small,
  except where a run says that they are the program's; so constants in the code
  (curve parameters, round constants, S-boxes of Triple DES, rANS tables, exponents of
  AIMer) are not checked, which is what known-answer tests do best.
- In HAETAE: the accuracy of the Gaussian distribution, the singular value test of a
  key and its FFT.  The coin of a round is drawn under the nonce that the next round's first
  stream has (`haetae_polyfix.c:309-317`, `haetae.c:303`), so after a rejected round that
  stream starts with bytes a coin was made of; `StreamsAreFresh` compares the coin with
  the streams up to its own vector only.  The 16-bit nonce does not wrap here.
- In ML-DSA: the checks of a key pair after its generation that a build may switch
  on, and the assembly backends.
- In SLH-DSA: a parameter `lg_w` of one, for which `gen_len2` would differ from the
  standard's bound; all parameter sets have four.
- Timing: constant-time code is modelled by its result.
- Endian conversion, error texts and the version string have no state and no
  behaviour beyond one expression.

## 6. Plan

1. Hash contexts, CTR-DRBG, OS source, AEAD, KEM calls, with proofs: done.
2. Big numbers, primes, RSA, ElGamal, MACs, KDFs, ciphers, curves, ECDSA, ECDH,
   X25519, Ed25519, HAETAE, ML-DSA, ML-KEM's encryption, SLH-DSA, AIMer, and the
   calls above them: done.
3. Polynomial arithmetic and packing of NTRU+ and SMAUG-T.
4. Proofs about hash contexts, CTR-DRBG, OS source, AEAD, KEM calls, signature calls,
   prime searches, key generation, big numbers and long division: done (section 4).
5. Proofs left: the Montgomery products (the lemmas of `Limbs_proofs` at a second limb
   width, and an inverse of the radix); the buffer of the keyed hashes; the schedule of
   nonces and the buffers of ML-KEM's encryption (`NoncesDiffer`, `NothingIsLeft` of
   `LatticeCoding`).
