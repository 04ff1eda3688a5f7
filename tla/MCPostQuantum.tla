--------------------------- MODULE MCPostQuantum ----------------------------
(*****************************************************************************)
(* Small instances of the post-quantum signature schemes and of ML-KEM's     *)
(* encryption.  A behaviour is one call of one of them; the variables of the *)
(* others are idle.                                                          *)
(*****************************************************************************)
EXTENDS Haetae, MlDsa, LatticeCoding, Signatures, SlhDsa, Aimer

(* ------------------------------ instances ------------------------------- *)
\* States in [8, 32) with digits of two bits, frequencies out of 8.
MCPackingFreqZ == <<1, 5, 2>>
MCPackingFreqH == <<3, 2, 1, 1, 1>>
MCPackingRangeZ == -2 .. 2
MCPackingRangeH == {0, 2, 3, 6, 7, 8}
\* Modulo 2 * 17, eight levels of four; fixed point with four units.
MCHaetaeMatrix == {3, 8, 16}
MCHaetaeYRange == {-9, 0, 5, 8}
MCRoundingAll == 0 .. MlDsaQ - 1
MCRoundingWords == -WordMax - 1 .. WordMax
\* The program's own moduli: every value near a bound between two levels, and the words
\* around the multiples of half 2^23 where the reduction goes to the next.
MCRoundingBounds(gamma2) ==
  {x \in UNION {(2 * k + 1) * gamma2 - 130 .. (2 * k + 1) * gamma2 + 130 : k \in 0 .. (8380416 \div (2 * gamma2)) - 1} :
     x < 8380417} \cup {8192 * k + 4096 + e : k \in 0 .. 1022, e \in {0, 1}} \cup {0, 1, 8380416}
MCRoundingTurns == {k * 2^22 + e : k \in -511 .. 510, e \in {-1, 0, 1}} \cup {-2147483647 - 1, 2147483647 - 2^22}
R44 == INSTANCE MlDsa WITH
  MlDsaQ <- 8380417, D <- 13, Gamma2 <- 95232, Beta <- 78, GrainBits <- 7, Reciprocal <- 11275,
  ReciprocalBits <- 24, MlDsaWordBits <- 32, QBits <- 23,
  Values <- MCRoundingBounds(95232), RoundingWords <- MCRoundingTurns, HintValues <- {}
R87 == INSTANCE MlDsa WITH
  MlDsaQ <- 8380417, D <- 13, Gamma2 <- 261888, Beta <- 196, GrainBits <- 7, Reciprocal <- 1025,
  ReciprocalBits <- 22, MlDsaWordBits <- 32, QBits <- 23,
  Values <- MCRoundingBounds(261888), RoundingWords <- {}, HintValues <- {}
\* Two lanes of three coefficients; a challenge of four coefficients and weight two.
MCSamplingUniform == {<<0>>, <<SamplingQ - 1>>, <<SamplingQ>>}
MCSamplingEta == {<<15, 15>>, <<3, 15>>}
\* The three parameter sets, at the first attempts, where a counter takes its second byte and
\* at the last.
MCScheduleKappas == (0 .. 12) \cup (36 .. 66) \cup {9360}
\* Two columns, every key, and y of one kind of magnitude per bound of the checks.
MCMlDsaMatrix == {<<1, 0>>, <<37, 200>>}
MCMlDsaY == {-12, -9, 5, 12}
MCMlDsaOmegas == {0, 1}
\* Monomials of both signs, which show every zeta, and dense polynomials, which grow most.
MCNttInputs ==
  {[x \in NttIndex |-> IF x = i THEN c ELSE 0] : i \in NttIndex, c \in {1, 1 - NttQ, 5}}
  \cup {[x \in NttIndex |-> c] : c \in {NttQ - 1, 1 - NttQ}}
  \cup {[x \in NttIndex |-> IF x % 2 = 0 THEN NttQ - 1 ELSE 1 - NttQ], [x \in NttIndex |-> x - 4]}
MCLayoutLayouts == DOMAIN Table
MCLayoutForeign == {1, 2, 4, 8, 16, 32, 64, 128, 254, 127}
MCCodingWidths == {1, 4, 5, 10, 11, 12}
MCCodingUnits == {<<1, 2>>, <<3, 4095>>, <<4000, 4>>, <<3329, 3330>>, <<3328, 0>>}
MCPkeNoise == {-2, 2}
MCPkeMatrix(a, b, c, d) == (<<0, 0>> :> a) @@ (<<0, 1>> :> b) @@ (<<1, 0>> :> c) @@ (<<1, 1>> :> d)
MCPkeMatrices == {MCPkeMatrix(1664, 2931, 7, 3328), MCPkeMatrix(1000, 500, 1500, 250), MCPkeMatrix(3328, 3328, 832, 1)}
MCMessagesHashLength == (1 :> 1) @@ (2 :> 2)
MCSlhVectors == {<<0, 2>>, <<1, 1>>}
MCBinaryFields == {[w |-> 8, k |-> 2, shifts |-> {1, 2, 7}], [w |-> 8, k |-> 3, shifts |-> {1, 2, 7}],
                   [w |-> 11, k |-> 4, shifts |-> {2, 5, 10}]}
MCAimerStreams == {[rows |-> <<<<1, 6, 7>>, <<2, 5, 0>>>>, b |-> 6]}
MCAimerTape(r, party) ==
  [pt |-> ((3 * party) + (5 * r) + 1) % 8, t |-> [i \in 1..2 |-> ((party * (i + 2)) + r + 2) % 8],
   a |-> ((party * party) + 1) % 8, c |-> ((7 * party) + r + 3) % 8]
MCAimerTapes == {[r \in 1..Reps |-> [party \in 1..AimerParties |-> MCAimerTape(r, party)]]}
MCAimerExponents == <<2, 2, 2>>
MCAimerInverses == <<5, 5>>
MCAimerRoundConstants == <<3, 6>>
MCAimerChallenges == {<<0, 5, 1>>, <<7, 2, 6>>}

(* --------------------------- one call at a time ------------------------- *)
CONSTANT Idle   \* held by the variables of a call that is not made

Calls == {"reduce", "packing", "sampler", "haetae", "rounding", "rounding44",
          "rounding87", "hints", "sampling", "schedule", "mldsa", "ntt",
          "layouts", "coding", "pke", "calls", "messages", "slh", "digest",
          "words", "tree", "aimer"}
VARIABLE running   \* the call that is made
vars == <<running, reduceVars, packingVars, samplerVars, haetaeVars, roundingVars,
          hintsVars, samplingVars, scheduleVars, mlDsaVars, nttVars,
          layoutVars, codingVars, pkeVars, callsVars, messagesVars, slhVars,
          digestVars, binaryVars, treeVars, aimerVars>>

ReduceIdle == reduceOp = Idle /\ reduceA = Idle /\ reduceV = Idle /\ reduceOut = Idle
PackingIdle ==
  /\ packingOp = Idle /\ packingZ = Idle /\ packingH = Idle /\ packingSig = Idle
  /\ enc = Idle /\ zCode = Idle /\ hCode = Idle /\ dec = Idle /\ packingOut = Idle
  /\ packingPc = Idle
SamplerIdle ==
  /\ counter = Idle /\ samplerNonce = Idle /\ poly = Idle /\ used = Idle
  /\ squeezed = Idle /\ samplerBuf = Idle /\ samplerBytes = Idle /\ next = Idle
  /\ got = Idle /\ records = Idle /\ samples = Idle /\ samplerSum = Idle /\ bit = Idle
  /\ refused = Idle /\ samplerPc = Idle
HaetaeIdle ==
  /\ haetaeD = Idle /\ haetaeMatrix = Idle /\ shift = Idle /\ haetaeS = Idle
  /\ haetaePk = Idle /\ haetaeY = Idle /\ coin = Idle /\ haetaeW = Idle
  /\ haetaeC = Idle /\ haetaeSig = Idle /\ haetaeHeard = Idle /\ rounds = Idle
  /\ haetaePc = Idle
RoundingIdle ==
  /\ roundingOp = Idle /\ roundingA = Idle /\ cs2 = Idle /\ ct0 = Idle
  /\ roundingOut = Idle
HintsIdle ==
  /\ hints = Idle /\ index = Idle /\ tally = Idle /\ hintsRow = Idle /\ hintsN = Idle
  /\ decoded = Idle /\ hintsPc = Idle
SamplingIdle ==
  /\ samplingOp = Idle /\ samplingStream = Idle /\ samplingA = Idle /\ blocks = Idle
  /\ samplingC = Idle /\ samplingI = Idle /\ samplingPos = Idle /\ samplingBuf = Idle
  /\ signs = Idle /\ draws = Idle
ScheduleIdle == set = Idle /\ what = Idle /\ kappa = Idle /\ calls = Idle /\ filled = Idle
MlDsaIdle ==
  /\ omega = Idle /\ mlDsaMatrix = Idle /\ mlDsaSk = Idle /\ mlDsaPk = Idle
  /\ attempt = Idle /\ nonces = Idle /\ mlDsaY = Idle /\ mlDsaW = Idle /\ mlDsaC = Idle
  /\ mlDsaSig = Idle /\ mlDsaHeard = Idle /\ mlDsaPc = Idle
NttIdle ==
  /\ kind = Idle /\ nttA = Idle /\ nttB = Idle /\ nttF = Idle /\ nttG = Idle
  /\ layer = Idle /\ nttPc = Idle
LayoutIdle ==
  /\ layout = Idle /\ coeffs = Idle /\ layoutBytes = Idle /\ read = Idle
  /\ layoutPc = Idle
CodingIdle ==
  /\ codingOp = Idle /\ width = Idle /\ input = Idle /\ codingPos = Idle
  /\ buffer = Idle /\ buffered = Idle /\ codingOutput = Idle
PkeIdle ==
  /\ xof = Idle /\ pkeMessage = Idle /\ call = Idle /\ stage = Idle /\ pkeNonce = Idle
  /\ pkeDrawn = Idle /\ work = Idle /\ rho = Idle /\ pkePk = Idle /\ pkeSk = Idle
  /\ pkeCt = Idle /\ plain = Idle /\ pkeResult = Idle
CallsIdle ==
  /\ req = Idle /\ callsPc = Idle /\ callsOutput = Idle /\ callsDrawn = Idle
  /\ prefix = Idle /\ callsResult = Idle
MessagesIdle ==
  /\ scheme = Idle /\ hash = Idle /\ context = Idle /\ body = Idle /\ messagesPc = Idle
  /\ pre = Idle /\ signed = Idle
SlhIdle ==
  /\ family = Idle /\ slhM = Idle /\ slhPc = Idle /\ slhAt = Idle /\ tree = Idle
  /\ leaf = Idle /\ md = Idle /\ slhMessage = Idle /\ digits = Idle /\ slhSig = Idle
  /\ root = Idle
DigestIdle ==
  /\ digestJob = Idle /\ digestBytes = Idle /\ digestOther = Idle /\ digestV = Idle
  /\ v2 = Idle /\ digestJ = Idle /\ digestL = Idle /\ digestT = Idle /\ digestPc = Idle
BinaryIdle ==
  /\ field = Idle /\ binaryJob = Idle /\ binaryA = Idle /\ binaryB = Idle
  /\ binaryC = Idle /\ old = Idle /\ temp = Idle /\ binaryPc = Idle
TreeIdle ==
  /\ nodes = Idle /\ reveal = Idle /\ treeOther = Idle /\ treeCover = Idle
  /\ treeAt = Idle /\ depth = Idle /\ treePc = Idle
AimerIdle ==
  /\ aimerPc = Idle /\ rep = Idle /\ pt = Idle /\ aimerStream = Idle /\ aimerCt = Idle
  /\ tapes = Idle /\ eps = Idle /\ covers = Idle /\ checks = Idle /\ aimerSig = Idle
  /\ held = Idle /\ altered = Idle /\ h1 = Idle /\ h2 = Idle /\ verdict = Idle

Init ==
  /\ running \in Calls
  /\ IF running = "reduce"    THEN ReduceInit   ELSE ReduceIdle
  /\ IF running = "packing"   THEN PackingInit  ELSE PackingIdle
  /\ IF running = "sampler"   THEN SamplerInit  ELSE SamplerIdle
  /\ IF running = "haetae"    THEN HaetaeInit   ELSE HaetaeIdle
  /\ IF running = "rounding" THEN RoundingInit
     ELSE IF running = "rounding44" THEN R44!RoundingInit
     ELSE IF running = "rounding87" THEN R87!RoundingInit
     ELSE RoundingIdle
  /\ IF running = "hints"     THEN HintsInit    ELSE HintsIdle
  /\ IF running = "sampling"  THEN SamplingInit ELSE SamplingIdle
  /\ IF running = "schedule"  THEN ScheduleInit ELSE ScheduleIdle
  /\ IF running = "mldsa"     THEN MlDsaInit    ELSE MlDsaIdle
  /\ IF running = "ntt"       THEN NttInit      ELSE NttIdle
  /\ IF running = "layouts"   THEN LayoutInit   ELSE LayoutIdle
  /\ IF running = "coding"    THEN CodingInit   ELSE CodingIdle
  /\ IF running = "pke"       THEN PkeInit      ELSE PkeIdle
  /\ IF running = "calls"     THEN CallsInit    ELSE CallsIdle
  /\ IF running = "messages"  THEN MessagesInit ELSE MessagesIdle
  /\ IF running = "slh"       THEN SlhInit      ELSE SlhIdle
  /\ IF running = "digest"    THEN DigestInit   ELSE DigestIdle
  /\ IF running = "words"     THEN BinaryInit   ELSE BinaryIdle
  /\ IF running = "tree"      THEN TreeInit     ELSE TreeIdle
  /\ IF running = "aimer"     THEN AimerInit    ELSE AimerIdle
Next ==
  /\ UNCHANGED running
  /\ IF running = "reduce"    THEN ReduceNext   ELSE UNCHANGED reduceVars
  /\ IF running = "packing"   THEN PackingNext  ELSE UNCHANGED packingVars
  /\ IF running = "sampler"   THEN SamplerNext  ELSE UNCHANGED samplerVars
  /\ IF running = "haetae"    THEN HaetaeNext   ELSE UNCHANGED haetaeVars
  /\ IF running = "rounding" THEN RoundingNext
     ELSE IF running = "rounding44" THEN R44!RoundingNext
     ELSE IF running = "rounding87" THEN R87!RoundingNext
     ELSE UNCHANGED roundingVars
  /\ IF running = "hints"     THEN HintsNext    ELSE UNCHANGED hintsVars
  /\ IF running = "sampling"  THEN SamplingNext ELSE UNCHANGED samplingVars
  /\ IF running = "schedule"  THEN ScheduleNext ELSE UNCHANGED scheduleVars
  /\ IF running = "mldsa"     THEN MlDsaNext    ELSE UNCHANGED mlDsaVars
  /\ IF running = "ntt"       THEN NttNext      ELSE UNCHANGED nttVars
  /\ IF running = "layouts"   THEN LayoutNext   ELSE UNCHANGED layoutVars
  /\ IF running = "coding"    THEN CodingNext   ELSE UNCHANGED codingVars
  /\ IF running = "pke"       THEN PkeNext      ELSE UNCHANGED pkeVars
  /\ IF running = "calls"     THEN CallsNext    ELSE UNCHANGED callsVars
  /\ IF running = "messages"  THEN MessagesNext ELSE UNCHANGED messagesVars
  /\ IF running = "slh"       THEN SlhNext      ELSE UNCHANGED slhVars
  /\ IF running = "digest"    THEN DigestNext   ELSE UNCHANGED digestVars
  /\ IF running = "words"     THEN BinaryNext   ELSE UNCHANGED binaryVars
  /\ IF running = "tree"      THEN TreeNext     ELSE UNCHANGED treeVars
  /\ IF running = "aimer"     THEN AimerNext    ELSE UNCHANGED aimerVars
Spec == Init /\ [][Next]_vars


(* ------------------------------ properties ------------------------------ *)
(* HAETAE: the reductions are exact at the ends of a word; a packed signature is
   read back and by one encoding alone; the sampler reads each byte of its streams
   once, refilled or not, and never outside its buffer; what is signed verifies. *)
HaetaeHolds ==
  /\ running = "reduce"  => ReductionsAreExact /\ MontgomeryIsExact /\ HintRecovers
  /\ running = "packing" => /\ PackingPackedIsRead /\ ReciprocalDivides
                            /\ PackingReadingIsUnique
  /\ running = "sampler" => /\ RecordsAreTheStream /\ StreamsAreFresh /\ VectorIsWhole
                            /\ InsideBuffers
  /\ running = "haetae"  => KeysVanish /\ HaetaeSignaturesVerify /\ RoundedIsWhole

(* ML-DSA: the hint gives back the high bits that the signer had; packed hints are
   read back and by one encoding alone; four lanes sample as one would; matrix and
   vectors come from their own nonces in both memory layouts; what is signed
   verifies, with a nonce used once and nothing of a rejected attempt left. *)
MlDsaHolds ==
  /\ running = "rounding"   => /\ RoundingIsStandard /\ HintRecoversHighBits
                               /\ ReducedIsBounded
  /\ running = "rounding44" => R44!RoundingIsStandard /\ R44!ReducedIsBounded
  /\ running = "rounding87" => R87!RoundingIsStandard
  /\ running = "hints"      => PackedAreRead /\ HintsReadingIsUnique
  /\ running = "sampling"   => LanesAreIndependent /\ ChallengeHasWeight /\ ChallengeReadsOn
  /\ running = "schedule"   => FilledFromOwnNonce
  /\ running = "mldsa"      => /\ MlDsaSignaturesVerify /\ NoncesAreFresh
                               /\ NothingRejectedStays /\ RecoveredIsAKey

(* A product through a transform is the product, coefficients bounded at each layer;
   packed coefficients and bytes are one bit string, read back as they were;
   compression loses at most its rounding; and K-PKE decrypts what it encrypted with
   nothing secret left, whichever step failed. *)
LatticeCodingIsFaithful ==
  /\ running = "ntt"     => ProductIsRight /\ CoefficientsBounded
  /\ running = "layouts" => BytesAreTheBitString /\ LayoutPackedIsRead /\ ReadIsFaithful
  /\ running = "coding"  => /\ EncodingKeepsBits /\ DecodingKeepsBits /\ CompressionIsClose
                            /\ SampleIsPrefix
  /\ running = "pke"     => DecryptionRecovers /\ NoncesDiffer /\ NothingIsLeft

(* SLH-DSA: every signature leads to the public root, no two hash calls of a key
   share an address, the checksum forbids climbing a chain, and the indices are the
   bits of the digest. *)
SlhDsaHolds ==
  /\ running = "slh"    => OwnSignatureVerifies /\ AddressesSeparate
  /\ running = "digest" => /\ ChecksumForbidsClimbing /\ IndicesAreTheBits /\ PlaceExists
                           /\ DigestIsFilled

(* AIMer: the words of the three fields are the reduced product even in place; the
   opened seeds are the signer's and the hidden party's stays hidden; an honest
   proof is accepted, an altered one rejected, and nothing secret is held
   afterwards. *)
AimerHolds ==
  /\ running = "words" => WordsAreTheProduct /\ ResultIsReduced
  /\ running = "tree"  => OpenSeedsAgree /\ HiddenStaysHidden
  /\ running = "aimer" => HonestIsAccepted /\ AlteredIsRejected /\ NothingIsHeld

(* Steps that must undo nothing: the verifier of SLH-DSA hashes only what the signer
   hashed, under the signer's addresses, and what ML-DSA has filled of a matrix or a
   vector is never filled again. *)
NeverBack == VerifierWalksSigner /\ StaysFilled
=============================================================================
