---------------------------- MODULE MCSymmetric -----------------------------
(****************************************************************************)
(* Small instances of the symmetric primitives.  A behaviour is one call of *)
(* one of them; the variables of the others are idle.                       *)
(****************************************************************************)
EXTENDS KeyedHashing, Ciphers

(* ------------------------------ instances ------------------------------- *)
\* Two-byte blocks of two-bit bytes; initial values include the last counter
\* and one whose low byte is about to wrap.
MCModeIVs == {<<0, 0>>, <<0, 3>>, <<3, 3>>}
\* For each key length the example key of the standard and three others.
MCAesLengths == {16, 24, 32}
MCAesKeys == {Counting(n) : n \in MCAesLengths}
  \cup {[i \in 1 .. n |-> (a * i * i + c) % 256] : n \in MCAesLengths, a \in {7, 131}, c \in {255}}
  \cup {[i \in 1 .. n |-> 0] : n \in MCAesLengths}
MCAesBlocks == {[i \in 1 .. 16 |-> 17 * (i - 1)], [i \in 1 .. 16 |-> 0], [i \in 1 .. 16 |-> (91 * i * i + 5) % 256]}
\* The choice tables of the code, a pseudo-random truth table and assignment of
\* output bits to boxes, and keys with and without equal parts.
MCDesPC1 == <<57,49,41,33,25,17,9,1,58,50,42,34,26,18,10,2,59,51,43,35,27,19,11,3,60,52,44,36,
              63,55,47,39,31,23,15,7,62,54,46,38,30,22,14,6,61,53,45,37,29,21,13,5,28,20,12,4>>
MCDesPC2 == <<14,17,11,24,1,5,3,28,15,6,21,10,23,19,12,4,26,8,16,7,27,20,13,2,
              41,52,31,37,47,55,30,40,51,45,33,48,44,49,39,56,34,53,46,42,50,36,29,32>>
MCDesTruthTable == [x \in 0 .. 63 |-> {b \in 0 .. 31 : ((x * x * 37 + 11 * x * b + b * b + 5) % 101) % 2 = 0}]
MCDesBoxOf == [b \in 0 .. 31 |-> ((b * 3) % 8) + 1]
MCDesPattern(a) == {b \in 0 .. 63 : (b * b * a + b) % 7 < 3}
MCDesKeys == {<<MCDesPattern(1), MCDesPattern(2), MCDesPattern(3)>>, <<MCDesPattern(2), MCDesPattern(2), MCDesPattern(5)>>,
              <<{}, 0 .. 63, MCDesPattern(4)>>}
MCDesBlocksTried == {<<{}, {}>>, <<{0, 31}, {}>>, <<{b \in Half : b % 3 = 0}, {b \in Half : (b * b) % 5 = 1}>>,
                     <<Half, {0, 31}>>}

(* --------------------------- one call at a time ------------------------- *)
CONSTANT Idle   \* held by the variables of a call that is not made

Calls == {"poly1305", "hmac", "cmac", "kdf", "stream", "modes", "aes", "des"}
VARIABLE running   \* the call that is made
vars == <<running, polyVars, hmacVars, cmacVars, kdfVars, chaChaVars, modeVars, aesVars,
          desVars>>

PolyIdle ==
  /\ polyKey = Idle /\ R = Idle /\ H = Idle /\ buffer = Idle /\ leftover = Idle
  /\ polyMessage = Idle /\ polyTag = Idle
HmacIdle ==
  /\ hmacKey = Idle /\ hmacMessage = Idle /\ hmacTagLength = Idle /\ keyBlock = Idle
  /\ context = Idle /\ innerDigest = Idle /\ fullTag = Idle /\ hmacTag = Idle
  /\ hmacStep = Idle /\ hmacStatus = Idle
CmacIdle ==
  /\ cmacKey = Idle /\ cmacMessage = Idle /\ cmacTagLength = Idle /\ cmacState = Idle
  /\ remaining = Idle /\ subkey1 = Idle /\ subkey2 = Idle /\ cmacTag = Idle
  /\ cmacStep = Idle /\ cmacStatus = Idle
KdfIdle ==
  /\ kind = Idle /\ kdfLength = Idle /\ kdfCapacity = Idle /\ info = Idle
  /\ iterations = Idle /\ kdfBlock = Idle /\ iteration = Idle /\ previous = Idle
  /\ ua = Idle /\ ub = Idle /\ currentIsA = Idle /\ accumulator = Idle
  /\ produced = Idle /\ output = Idle /\ kdfStep = Idle /\ kdfStatus = Idle
ChaChaIdle ==
  /\ chaChaMemory = Idle /\ start = Idle /\ chaChaIn = Idle /\ chaChaOut = Idle
  /\ chaChaLength = Idle /\ chaChaCapacity = Idle /\ first = Idle /\ counter = Idle
  /\ chaChaOffset = Idle /\ stream = Idle /\ chaChaStep = Idle /\ chaChaStatus = Idle
ModeIdle ==
  /\ modeMemory = Idle /\ modeMessage = Idle /\ iv = Idle /\ mode = Idle
  /\ ivLength = Idle /\ modeCapacity = Idle /\ modeIn = Idle /\ modeOut = Idle
  /\ back = Idle /\ direction = Idle /\ modeOffset = Idle /\ chain = Idle
  /\ modeStatus = Idle
AesIdle ==
  /\ aesKey = Idle /\ aesBlock = Idle /\ schedule = Idle /\ rcon = Idle
  /\ aesState = Idle /\ aesRound = Idle /\ phase = Idle /\ aesCipher = Idle
DesIdle ==
  /\ desKey = Idle /\ desBlock = Idle /\ roundKeys = Idle /\ pair = Idle
  /\ encrypting = Idle /\ stage = Idle /\ desRound = Idle /\ desCipher = Idle

Init ==
  /\ running \in Calls
  /\ IF running = "poly1305"  THEN PolyInit   ELSE PolyIdle
  /\ IF running = "hmac"      THEN HmacInit   ELSE HmacIdle
  /\ IF running = "cmac"      THEN CmacInit   ELSE CmacIdle
  /\ IF running = "kdf"       THEN KdfInit    ELSE KdfIdle
  /\ IF running = "stream"    THEN ChaChaInit ELSE ChaChaIdle
  /\ IF running = "modes"     THEN ModeInit   ELSE ModeIdle
  /\ IF running = "aes"       THEN AesInit    ELSE AesIdle
  /\ IF running = "des"       THEN DesInit    ELSE DesIdle
Next ==
  /\ UNCHANGED running
  /\ IF running = "poly1305"  THEN PolyNext   ELSE UNCHANGED polyVars
  /\ IF running = "hmac"      THEN HmacNext   ELSE UNCHANGED hmacVars
  /\ IF running = "cmac"      THEN CmacNext   ELSE UNCHANGED cmacVars
  /\ IF running = "kdf"       THEN KdfNext    ELSE UNCHANGED kdfVars
  /\ IF running = "stream"    THEN ChaChaNext ELSE UNCHANGED chaChaVars
  /\ IF running = "modes"     THEN ModeNext   ELSE UNCHANGED modeVars
  /\ IF running = "aes"       THEN AesNext    ELSE UNCHANGED aesVars
  /\ IF running = "des"       THEN DesNext    ELSE UNCHANGED desVars
Spec == Init /\ [][Next]_vars


(* ------------------------------ properties ------------------------------ *)
(* The tag of Poly1305 is the standard's however the message is split into updates;
   the one-shot calls of HMAC and CMAC give the standard's tag of every message and
   leave nothing in their buffers; HKDF and PBKDF2 deliver the standard's bytes at
   every length that their block numbers allow, and none when a step fails. *)
KeyedHashesAreStandard ==
  /\ running = "poly1305" => AccumulatorIsPolynomial /\ TagIsExact
  /\ running = "hmac"     => TagIsHmac /\ KeysStayApart /\ HmacNothingLeft
  /\ running = "cmac"     => TagIsCmac /\ LastBlockIsKept /\ CmacNothingLeft
  /\ running = "kdf"      => OutputIsStandard /\ FailureClears

(* A stream cipher call writes the standard's ciphertext on its input or apart from
   it, and refuses every other overlap and writes nothing.  A block mode call does
   not look for overlaps: its ciphertext is the standard's, and decryption gives the
   text back, where the output is apart from the input, on it or below it; with an
   output above an input that it overlaps neither holds, but nothing is written
   outside the output.  The schedules and rounds of AES and Triple DES are the
   standard's. *)
CiphersAreStandard ==
  /\ running = "stream" => OutputIsXor /\ CounterIsEnough
  /\ running = "modes"  => CiphertextIsStandard /\ RoundTrip /\ StaysInRange
  /\ running = "aes"    => ScheduleIsStandard /\ AesDecryptsToBlock /\ VectorsComeOut
  /\ running = "des"    => /\ PermutationsAreStandard /\ LookupIsExact /\ DesDecryptsToBlock
                           /\ MiddleCancels
=============================================================================
