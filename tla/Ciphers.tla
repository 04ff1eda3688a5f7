------------------------------ MODULE Ciphers -------------------------------
(**************************************************************************)
(* The stream cipher interface over ChaCha20, the block cipher modes, and *)
(* the round functions of AES and of the three passes of Triple DES.      *)
(**************************************************************************)
EXTENDS Integers, Sequences, FiniteSets
LOCAL INSTANCE SequencesExt

-----------------------------------------------------------------------------
(******************************************************************************)
(* The stand-alone stream cipher call (StreamCipher.c, chacha20.c): any       *)
(* number of bytes are exclusive-ored with the key stream from a counter that *)
(* the caller chooses; the output may be the input buffer itself but may not  *)
(* overlap it otherwise.  A byte of key stream is named by its block counter  *)
(* and place; a byte of memory is a set of the terms exclusive-ored into it.  *)
(******************************************************************************)
CONSTANTS
  ChaChaBlockBytes,     \* 64 in the code
  Counters,       \* how many values the counter has: 2^32 in the code
  ChaChaMaxInput, ChaChaMemorySize

VARIABLES
  chaChaMemory,         \* one memory: the input and output ranges lie in it
  start,          \* the memory when the call was made
  chaChaIn, chaChaOut, chaChaLength, chaChaCapacity,
  first,          \* INITIAL_COUNTER
  counter, chaChaOffset, stream,
  chaChaStep, chaChaStatus
chaChaVars == <<chaChaMemory, start, chaChaIn, chaChaOut, chaChaLength, chaChaCapacity,
                first, counter, chaChaOffset, stream, chaChaStep, chaChaStatus>>

ChaChaInit ==
  /\ chaChaMemory = [a \in 0 .. ChaChaMemorySize - 1 |-> {<<"input", a>>}]
  /\ start = chaChaMemory
  /\ chaChaLength \in 0 .. ChaChaMaxInput
  /\ chaChaIn \in 0 .. ChaChaMemorySize - chaChaLength /\ chaChaOut \in 0 .. ChaChaMemorySize - chaChaLength
  /\ chaChaCapacity \in {0, chaChaLength}
  /\ first \in 0 .. Counters - 1
  /\ counter = first /\ chaChaOffset = 0 /\ stream = <<>>
  /\ chaChaStep = "check" /\ chaChaStatus = "none"
ChaChaCall == <<start, chaChaIn, chaChaOut, chaChaLength, chaChaCapacity, first>>

Overlap == chaChaLength > 0 /\ chaChaIn < chaChaOut + chaChaLength /\ chaChaOut < chaChaIn + chaChaLength
\* crypto_chacha20_validate_length
ChaChaBlocks == (chaChaLength \div ChaChaBlockBytes) + (IF chaChaLength % ChaChaBlockBytes # 0 THEN 1 ELSE 0)
Available == Counters - first
ChaChaVerdict ==
  IF chaChaCapacity < chaChaLength THEN "buffer_too_small"
  ELSE IF chaChaIn # chaChaOut /\ Overlap THEN "invalid_argument"
  ELSE IF ChaChaBlocks > Available THEN "message_too_large" ELSE "ok"
Check ==
  /\ chaChaStep = "check"
  /\ IF ChaChaVerdict = "ok" THEN chaChaStep' = "block" /\ chaChaStatus' = chaChaStatus
     ELSE chaChaStep' = "done" /\ chaChaStatus' = ChaChaVerdict
  /\ UNCHANGED <<chaChaMemory, ChaChaCall, counter, chaChaOffset, stream>>

KeyStream(c) == [i \in 1 .. ChaChaBlockBytes |-> <<"key", c, i>>]
Flip(s, t) == IF t \in s THEN s \ {t} ELSE s \cup {t}
ChaChaLesser(a, b) == IF a < b THEN a ELSE b
Chunk == ChaChaLesser(chaChaLength - chaChaOffset, ChaChaBlockBytes)

\* One block of key stream over one chunk; the counter moves on only when more
\* input follows.
Advance(o) == IF o < chaChaLength THEN (counter + 1) % Counters ELSE counter
ChaChaXorBlock ==
  /\ chaChaStep = "block" /\ chaChaOffset < chaChaLength
  /\ stream' = KeyStream(counter)
  /\ chaChaMemory' = [a \in DOMAIN chaChaMemory |->
        LET i == a - chaChaOut - chaChaOffset
        IN  IF i \in 0 .. Chunk - 1
            THEN Flip(chaChaMemory[chaChaIn + chaChaOffset + i], KeyStream(counter)[i + 1])
            ELSE chaChaMemory[a]]
  /\ chaChaOffset' = chaChaOffset + Chunk
  /\ counter' = Advance(chaChaOffset + Chunk)
  /\ UNCHANGED <<ChaChaCall, chaChaStep, chaChaStatus>>

Done ==
  /\ chaChaStep = "block" /\ chaChaOffset = chaChaLength
  /\ stream' = <<>> /\ chaChaStep' = "done" /\ chaChaStatus' = "ok"
  /\ UNCHANGED <<chaChaMemory, ChaChaCall, counter, chaChaOffset>>

ChaChaFinished == chaChaStep = "done" /\ UNCHANGED chaChaVars
ChaChaNext == Check \/ ChaChaXorBlock \/ Done \/ ChaChaFinished
ChaChaSpec == ChaChaInit /\ [][ChaChaNext]_chaChaVars

(* ------------------------------- properties ----------------------------- *)

(* Every output byte is its input byte with its own byte of key stream, at every *)
(* moment of the loop, in place or apart; nothing else in memory changes, and a  *)
(* refused call, such as one whose output overlaps its input without being the   *)
(* input, changes nothing.                                                       *)
OutputIsXor ==
  LET done == IF chaChaStatus \in {"none", "ok"} THEN chaChaOffset ELSE 0
  IN  \A a \in DOMAIN chaChaMemory :
        LET i == a - chaChaOut
        IN  chaChaMemory[a] =
              IF i \in 0 .. done - 1
              THEN start[chaChaIn + i] \cup
                   {<<"key", first + (i \div ChaChaBlockBytes), (i % ChaChaBlockBytes) + 1>>}
              ELSE start[a]

(* The counter never comes round inside a message, and the last block it can *)
(* number is usable: exactly the messages that fit are taken.                *)
CounterIsEnough ==
  /\ counter >= first
  /\ chaChaStep = "done" /\ chaChaCapacity >= chaChaLength /\ (chaChaIn = chaChaOut \/ ~Overlap) =>
       (chaChaStatus = "ok" <=> chaChaLength <= (Counters - first) * ChaChaBlockBytes)


-----------------------------------------------------------------------------
(****************************************************************************)
(* The public block cipher calls (BlockCipher.c) with the ECB, CBC and CTR  *)
(* modes of aes.c and the ECB and CBC modes of triple_des.c over a small    *)
(* block cipher.  Nothing forbids output and input ranges that overlap, so  *)
(* both lie in one memory; a message is encrypted and the result decrypted. *)
(****************************************************************************)
CONSTANTS
  ModeByteBits, ModeBlockBytes,
  Texts, IVs,            \* message bytes and initial values tried
  ModeMaxInput, ModeMemorySize

ModeByte == 0 .. 2^ModeByteBits - 1
BlockCount == 2^(ModeByteBits * ModeBlockBytes)

VARIABLES
  modeMemory,
  modeMessage, iv,             \* what the caller wants encrypted, under what
  mode, ivLength, modeCapacity,
  modeIn, modeOut, back,           \* plaintext, ciphertext, and decrypted text ranges
  direction, modeOffset, chain,
  modeStatus
modeVars == <<modeMemory, modeMessage, iv, mode, ivLength, modeCapacity, modeIn, modeOut,
              back, direction, modeOffset, chain, modeStatus>>
ModeCall == <<modeMessage, iv, mode, ivLength, modeCapacity, modeIn, modeOut, back>>

ModeNumber(block) == FoldLeft(LAMBDA acc, x : acc * 2^ModeByteBits + x, 0, block)
ModeBlock(v) == [i \in 1 .. ModeBlockBytes |-> (v \div 2^(ModeByteBits * (ModeBlockBytes - i))) % 2^ModeByteBits]
\* A permutation of the blocks and its inverse.
ModeEncrypt(b) == ModeBlock((ModeNumber(b) * 5 + 3) % BlockCount)
Decrypt(b) == CHOOSE p \in [1 .. ModeBlockBytes -> ModeByte] : ModeEncrypt(p) = b
ModeXorByte(a, b) == CHOOSE x \in ModeByte :
  \A i \in 0 .. ModeByteBits - 1 : (x \div 2^i) % 2 = ((a \div 2^i) + (b \div 2^i)) % 2
ModeXor(s, t) == [i \in DOMAIN s |-> ModeXorByte(s[i], t[i])]

Length == Len(modeMessage)
Write(mem, at, bytes) ==
  [a \in DOMAIN mem |-> IF a \in at .. at + Len(bytes) - 1 THEN bytes[a - at + 1] ELSE mem[a]]
Read(mem, at, n) == [i \in 1 .. n |-> IF at + i - 1 \in DOMAIN mem THEN mem[at + i - 1] ELSE 0]

\* The memory when the caller makes its call.
Given == Write([a \in 0 .. ModeMemorySize - 1 |-> 0], modeIn, modeMessage)

ModeInit ==
  /\ \E n \in 0 .. ModeMaxInput : modeMessage \in [1 .. n -> Texts]
  /\ iv \in IVs /\ mode \in {"ecb", "cbc", "ctr"}
  /\ ivLength \in {0, ModeBlockBytes} /\ modeCapacity \in {0, Length}
  /\ modeIn \in 0 .. ModeMemorySize - Length /\ modeOut \in 0 .. ModeMemorySize - Length
  /\ back \in 0 .. ModeMemorySize - Length
  /\ modeMemory = Given
  /\ direction = "encrypt" /\ modeOffset = 0 /\ chain = iv
  /\ modeStatus = "none"

\* aes_validate_request, crypto_tdes_ede3_crypt
Whole == Length % ModeBlockBytes = 0
ModeVerdict ==
  IF \/ mode # "ctr" /\ ~Whole
     \/ (mode = "ecb") # (ivLength = 0)
  THEN "invalid_argument"
  ELSE IF modeCapacity < Length THEN "buffer_too_small" ELSE "ok"
ModeRefuse ==
  /\ modeStatus = "none" /\ ModeVerdict # "ok"
  /\ modeStatus' = ModeVerdict
  /\ UNCHANGED <<modeMemory, ModeCall, direction, modeOffset, chain>>

From == IF direction = "encrypt" THEN modeIn ELSE modeOut
To == IF direction = "encrypt" THEN modeOut ELSE back
Input == Read(modeMemory, From + modeOffset, ModeBlockBytes)
Working == modeStatus = "none" /\ ModeVerdict = "ok" /\ modeOffset < Length
Put(bytes) ==
  /\ modeMemory' = Write(modeMemory, To + modeOffset, bytes)
  /\ modeOffset' = modeOffset + Len(bytes)
  /\ UNCHANGED <<ModeCall, direction, modeStatus>>

EcbBlock ==
  /\ Working /\ mode = "ecb"
  /\ Put(IF direction = "encrypt" THEN ModeEncrypt(Input) ELSE Decrypt(Input))
  /\ UNCHANGED chain

CbcEncryptBlock ==
  /\ Working /\ mode = "cbc" /\ direction = "encrypt"
  /\ LET c == ModeEncrypt(ModeXor(Input, chain)) IN Put(c) /\ chain' = c

\* The ciphertext block is copied before the output, which may be the same
\* bytes, is written.
FaultyNextChain(cipher, mem) == Read(mem, From + modeOffset, ModeBlockBytes)
NextChain(cipher, mem) == cipher
CbcDecryptBlock ==
  /\ Working /\ mode = "cbc" /\ direction = "decrypt"
  /\ Put(ModeXor(Decrypt(Input), chain))
  /\ chain' = NextChain(Input, modeMemory')

\* increment_counter128: from the last byte, on while a byte wraps.
Increment(c) ==
  [i \in 1 .. ModeBlockBytes |->
     IF \A j \in i + 1 .. ModeBlockBytes : c[j] = 2^ModeByteBits - 1 THEN (c[i] + 1) % 2^ModeByteBits ELSE c[i]]
ModeLesser(a, b) == IF a < b THEN a ELSE b
CtrBlock ==
  /\ Working /\ mode = "ctr"
  /\ LET chunk == ModeLesser(ModeBlockBytes, Length - modeOffset)
     IN  Put(ModeXor(Read(modeMemory, From + modeOffset, chunk), ModeEncrypt(chain)))
  /\ chain' = Increment(chain)

\* The caller has the ciphertext and decrypts it.
Turn ==
  /\ modeStatus = "none" /\ ModeVerdict = "ok" /\ modeOffset = Length /\ direction = "encrypt"
  /\ direction' = "decrypt" /\ modeOffset' = 0 /\ chain' = iv
  /\ UNCHANGED <<modeMemory, ModeCall, modeStatus>>
ModeComplete ==
  /\ modeStatus = "none" /\ ModeVerdict = "ok" /\ modeOffset = Length /\ direction = "decrypt"
  /\ modeStatus' = "ok"
  /\ UNCHANGED <<modeMemory, ModeCall, direction, modeOffset, chain>>

ModeFinished == modeStatus # "none" /\ UNCHANGED modeVars
ModeNext == \/ ModeRefuse \/ EcbBlock \/ CbcEncryptBlock \/ CbcDecryptBlock \/ CtrBlock
            \/ Turn \/ ModeComplete \/ ModeFinished
ModeSpec == ModeInit /\ [][ModeNext]_modeVars

(* ------------------------------- properties ----------------------------- *)
\* Ranges a forward pass may have: apart, the same, or the output below.
Safe(from, to) == to <= from \/ from + Length <= to
Part(k) == SubSeq(modeMessage, (k - 1) * ModeBlockBytes + 1, ModeLesser(k * ModeBlockBytes, Length))
\* The standard's ciphertext block k.
StandardBlock(k) ==
  LET c[i \in 0 .. k] == IF i = 0 THEN iv ELSE ModeEncrypt(ModeXor(Part(i), c[i - 1]))
  IN  CASE mode = "ecb" -> ModeEncrypt(Part(k))
        [] mode = "cbc" -> c[k]
        [] mode = "ctr" -> ModeXor(Part(k), ModeEncrypt(ModeBlock((ModeNumber(iv) + k - 1) % BlockCount)))

(* Where the output is apart from the input, on it, or below it, what has been   *)
(* written so far is the standard's ciphertext, also past a carry of the counter *)
(* through all of its bytes.                                                     *)
CiphertextIsStandard ==
  direction = "encrypt" /\ ModeVerdict = "ok" /\ Safe(modeIn, modeOut) =>
    \A k \in 1 .. (modeOffset + ModeBlockBytes - 1) \div ModeBlockBytes :
      Read(modeMemory, modeOut + (k - 1) * ModeBlockBytes, Len(Part(k))) = StandardBlock(k)

(* A message comes back, wherever it is decrypted to among those placements.       *)
RoundTrip ==
  modeStatus = "ok" /\ Safe(modeIn, modeOut) /\ Safe(modeOut, back) =>
    Read(modeMemory, back, Length) = modeMessage

(* Wherever the ranges lie, also where an output above its input overlaps it and the *)
(* call neither refuses nor gives the standard's ciphertext: a call that is refused  *)
(* writes nothing, and one that is not writes no byte outside the output that its    *)
(* caller gave, not even with the last block of a message that ends inside one.      *)
Outputs == modeOut .. modeOut + Length - 1
           \cup (IF direction = "decrypt" THEN back .. back + Length - 1 ELSE {})
StaysInRange ==
  \A a \in DOMAIN modeMemory :
    modeStatus \notin {"none", "ok"} \/ a \notin Outputs => modeMemory[a] = Given[a]


-----------------------------------------------------------------------------
(*****************************************************************************)
(* The AES block function (aes.c): the key schedule produced four bytes at a *)
(* time for the three key lengths, the rounds of encryption, and the rounds  *)
(* of decryption that undo them.  A block is a sequence of sixteen bytes.    *)
(*****************************************************************************)
CONSTANTS AesKeys, AesBlocks     \* sequences of bytes

AesByte == 0 .. 255
\* Exclusive or of two bytes, half a byte at a time.
Nibble == 0 .. 15
XorNibble == [a \in Nibble |-> [b \in Nibble |->
  LET bit(i) == IF ((a \div 2^i) + (b \div 2^i)) % 2 = 1 THEN 2^i ELSE 0
  IN  bit(0) + bit(1) + bit(2) + bit(3)]]
AesXor(a, b) == 16 * XorNibble[a \div 16][b \div 16] + XorNibble[a % 16][b % 16]
XorAll(bytes) == FoldLeft(AesXor, 0, bytes)
XorEach(s, t) == [i \in DOMAIN s |-> AesXor(s[i], t[i])]

\* ---------------------------- the field ----------------------------------
xtime(x) == AesXor((2 * x) % 256, IF x \div 128 = 1 THEN 27 ELSE 0)
gmul(a, b) ==
  LET times[i \in 0 .. 7] == IF i = 0 THEN a ELSE xtime(times[i - 1])
  IN  XorAll([i \in 1 .. 8 |-> IF (b \div 2^(i - 1)) % 2 = 1 THEN times[i - 1] ELSE 0])
rotl8(x, n) == ((x * 2^n) % 256) + (x \div 2^(8 - n))
\* The product of x^2, x^4, ..., x^128.
gf_inv(x) ==
  LET power[i \in 0 .. 7] == IF i = 0 THEN x ELSE LET half == power[i - 1] IN gmul(half, half)
  IN  FoldLeft(gmul, 1, [i \in 1 .. 7 |-> power[i]])
SBox == [x \in AesByte |-> LET y == gf_inv(x) IN XorAll(<<y, rotl8(y, 1), rotl8(y, 2), rotl8(y, 3), rotl8(y, 4), 99>>)]
InvSBox == [x \in AesByte |-> gf_inv(XorAll(<<rotl8(x, 1), rotl8(x, 3), rotl8(x, 6), 5>>))]

\* ---------------------------- the rounds ---------------------------------
sub_bytes(s) == [i \in 1 .. 16 |-> SBox[s[i]]]
inv_sub_bytes(s) == [i \in 1 .. 16 |-> InvSBox[s[i]]]
\* Row r of a block, whose columns are consecutive, turns by r columns.
AesRow(i) == (i - 1) % 4
ShiftRows(s) == [i \in 1 .. 16 |-> s[((i - 1 + 4 * AesRow(i)) % 16) + 1]]
InvShiftRows(s) == [i \in 1 .. 16 |-> s[((i - 1 + 16 - 4 * AesRow(i)) % 16) + 1]]
InColumn(s, i, k) == s[i - AesRow(i) + ((AesRow(i) + k) % 4)]
MixColumns(s) ==
  [i \in 1 .. 16 |-> XorAll(<<xtime(s[i]), xtime(InColumn(s, i, 1)), InColumn(s, i, 1),
                             InColumn(s, i, 2), InColumn(s, i, 3)>>)]
InvMixColumns(s) ==
  [i \in 1 .. 16 |-> XorAll(<<gmul(s[i], 14), gmul(InColumn(s, i, 1), 11),
                             gmul(InColumn(s, i, 2), 13), gmul(InColumn(s, i, 3), 9)>>)]

VARIABLES
  aesKey, aesBlock,
  schedule, rcon,        \* CONTEXT->ROUND_KEYS, grown
  aesState, aesRound, phase,
  aesCipher                 \* the encrypted block
aesVars == <<aesKey, aesBlock, schedule, rcon, aesState, aesRound, phase, aesCipher>>

ROUNDS == (Len(aesKey) \div 4) + 6
Total == 16 * (ROUNDS + 1)
RoundKey(r) == SubSeq(schedule, 16 * r + 1, 16 * r + 16)

AesInit ==
  /\ aesKey \in AesKeys /\ aesBlock \in AesBlocks
  /\ schedule = aesKey /\ rcon = 1
  /\ aesState = aesBlock /\ aesRound = 0 /\ phase = "schedule" /\ aesCipher = <<>>

\* crypto_aes_context_init: the word before, turned and substituted at the
\* start of every key length, substituted only half way for the longest keys.
LastWord == SubSeq(schedule, Len(schedule) - 3, Len(schedule))
AtKeyStart == Len(schedule) % Len(aesKey) = 0
HalfWay == Len(aesKey) = 32 /\ Len(schedule) % Len(aesKey) = 16
ExpandWord ==
  /\ phase = "schedule" /\ Len(schedule) < Total
  /\ LET temp == IF AtKeyStart
                 THEN <<AesXor(SBox[LastWord[2]], rcon), SBox[LastWord[3]], SBox[LastWord[4]], SBox[LastWord[1]]>>
                 ELSE IF HalfWay THEN [i \in 1 .. 4 |-> SBox[LastWord[i]]] ELSE LastWord
         old == SubSeq(schedule, Len(schedule) - Len(aesKey) + 1, Len(schedule) - Len(aesKey) + 4)
     IN  schedule' = schedule \o XorEach(old, temp)
  /\ rcon' = IF AtKeyStart THEN xtime(rcon) ELSE rcon
  /\ UNCHANGED <<aesKey, aesBlock, aesState, aesRound, phase, aesCipher>>

\* crypto_aes_encrypt_block
EncryptFirst ==
  /\ phase = "schedule" /\ Len(schedule) = Total
  /\ aesState' = XorEach(aesState, RoundKey(0))
  /\ aesRound' = 1 /\ phase' = "encrypt"
  /\ UNCHANGED <<aesKey, aesBlock, schedule, rcon, aesCipher>>
EncryptRound ==
  /\ phase = "encrypt" /\ aesRound < ROUNDS
  /\ aesState' = XorEach(MixColumns(ShiftRows(sub_bytes(aesState))), RoundKey(aesRound))
  /\ aesRound' = aesRound + 1
  /\ UNCHANGED <<aesKey, aesBlock, schedule, rcon, phase, aesCipher>>
EncryptLast ==
  /\ phase = "encrypt" /\ aesRound = ROUNDS
  /\ aesCipher' = XorEach(ShiftRows(sub_bytes(aesState)), RoundKey(ROUNDS))
  /\ aesState' = XorEach(aesCipher', RoundKey(ROUNDS))
  /\ phase' = "decrypt"
  /\ UNCHANGED <<aesKey, aesBlock, schedule, rcon, aesRound>>

\* crypto_aes_decrypt_block, the first key addition already made
Unsubstituted(s) == inv_sub_bytes(InvShiftRows(s))
DecryptStep(s, k) == InvMixColumns(XorEach(Unsubstituted(s), k))
DecryptRound ==
  /\ phase = "decrypt" /\ aesRound > 1
  /\ aesState' = DecryptStep(aesState, RoundKey(aesRound - 1))
  /\ aesRound' = aesRound - 1
  /\ UNCHANGED <<aesKey, aesBlock, schedule, rcon, phase, aesCipher>>
DecryptLast ==
  /\ phase = "decrypt" /\ aesRound = 1
  /\ aesState' = XorEach(Unsubstituted(aesState), RoundKey(0))
  /\ aesRound' = 0 /\ phase' = "done"
  /\ UNCHANGED <<aesKey, aesBlock, schedule, rcon, aesCipher>>

AesFinished == phase = "done" /\ UNCHANGED aesVars
AesNext == \/ ExpandWord \/ EncryptFirst \/ EncryptRound \/ EncryptLast
           \/ DecryptRound \/ DecryptLast \/ AesFinished
AesSpec == AesInit /\ [][AesNext]_aesVars

(* ------------------------------- properties ----------------------------- *)
\* FIPS 197, section 5.2: words by their index, rcon as a power of x.
AesWord(i) == SubSeq(schedule, 4 * i + 1, 4 * i + 4)
Power(n) == LET p[i \in 0 .. n] == IF i = 0 THEN 1 ELSE gmul(p[i - 1], 2) IN p[n]
StandardWord(i) ==
  LET nk == Len(aesKey) \div 4
      w  == AesWord(i - 1)
      subbed(v) == [j \in 1 .. 4 |-> SBox[v[j]]]
      t == IF i % nk = 0 THEN XorEach(subbed(<<w[2], w[3], w[4], w[1]>>), <<Power((i \div nk) - 1), 0, 0, 0>>)
           ELSE IF nk > 6 /\ i % nk = 4 THEN subbed(w) ELSE w
  IN  XorEach(AesWord(i - nk), t)

(* The last word of the schedule is the standard's at every step, for the three *)
(* key lengths, of which only one divides the round key, and the schedule never *)
(* outgrows its array.                                                          *)
ScheduleIsStandard ==
  /\ Len(schedule) <= Total
  /\ phase = "schedule" /\ Len(schedule) > Len(aesKey) =>
       AesWord((Len(schedule) \div 4) - 1) = StandardWord((Len(schedule) \div 4) - 1)

(* Decryption retraces the rounds of encryption: the order in which it undoes the  *)
(* key addition and the mixing, and its count from the last round, bring the block *)
(* back.                                                                           *)
AesDecryptsToBlock == phase = "done" => aesState = aesBlock

\* FIPS 197, appendix C: the three ciphertexts of the block 00 11 .. ff.
Counting(n) == [i \in 1 .. n |-> i - 1]
Vectors ==
  [n \in {16, 24, 32} |->
     CASE n = 16 -> <<105, 196, 224, 216, 106, 123, 4, 48, 216, 205, 183, 128, 112, 180,
                      197, 90>>
       [] n = 24 -> <<221, 169, 124, 164, 134, 76, 223, 224, 110, 175, 112, 160, 236, 13,
                      113, 145>>
       [] n = 32 -> <<142, 162, 183, 202, 81, 103, 69, 191, 234, 252, 73, 144, 75, 73, 96,
                      137>>]

(* The algebraic S-box, the row turns and the mixing are those of the standard: *)
(* its example vectors come out.                                                *)
VectorsComeOut ==
  \A n \in {16, 24, 32} :
    phase = "done" /\ aesKey = Counting(n) /\ aesBlock = [i \in 1 .. 16 |-> 17 * (i - 1)] =>
      aesCipher = Vectors[n]


-----------------------------------------------------------------------------
(*****************************************************************************)
(* The Triple DES block function (triple_des.c).  A word is the set of its   *)
(* one bits, bit 0 the least significant, so that exclusive or is symmetric  *)
(* difference.  The swaps that make the initial permutation, the rounds that *)
(* stay between the two permutations, the truth table of the boxes folded by *)
(* the input bits, and the key schedule are those of the code; which truth   *)
(* table and which choice tables these are is left open, being constants.    *)
(*****************************************************************************)
CONSTANTS
  DesKeys,            \* triples of 64-bit keys
  BlocksTried,
  TruthTable,      \* [0 .. 63 -> 32-bit words]: the boxes' outputs by input
  BoxOf,           \* [0 .. 31 -> 1 .. 8]: the box of each output bit
  PC1, PC2         \* choice tables, positions counted from 1 at the left

Half == 0 .. 31
DesXor(s, t) == (s \ t) \cup (t \ s)
ShiftLeft(s, n) == {b + n : b \in s} \cap Half
ShiftRight(s, n) == {b - n : b \in s} \cap Half

\* ----------------------------- permutations ------------------------------
\* Exchange the bits of low under mask with those of high n places up.
Swap(pair, n, mask) ==
  LET t == DesXor(ShiftRight(pair[1], n), pair[2]) \cap mask
  IN  <<DesXor(pair[1], ShiftLeft(t, n)), DesXor(pair[2], t)>>
Turned(pair) == <<pair[2], pair[1]>>
\* The bits whose place, in groups of n, is in the lower half of 2n.
Mask(n) == {b \in Half : (b \div n) % 2 = 0}
InitialPermutation(p) ==
  LET a == Swap(Swap(p, 4, Mask(4)), 16, Mask(16))
      b == Turned(Swap(Swap(Turned(a), 2, Mask(2)), 8, Mask(8)))
  IN  Swap(b, 1, Mask(1))
FinalPermutation(p) ==
  LET a == Turned(Swap(Swap(Turned(Swap(p, 1, Mask(1))), 8, Mask(8)), 2, Mask(2)))
  IN  Swap(Swap(a, 16, Mask(16)), 4, Mask(4))
\* permute_bits: output bit index, counted from the left, is a table entry.
PermuteBits(s, width, table) ==
  {Len(table) - i : i \in {j \in 1 .. Len(table) : width - table[j] \in s}}

\* ---------------------------- round function -----------------------------
\* Six bits for each box: four of the word and one on either side, around the
\* ends; box 1 is leftmost.
BoxInput(right, box) == {k \in 0 .. 5 : (32 - 4 * box + k - 1 + 32) % 32 \in right}
KeyPart(roundKey, box) == {k \in 0 .. 5 : 48 - 6 * box + k \in roundKey}
\* The bits of every box input, spread over the outputs of that box.
Planes(right, roundKey) ==
  [k \in 0 .. 5 |-> {b \in Half : k \in DesXor(BoxInput(right, BoxOf[b]), KeyPart(roundKey, BoxOf[b]))}]
\* Each level keeps one of two neighbours, bit by bit.
Folded(nodes, plane) ==
  [i \in 0 .. (Cardinality(DOMAIN nodes) \div 2) - 1 |->
     DesXor(nodes[2 * i], plane \cap DesXor(nodes[2 * i], nodes[2 * i + 1]))]
RoundFunction(right, roundKey) ==
  LET planes == Planes(right, roundKey)
      level[k \in 0 .. 6] == IF k = 0 THEN TruthTable ELSE Folded(level[k - 1], planes[k - 1])
  IN  level[6][0]

\* ----------------------------- key schedule ------------------------------
Rotations == <<1, 1, 2, 2, 2, 2, 2, 2, 1, 2, 2, 2, 2, 2, 2, 1>>
RotateLeft(s, n) == {(b + n) % 28 : b \in s}
KeySchedule(desKey) ==
  LET permuted == PermuteBits(desKey, 64, PC1)
      left[r \in 0 .. 16] ==
        IF r = 0 THEN {b - 28 : b \in permuted \cap (28 .. 55)} ELSE RotateLeft(left[r - 1], Rotations[r])
      right[r \in 0 .. 16] ==
        IF r = 0 THEN permuted \cap (0 .. 27) ELSE RotateLeft(right[r - 1], Rotations[r])
  IN  [r \in 1 .. 16 |-> PermuteBits({b + 28 : b \in left[r]} \cup right[r], 56, PC2)]

VARIABLES
  desKey, desBlock,
  roundKeys,           \* three schedules
  pair,                \* the halves <<left, right>>
  encrypting, stage, desRound,
  desCipher
desVars == <<desKey, desBlock, roundKeys, pair, encrypting, stage, desRound, desCipher>>

DesInit ==
  /\ desKey \in DesKeys /\ desBlock \in BlocksTried
  /\ roundKeys = [i \in 1 .. 3 |-> KeySchedule(desKey[i])]
  /\ pair = InitialPermutation(desBlock)
  /\ encrypting = TRUE /\ stage = 1 /\ desRound = 0 /\ desCipher = <<>>

\* triple_des_block: encryption, decryption, encryption, and back.
ScheduleUsed == IF encrypting THEN stage ELSE 4 - stage
Forward == encrypting = (stage # 2)
\* des_rounds
KeyIndex == IF Forward THEN desRound + 1 ELSE 16 - desRound
Round ==
  /\ stage <= 3 /\ desRound < 16
  /\ pair' = <<pair[2], DesXor(pair[1], RoundFunction(pair[2], roundKeys[ScheduleUsed][KeyIndex]))>>
  /\ desRound' = desRound + 1
  /\ UNCHANGED <<desKey, desBlock, roundKeys, encrypting, stage, desCipher>>
StageDone ==
  /\ stage <= 3 /\ desRound = 16
  /\ pair' = Turned(pair)
  /\ stage' = stage + 1 /\ desRound' = 0
  /\ UNCHANGED <<desKey, desBlock, roundKeys, encrypting, desCipher>>

\* The block is written, and read again for decryption.
Written ==
  /\ stage = 4 /\ encrypting
  /\ desCipher' = FinalPermutation(pair)
  /\ pair' = InitialPermutation(desCipher')
  /\ encrypting' = FALSE /\ stage' = 1
  /\ UNCHANGED <<desKey, desBlock, roundKeys, desRound>>
Restored ==
  /\ stage = 4 /\ ~encrypting
  /\ pair' = FinalPermutation(pair) /\ stage' = 5
  /\ UNCHANGED <<desKey, desBlock, roundKeys, encrypting, desRound, desCipher>>

DesFinished == stage = 5 /\ UNCHANGED desVars
DesNext == Round \/ StageDone \/ Written \/ Restored \/ DesFinished
DesSpec == DesInit /\ [][DesNext]_desVars

(* ------------------------------- properties ----------------------------- *)

(* The network of swaps is the standard's initial permutation: bit i of the row *)
(* and column table goes where FIPS 46 says, and the final one undoes it.       *)
StandardIP == [i \in 1 .. 64 |-> 58 + 2 * (((i - 1) \div 8) % 4) - (IF i > 32 THEN 1 ELSE 0)
                                 - 8 * ((i - 1) % 8)]
AsHalves(s) == <<{b - 32 : b \in s \cap (32 .. 63)}, s \cap Half>>
Joined(p) == {b + 32 : b \in p[1]} \cup p[2]
PermutationsAreStandard ==
  stage = 1 /\ encrypting /\ desRound = 0 =>
    /\ pair = AsHalves(PermuteBits(Joined(desBlock), 64, StandardIP))
    /\ FinalPermutation(pair) = desBlock

(* The folded truth table is a table look-up: each output bit is the entry at its *)
(* own box's input, whose outer bits are those of the neighbouring boxes, around  *)
(* the ends of the word.                                                          *)
StandardE == [i \in 1 .. 48 |-> ((4 * ((i - 1) \div 6) + ((i - 1) % 6) + 31) % 32) + 1]
DesValueOf(bits) == LET f[k \in 0 .. 6] == IF k = 0 THEN 0 ELSE f[k - 1] + (IF k - 1 \in bits THEN 2^(k - 1) ELSE 0) IN f[6]
LookupIsExact ==
  stage <= 3 /\ desRound < 16 =>
    LET k == roundKeys[ScheduleUsed][KeyIndex]
        e == DesXor(PermuteBits(pair[2], 32, StandardE), k)
    IN  RoundFunction(pair[2], k) =
          {b \in Half : b \in TruthTable[DesValueOf({j \in 0 .. 5 : 48 - 6 * BoxOf[b] + j \in e})]}

(* Decryption with the keys of each pass in reverse, and the passes in reverse, *)
(* retraces encryption without leaving the permuted domain between passes; with *)
(* equal first and second keys a single encryption under the third remains.     *)
DesDecryptsToBlock == stage = 5 => pair = desBlock
MiddleCancels ==
  encrypting /\ stage = 3 /\ desRound = 0 /\ desKey[1] = desKey[2] => pair = InitialPermutation(desBlock)

=============================================================================
