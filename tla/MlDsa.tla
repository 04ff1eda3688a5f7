------------------------------- MODULE MlDsa --------------------------------
(***************************************************************************)
(* ML-DSA: rounding and hints, the packing of hints, rejection sampling on *)
(* four lanes, the order in which the matrix and the vectors are filled in *)
(* the two memory layouts, and key generation, signing and verification.   *)
(***************************************************************************)
EXTENDS Integers, Sequences, FiniteSets, SequencesExt

-----------------------------------------------------------------------------
(**********************************************************************************)
(* The roundings, the hint and the reduction of ML-DSA on one coefficient         *)
(* (rounding.h and reduce.h), with the modulus and the reciprocal that replaces a *)
(* division as constants.                                                         *)
(**********************************************************************************)
CONSTANTS
  MlDsaQ,              \* MLDSA_Q
  D,              \* MLDSA_D
  Gamma2,         \* MLDSA_GAMMA2
  GrainBits,      \* 7
  Reciprocal, ReciprocalBits,   \* 11275 and 24, or 1025 and 22
  Beta,           \* MLDSA_BETA
  MlDsaWordBits,       \* 32
  QBits           \* 23: Q < 2^QBits

MlDsaLevels == (MlDsaQ - 1) \div (2 * Gamma2)
ASSUME RoundingAssumption ==
  /\ MlDsaQ \in Nat /\ D \in Nat \ {0} /\ Gamma2 \in Nat \ {0} /\ Beta \in Nat /\ Beta < Gamma2
  /\ MlDsaQ - 1 = 2 * Gamma2 * MlDsaLevels /\ MlDsaLevels > 1 /\ MlDsaQ < 2^QBits

Grain == 2^GrainBits

Power2Round(x) == LET x1 == (x + 2^(D - 1) - 1) \div 2^D IN [high |-> x1, low |-> x - x1 * 2^D]

\* mld_decompose: the quotient by a reciprocal of whole grains, the last level folded to 0.
High(x) ==
  LET grains == (x + Grain - 1) \div Grain
      level  == (grains * Reciprocal + 2^(ReciprocalBits - 1)) \div 2^ReciprocalBits
  IN  IF level > MlDsaLevels - 1 THEN 0 ELSE level
Decompose(x) ==
  LET low == x - High(x) * 2 * Gamma2
  IN  [high |-> High(x), low |-> IF low > (MlDsaQ - 1) \div 2 THEN low - MlDsaQ ELSE low]

\* mld_make_hint and mld_use_hint
MakeHint(low, high) == low > Gamma2 \/ low < -Gamma2 \/ (low = -Gamma2 /\ high # 0)
MlDsaUseHint(x, hint) ==
  LET p == Decompose(x)
  IN  IF ~hint THEN p.high
      ELSE IF p.low > 0 THEN (p.high + 1) % MlDsaLevels ELSE (p.high + MlDsaLevels - 1) % MlDsaLevels

Reduce32(x) == x - ((x + 2^(QBits - 1)) \div 2^QBits) * MlDsaQ
WordMax == (2^(MlDsaWordBits - 2) - 1) + 2^(MlDsaWordBits - 2)
ReduceDomainMax == WordMax - 2^(QBits - 1)
ReduceRangeMax == ReduceDomainMax - (2^(MlDsaWordBits - 1 - QBits) - 1) * MlDsaQ + 1


-----------------------------------------------------------------------------
(******************************************************************************)
(* One coefficient rounded, reduced or hinted at, over every value of a small *)
(* modulus and at both ends of every grain of the program's own.              *)
(******************************************************************************)
CONSTANTS
  Values,         \* coefficients decomposed
  RoundingWords,          \* words reduced
  HintValues      \* coefficients of w that are hinted at

VARIABLES roundingOp, roundingA, cs2, ct0, roundingOut
roundingVars == <<roundingOp, roundingA, cs2, ct0, roundingOut>>

\* What signing accepts of the low part and of c t0 before it makes a hint.
Accepted(low, s, t) == -(Gamma2 - Beta) < low - s /\ low - s < Gamma2 - Beta /\ -Gamma2 < t /\ t < Gamma2

RoundingInit ==
  /\ \/ roundingOp = "value" /\ roundingA \in Values /\ cs2 = 0 /\ ct0 = 0
     \/ roundingOp = "word"  /\ roundingA \in RoundingWords /\ roundingA <= ReduceDomainMax /\ cs2 = 0 /\ ct0 = 0
     \/ roundingOp = "hint"  /\ roundingA \in HintValues /\ cs2 \in -Beta .. Beta /\ ct0 \in -(Gamma2 - 1) .. Gamma2 - 1
  /\ roundingOut = <<>>
RoundingRound ==
  /\ roundingOp = "value" /\ roundingOut = <<>>
  /\ roundingOut' = <<Decompose(roundingA).high, Decompose(roundingA).low, Power2Round(roundingA).high, Power2Round(roundingA).low>>
  /\ UNCHANGED <<roundingOp, roundingA, cs2, ct0>>
Reduce ==
  /\ roundingOp = "word" /\ roundingOut = <<>> /\ roundingOut' = <<Reduce32(roundingA)>>
  /\ UNCHANGED <<roundingOp, roundingA, cs2, ct0>>
\* One coefficient of the signer's and of the verifier's way to w1.
RoundingHint ==
  /\ roundingOp = "hint" /\ roundingOut = <<>> /\ Accepted(Decompose(roundingA).low, cs2, ct0)
  /\ LET p == Decompose(roundingA)
         h == MakeHint(p.low - cs2 + ct0, p.high)
     IN  roundingOut' = <<p.high, IF h THEN 1 ELSE 0, MlDsaUseHint((roundingA - cs2 + ct0) % MlDsaQ, h)>>
  /\ UNCHANGED <<roundingOp, roundingA, cs2, ct0>>
RoundingFinished == (roundingOut # <<>> \/ roundingOp = "hint") /\ UNCHANGED roundingVars
RoundingNext == RoundingRound \/ Reduce \/ RoundingHint \/ RoundingFinished
RoundingSpec == RoundingInit /\ [][RoundingNext]_roundingVars

(* ------------------------------- properties ----------------------------- *)
\* FIPS 204, algorithms 35, 36 and 39, with a real division.
CentredMod(x, m) == LET r == x % m IN IF r > m \div 2 THEN r - m ELSE r
StandardHigh(x) ==
  LET r0 == CentredMod(x, 2 * Gamma2) IN IF x - r0 = MlDsaQ - 1 THEN 0 ELSE (x - r0) \div (2 * Gamma2)
StandardLow(x) ==
  LET r0 == CentredMod(x, 2 * Gamma2) IN IF x - r0 = MlDsaQ - 1 THEN r0 - 1 ELSE r0

(* Both roundings are those of the standard, in the middle of a level, on its bounds, *)
(* where a half goes down, and at the last level, which is folded into the first.     *)
RoundingIsStandard ==
  roundingOp = "value" /\ roundingOut # <<>> =>
    /\ roundingOut[1] = StandardHigh(roundingA) /\ roundingOut[2] = StandardLow(roundingA)
    /\ roundingOut[4] = CentredMod(roundingA, 2^D) /\ roundingOut[3] * 2^D + roundingOut[4] = roundingA

(* The hint made from the parts that signing has at hand is the standard's, although it *)
(* never decomposes w - c s2; and with it the verifier, who only has w - c s2 + c t0,   *)
(* gets the high bits the challenge was computed from.                                  *)
HintRecoversHighBits ==
  roundingOp = "hint" /\ roundingOut # <<>> =>
    /\ roundingOut[3] = roundingOut[1]
    /\ (roundingOut[2] = 1) = (StandardHigh((roundingA - cs2 + ct0) % MlDsaQ) # StandardHigh((roundingA - cs2) % MlDsaQ))
    /\ StandardHigh((roundingA - cs2) % MlDsaQ) = roundingOut[1]

(* Every word that is not above the limit is brought into the range that the callers count *)
(* on, without leaving its class.                                                          *)
ReducedIsBounded ==
  roundingOp = "word" /\ roundingOut # <<>> =>
    /\ (roundingA - roundingOut[1]) % MlDsaQ = 0 /\ -ReduceRangeMax <= roundingOut[1] /\ roundingOut[1] < ReduceRangeMax


-----------------------------------------------------------------------------
(*************************************************************************************)
(* The hint section of an ML-DSA signature: mld_pack_sig_h writes the indices of     *)
(* all rows into one array of Omega bytes followed by a running tally per row, and   *)
(* mld_sig_unpack_hints reads and validates one row at a time, as verification asks. *)
(*************************************************************************************)
CONSTANTS HintsN, HintsK, Omega    \* MLDSA_N, MLDSA_K, MLDSA_OMEGA
ASSUME HintsAssumption == HintsN \in Nat \ {0} /\ HintsK \in Nat \ {0} /\ Omega \in Nat /\ Omega + 1 < HintsN

VARIABLES
  hints,     \* the hint bits that are 1, by row; <<>> when a foreign section is read
  index, tally,   \* the two parts of the section
  hintsRow, hintsN,    \* the loop of the packer
  decoded,   \* rows read so far
  hintsPc
hintsVars == <<hints, index, tally, hintsRow, hintsN, decoded, hintsPc>>

HintsIndex(i) == index[i + 1]
Tally(i) == tally[i + 1]

HintsInit ==
  /\ \/ /\ hints \in [1 .. HintsK -> SUBSET (0 .. HintsN - 1)] /\ hintsPc = "pack"
        /\ index = [i \in 1 .. Omega |-> 0] /\ tally = [i \in 1 .. HintsK |-> 0]
     \/ /\ hints = <<>> /\ hintsPc = "read"
        /\ index \in [1 .. Omega -> 0 .. HintsN - 1] /\ tally \in [1 .. HintsK -> 0 .. HintsN - 1]
  /\ hintsRow = 0 /\ hintsN = 0 /\ decoded = <<>>

\* A row of the packer: the indices in order, as long as there is room, then the tally.
Ascending(S) == SetToSortSeq(S, <)
Fits(w) == hintsN + w <= Omega
PackRow ==
  /\ hintsPc = "pack" /\ hintsRow < HintsK
  /\ LET found == Ascending(hints[hintsRow + 1])
         kept  == IF Fits(Len(found)) THEN Len(found) ELSE Omega - hintsN
     IN  /\ index' = [i \in 1 .. Omega |-> IF hintsN < i /\ i <= hintsN + kept THEN found[i - hintsN] ELSE index[i]]
         /\ hintsN' = hintsN + kept
         /\ IF Fits(Len(found)) THEN tally' = [tally EXCEPT ![hintsRow + 1] = hintsN + kept] /\ hintsRow' = hintsRow + 1 /\ hintsPc' = hintsPc
            ELSE hintsPc' = "full" /\ UNCHANGED <<tally, hintsRow>>
  /\ UNCHANGED <<hints, decoded>>
HintsPacked ==
  /\ hintsPc = "pack" /\ hintsRow = HintsK /\ hintsPc' = "read" /\ hintsRow' = 0
  /\ UNCHANGED <<hints, index, tally, hintsN, decoded>>

Before == IF hintsRow = 0 THEN 0 ELSE Tally(hintsRow - 1)
TallyStands == Before <= Tally(hintsRow) /\ Tally(hintsRow) <= Omega
Ascends == \A j \in Before .. Tally(hintsRow) - 1 : j > Before => HintsIndex(j) > HintsIndex(j - 1)
TailIsZero == hintsRow # HintsK - 1 \/ \A j \in Tally(hintsRow) .. Omega - 1 : HintsIndex(j) = 0
ReadRow ==
  /\ hintsPc = "read" /\ hintsRow < HintsK
  /\ IF TallyStands /\ Ascends /\ TailIsZero
     THEN /\ decoded' = Append(decoded, {HintsIndex(j) : j \in Before .. Tally(hintsRow) - 1})
          /\ hintsRow' = hintsRow + 1 /\ hintsPc' = (IF hintsRow' = HintsK THEN "accepted" ELSE hintsPc)
     ELSE hintsPc' = "invalid" /\ UNCHANGED <<decoded, hintsRow>>
  /\ UNCHANGED <<hints, index, tally, hintsN>>
HintsFinished == hintsPc \in {"full", "accepted", "invalid"} /\ UNCHANGED hintsVars
HintsNext == PackRow \/ HintsPacked \/ ReadRow \/ HintsFinished
HintsSpec == HintsInit /\ [][HintsNext]_hintsVars

(* ------------------------------- properties ----------------------------- *)
RECURSIVE Weight(_)
Weight(rows) == IF rows = <<>> THEN 0 ELSE Cardinality(Head(rows)) + Weight(Tail(rows))
RECURSIVE Indices(_)
Indices(rows) == IF rows = <<>> THEN <<>> ELSE Ascending(Head(rows)) \o Indices(Tail(rows))

(* What was packed is read back row by row; the packer gives up on exactly the hints that *)
(* are heavier than Omega, for which signing rejects, and never on others.                *)
PackedAreRead ==
  hints # <<>> =>
    /\ hintsPc # "invalid" /\ decoded = SubSeq(hints, 1, Len(decoded))
    /\ hintsPc = "full" => Weight(hints) > Omega
    /\ hintsPc \in {"read", "accepted"} => Weight(hints) <= Omega

(* A section that verification accepts is the one the packer makes for these hints: no other *)
(* bytes stand for the same signature, neither in the order of the indices nor behind them.  *)
HintsReadingIsUnique ==
  hintsPc = "accepted" =>
    /\ index = [i \in 1 .. Omega |-> IF i <= Weight(decoded) THEN Indices(decoded)[i] ELSE 0]
    /\ tally = [i \in 1 .. HintsK |-> Weight(SubSeq(decoded, 1, i))]


-----------------------------------------------------------------------------
(*****************************************************************************************)
(* How ML-DSA turns the output of a XOF into polynomials: lanes that are squeezed in     *)
(* lock step and reject at their own pace (mld_poly_uniform_4x, mld_poly_uniform_eta_4x  *)
(* and the single ones, which are one lane), and the challenge, whose buffer also begins *)
(* with the signs (mld_poly_challenge).                                                  *)
(*****************************************************************************************)
CONSTANTS
  Lanes,          \* how many lanes: 4
  Target,         \* MLDSA_N
  FirstBlocks,    \* blocks of the first squeeze
  BlockUnits,     \* units of a block: three bytes for a matrix entry, one for a short vector
  MaxBlocks, BallBlocks,   \* bounds: blocks squeezed, blocks the challenge reads after its first
  UniformUnits, EtaUnits,   \* units tried, as sequences of candidates
  SamplingQ, SamplingEta,         \* MLDSA_Q and MLDSA_ETA
  BallN, Tau, SamplingRate   \* of the challenge: degree, weight, bytes of a block of SHAKE256, the first of
                             \* which stands for the eight with the signs

VARIABLES
  samplingOp,
  samplingStream,    \* everything squeezed so far, by lane
  samplingA,         \* coefficients found so far, by lane
  blocks,
  samplingC, samplingI, samplingPos, samplingBuf, signs, draws    \* of the challenge, and the indices it has drawn from
samplingVars == <<samplingOp, samplingStream, samplingA, blocks, samplingC, samplingI,
                  samplingPos, samplingBuf, signs, draws>>
LaneState == <<samplingStream, samplingA, blocks>>
BallState == <<samplingC, samplingI, samplingPos, samplingBuf, signs, draws>>
SamplingUnits == IF samplingOp = "eta" THEN EtaUnits ELSE UniformUnits

SamplingInit ==
  /\ samplingOp \in {"uniform", "eta", "challenge"}
  /\ samplingStream = [l \in 1 .. Lanes |-> <<>>] /\ samplingA = samplingStream /\ blocks = 0
  /\ samplingC = [k \in 0 .. BallN - 1 |-> 0] /\ samplingI = BallN - Tau /\ samplingPos = 1 /\ draws = <<>>
  /\ signs \in [0 .. Tau - 1 -> {0, 1}]
  /\ IF samplingOp = "challenge" THEN samplingBuf \in [1 .. SamplingRate - 1 -> 0 .. BallN - 1]
     ELSE samplingBuf = <<>> /\ signs = [k \in 0 .. Tau - 1 |-> 0]

Accepts(t) == IF samplingOp = "uniform" THEN t < SamplingQ ELSE IF SamplingEta = 2 THEN t < 15 ELSE t < 9
\* 205 / 1024 for a fifth.
SamplingValue(t) ==
  IF samplingOp = "uniform" THEN t ELSE IF SamplingEta = 2 THEN 2 - (t - ((205 * t) \div 1024) * 5) ELSE 4 - t
SamplingTaken(kept, unit) ==
  LET good == SelectSeq(unit, Accepts)
      room == Target - Len(kept)
  IN  kept \o [k \in 1 .. (IF Len(good) < room THEN Len(good) ELSE room) |-> SamplingValue(good[k])]
Rejected(kept, units) == FoldLeft(SamplingTaken, kept, units)

Missing == \E l \in 1 .. Lanes : Len(samplingA[l]) < Target
\* One squeeze of all lanes, and each lane's turn with its own count.
Squeeze ==
  /\ samplingOp # "challenge" /\ Missing
  /\ LET n == IF blocks = 0 THEN FirstBlocks ELSE 1
     IN  /\ blocks + n <= MaxBlocks /\ blocks' = blocks + n
         /\ \E new \in [1 .. Lanes -> [1 .. n * BlockUnits -> SamplingUnits]] :
              /\ samplingStream' = [l \in 1 .. Lanes |-> samplingStream[l] \o new[l]]
              /\ samplingA' = [l \in 1 .. Lanes |-> Rejected(samplingA[l], new[l])]
  /\ UNCHANGED <<samplingOp, BallState>>

\* The challenge: an index is drawn, the buffer being filled again when it is used up.
RefilledAt == 1
SamplingRefill ==
  /\ samplingOp = "challenge" /\ samplingI < BallN /\ samplingPos > Len(samplingBuf) /\ blocks < BallBlocks
  /\ samplingBuf' \in [1 .. SamplingRate -> 0 .. BallN - 1] /\ samplingPos' = RefilledAt /\ blocks' = blocks + 1
  /\ draws' = draws \o SubSeq(samplingBuf', 1, RefilledAt - 1)
  /\ UNCHANGED <<samplingOp, samplingStream, samplingA, samplingC, samplingI, signs>>
Placed(j) == [[samplingC EXCEPT ![samplingI] = samplingC[j]] EXCEPT ![j] = 1 - 2 * signs[samplingI - (BallN - Tau)]]
Draw ==
  /\ samplingOp = "challenge" /\ samplingI < BallN /\ samplingPos <= Len(samplingBuf)
  /\ samplingPos' = samplingPos + 1 /\ draws' = Append(draws, samplingBuf[samplingPos])
  /\ IF samplingBuf[samplingPos] > samplingI THEN UNCHANGED <<samplingC, samplingI>> ELSE samplingC' = Placed(samplingBuf[samplingPos]) /\ samplingI' = samplingI + 1
  /\ UNCHANGED <<samplingOp, LaneState, samplingBuf, signs>>
SamplingFinished ==
  /\ \/ samplingOp # "challenge" /\ (~Missing \/ blocks = MaxBlocks)
     \/ samplingOp = "challenge" /\ (samplingI = BallN \/ (samplingPos > Len(samplingBuf) /\ blocks = BallBlocks))
  /\ UNCHANGED samplingVars
SamplingNext == Squeeze \/ SamplingRefill \/ Draw \/ SamplingFinished
SamplingSpec == SamplingInit /\ [][SamplingNext]_samplingVars

(* ------------------------------- properties ----------------------------- *)
Candidates(units) == FoldLeft(LAMBDA all, u : all \o u, <<>>, units)
StandardValue(t) ==
  IF samplingOp = "uniform" THEN t ELSE IF SamplingEta = 2 THEN 2 - (t % 5) ELSE 4 - t
Good(units) == SelectSeq(Candidates(units), Accepts)

(* Whatever pace the other lanes have, a lane holds the first acceptable candidates of its   *)
(* own stream in order, none lost or used twice where two squeezes meet, and no more than it *)
(* has room for: what a single sampler of the standard would hold.                           *)
LanesAreIndependent ==
  samplingOp # "challenge" =>
    \A l \in 1 .. Lanes :
      LET good == Good(samplingStream[l])
          held == IF Len(good) < Target THEN Len(good) ELSE Target
      IN  samplingA[l] = [k \in 1 .. held |-> StandardValue(good[k])]

(* The challenge has as many entries as the loop has gone round, each of them 1 or -1, so the *)
(* weight Tau that the bound Beta rests on.                                                   *)
ChallengeHasWeight ==
  samplingOp = "challenge" =>
    /\ \A k \in 0 .. BallN - 1 : samplingC[k] \in {-1, 0, 1}
    /\ Cardinality({k \in 0 .. BallN - 1 : samplingC[k] # 0}) = samplingI - (BallN - Tau)

(* It is the standard's: the indices drawn are those of the whole stream, where the buffer was *)
(* filled again too, and the r-th of them that is not too large places the r-th sign.          *)
ChallengeReadsOn ==
  samplingOp = "challenge" =>
    LET step(s, j) ==
          IF s.i = BallN \/ j > s.i THEN s
          ELSE [i |-> s.i + 1,
                c |-> [k \in 0 .. BallN - 1 |-> IF k = j THEN 1 - 2 * signs[s.i - (BallN - Tau)]
                                               ELSE IF k = s.i THEN s.c[j] ELSE s.c[k]]]
        end == FoldLeft(step, [i |-> BallN - Tau, c |-> [k \in 0 .. BallN - 1 |-> 0]], draws)
    IN  end.i = samplingI /\ end.c = samplingC


-----------------------------------------------------------------------------
(***************************************************************************************)
(* Which call fills which polynomial with which nonce, where four lanes do not divide  *)
(* the count: the calls then also fill a polynomial that is not due, with a nonce that *)
(* belongs to none, and a later call has to fill it again (mld_sample_s1_s2,           *)
(* mld_polyvecl_uniform_gamma1, mld_polyvec_matrix_expand).                            *)
(***************************************************************************************)
CONSTANTS ScheduleNonceBits, Kappas      \* 16, and the counters of attempts that are tried

Sets == {[name |-> 44, k |-> 4, l |-> 4], [name |-> 65, k |-> 6, l |-> 5], [name |-> 87, k |-> 8, l |-> 7]}
Irrelevant == 255

VARIABLES
  set, what, kappa,
  calls,     \* calls still to come: each a sequence of [at, nonce], one per lane
  filled     \* the nonce each polynomial was last filled from, or <<>>
scheduleVars == <<set, what, kappa, calls, filled>>

Lane(at, nonce) == [at |-> at, nonce |-> nonce]
Run(from, n, nonce) == [j \in 1 .. n |-> Lane(from + j - 1, nonce + j - 1)]

\* s1 and s2 are numbered through: s2[0] is number l.
FaultySecret(s) ==
  CASE s.name = 44 -> <<Run(0, 4, 0), Run(4, 4, 4)>>
    [] s.name = 65 -> <<Run(0, 4, 0), Run(7, 4, 7), Run(4, 3, 4) \o <<Lane(7, Irrelevant)>>>>
    [] s.name = 87 -> <<Run(0, 4, 0), Run(4, 3, 4) \o <<Lane(7, Irrelevant)>>, Run(7, 4, 7), Run(11, 4, 11)>>
Secret(s) ==
  CASE s.name = 44 -> <<Run(0, 4, 0), Run(4, 4, 4)>>
    [] s.name = 65 -> <<Run(0, 4, 0), Run(4, 3, 4) \o <<Lane(7, Irrelevant)>>, Run(7, 4, 7)>>
    [] s.name = 87 -> <<Run(0, 4, 0), Run(4, 3, 4) \o <<Lane(7, Irrelevant)>>, Run(7, 4, 7), Run(11, 4, 11)>>
Mask(s, n) ==
  CASE s.name = 44 -> <<Run(0, 4, n)>>
    [] s.name = 65 -> <<Run(0, 4, n), Run(4, 1, n + 4)>>
    [] s.name = 87 -> <<Run(0, 3, n) \o <<Lane(3, Irrelevant)>>, Run(3, 4, n + 3)>>
\* Entries in batches of four across the ends of rows, then one by one: the nonce is the
\* column and the row.
Batched(s) == ((s.k * s.l) \div 4) * 4
ScheduleEntry(s, e) == Lane(e, 256 * (e \div s.l) + (e % s.l))
Entries(s) ==
  [b \in 1 .. Batched(s) \div 4 |-> [j \in 1 .. 4 |-> ScheduleEntry(s, 4 * (b - 1) + (j - 1))]]
  \o [b \in 1 .. (s.k * s.l) - Batched(s) |-> <<ScheduleEntry(s, Batched(s) + (b - 1))>>]

Kinds == {"secret", "mask", "matrix"}
Count == CASE what = "secret" -> set.k + set.l [] what = "mask" -> set.l [] what = "matrix" -> set.k * set.l
ScheduleInit ==
  /\ set \in Sets /\ what \in Kinds
  /\ kappa \in (IF what = "mask" THEN {n * set.l : n \in Kappas} ELSE {0})
  /\ calls = CASE what = "secret" -> Secret(set) [] what = "mask" -> Mask(set, kappa) [] what = "matrix" -> Entries(set)
  /\ filled = [i \in 0 .. Count - 1 |-> <<>>]

\* The lanes of one call.
Call ==
  /\ calls # <<>> /\ calls' = Tail(calls)
  /\ filled' = FoldLeft(LAMBDA f, lane : [f EXCEPT ![lane.at] = <<lane.nonce>>], filled, Head(calls))
  /\ UNCHANGED <<set, what, kappa>>
ScheduleFinished == calls = <<>> /\ UNCHANGED scheduleVars
ScheduleNext == Call \/ ScheduleFinished
ScheduleSpec == ScheduleInit /\ [][ScheduleNext]_scheduleVars

(* ------------------------------- properties ----------------------------- *)
Due(i) == CASE what = "secret" -> i [] what = "mask" -> kappa + i [] what = "matrix" -> 256 * (i \div set.l) + (i % set.l)

(* When all calls are done every polynomial comes from its own nonce of the standard, also *)
(* the ones a lane had filled with something irrelevant before; and all nonces fit.        *)
FilledFromOwnNonce ==
  calls = <<>> => \A i \in 0 .. Count - 1 : filled[i] = <<Due(i)>> /\ Due(i) < 2^ScheduleNonceBits

(* A polynomial that has what it is due is never filled with anything else again.                   *)
StaysFilled ==
  [][(what \in Kinds) =>
       \A i \in 0 .. Count - 1 : filled[i] = <<Due(i)>> => filled'[i] = filled[i]]_scheduleVars


-----------------------------------------------------------------------------
(****************************************************************************************)
(* Keys, signatures and verification of ML-DSA (sign.c) with one matrix row, L          *)
(* columns and polynomials of one coefficient: the ring is the integers modulo Q, so    *)
(* transforms disappear and everything else stays: the split of t, the loop of attempts *)
(* that writes into the caller's buffer, the three norm checks, the hint, verification  *)
(* and the public key computed from a private one. The challenge is an oracle's answer. *)
(****************************************************************************************)
CONSTANTS
  MlDsaL,              \* MLDSA_L
  MlDsaEta,            \* MLDSA_ETA
  EtaBits,        \* bits a packed coefficient of s1 and s2 takes
  Gamma1,         \* MLDSA_GAMMA1
  Omegas,         \* MLDSA_OMEGA: 0 or 1 of the only coefficient
  MlDsaNonceBits,      \* 16: width of the nonce
  MlDsaMatrix, MlDsaYRange  \* values tried for the public coefficients and for y
ASSUME SignAssumption == MlDsaEta <= Beta /\ 2 * MlDsaL < 2^MlDsaNonceBits

VARIABLES
  omega, mlDsaMatrix,
  mlDsaSk, mlDsaPk,        \* [s1, s2, t0, tr] and t1
  attempt, nonces,   \* the loop of attempts, and the nonces y was drawn with
  mlDsaY, mlDsaW, mlDsaC,
  mlDsaSig,           \* the caller's buffer: [c, z, hint]
  mlDsaHeard, mlDsaPc
mlDsaVars == <<omega, mlDsaMatrix, mlDsaSk, mlDsaPk, attempt, nonces, mlDsaY, mlDsaW,
               mlDsaC, mlDsaSig, mlDsaHeard, mlDsaPc>>
MlDsaScheme == <<omega, mlDsaMatrix, mlDsaSk, mlDsaPk>>

Columns == 1 .. MlDsaL
MlDsaProduct(row, v) == FoldLeftDomain(LAMBDA sum, i : sum + row[i] * v[i], 0, row)
Small == -MlDsaEta .. MlDsaEta
MlDsaZero == [c |-> 0, z |-> [i \in Columns |-> 0], hint |-> FALSE]

\* mld_compute_pack_t0_t1: the row of t, split; tr is the hash of the public key.
MlDsaSplit(s1, s2) == Power2Round(Reduce32(MlDsaProduct(mlDsaMatrix, s1) + s2) % MlDsaQ)
MlDsaKeyOf(s1, s2) == [s1 |-> s1, s2 |-> s2, t0 |-> MlDsaSplit(s1, s2).low, tr |-> <<mlDsaMatrix, MlDsaSplit(s1, s2).high>>]

MlDsaInit ==
  /\ omega \in Omegas /\ mlDsaMatrix \in MlDsaMatrix /\ mlDsaSk = <<>> /\ mlDsaPk = 0
  /\ attempt = 0 /\ nonces = <<>> /\ mlDsaY = <<>> /\ mlDsaW = 0 /\ mlDsaC = 0 /\ mlDsaSig = MlDsaZero /\ mlDsaHeard = 0
  /\ mlDsaPc = "keygen"

MlDsaKeyGen ==
  /\ mlDsaPc = "keygen"
  /\ \E s1 \in [Columns -> Small], s2 \in Small : mlDsaSk' = MlDsaKeyOf(s1, s2) /\ mlDsaPk' = MlDsaSplit(s1, s2).high
  /\ mlDsaPc' \in {"sign", "altered"}
  /\ UNCHANGED <<omega, mlDsaMatrix, attempt, nonces, mlDsaY, mlDsaW, mlDsaC, mlDsaSig,
                 mlDsaHeard>>

\* mld_sign_pk_from_sk on a private key of which one part was changed at rest.
FaultyRecovers(k) == k.t0 = MlDsaSplit(k.s1, k.s2).low /\ k.tr = <<mlDsaMatrix, MlDsaSplit(k.s1, k.s2).high>>
Recovers(k) ==
  /\ \A i \in Columns : k.s1[i] \in Small
  /\ k.s2 \in Small /\ k.t0 = MlDsaSplit(k.s1, k.s2).low /\ k.tr = <<mlDsaMatrix, MlDsaSplit(k.s1, k.s2).high>>
Packable == (MlDsaEta - 2^EtaBits) + 1 .. MlDsaEta
PkFromSk ==
  /\ mlDsaPc = "altered"
  /\ \/ \E i \in Columns, v \in Packable : mlDsaSk' = [mlDsaSk EXCEPT !.s1[i] = v]
     \/ \E v \in Packable : mlDsaSk' = [mlDsaSk EXCEPT !.s2 = v]
     \/ \E v \in -(2^(D - 1) - 1) .. 2^(D - 1) : mlDsaSk' = [mlDsaSk EXCEPT !.t0 = v]
     \/ mlDsaSk' = [mlDsaSk EXCEPT !.tr = <<>>]
  /\ mlDsaPc' = IF Recovers(mlDsaSk') THEN "recovered" ELSE "invalid key"
  /\ mlDsaPk' = IF Recovers(mlDsaSk') THEN MlDsaSplit(mlDsaSk'.s1, mlDsaSk'.s2).high ELSE 0
  /\ UNCHANGED <<omega, mlDsaMatrix, attempt, nonces, mlDsaY, mlDsaW, mlDsaC, mlDsaSig,
                 mlDsaHeard>>

\* One attempt of mld_sign_signature_internal, up to the question to the oracle: y is drawn
\* with the nonces from kappa on, and w1 is packed over the whole buffer.
MaxKappa == (2^MlDsaNonceBits - 1) - MlDsaL
MaxAttempts == MaxKappa \div MlDsaL
Kappa(a) == (a * MlDsaL) % 2^MlDsaNonceBits
Attempt ==
  /\ mlDsaPc = "sign" /\ attempt < MaxAttempts
  /\ mlDsaY' \in [Columns -> MlDsaYRange]
  /\ nonces' = nonces \o [i \in Columns |-> (Kappa(attempt) + i - 1) % 2^MlDsaNonceBits]
  /\ mlDsaW' = Reduce32(MlDsaProduct(mlDsaMatrix, mlDsaY')) % MlDsaQ
  /\ mlDsaSig' = [MlDsaZero EXCEPT !.c = 2]
  /\ mlDsaPc' = "answer"
  /\ UNCHANGED <<MlDsaScheme, attempt, mlDsaC, mlDsaHeard>>
MlDsaAnswer ==
  /\ mlDsaPc = "answer" /\ mlDsaC' \in {-1, 1} /\ mlDsaPc' = "respond"
  /\ UNCHANGED <<MlDsaScheme, attempt, nonces, mlDsaY, mlDsaW, mlDsaSig, mlDsaHeard>>

\* mld_compute_pack_z packs each z that is small, until one is not.
MlDsaZ(i) == Reduce32(mlDsaC * mlDsaSk.s1[i] + mlDsaY[i])
ShortZ(i) == -(Gamma1 - Beta) < MlDsaZ(i) /\ MlDsaZ(i) < Gamma1 - Beta
PackedZ == [i \in Columns |-> IF \A j \in 1 .. i : ShortZ(j) THEN MlDsaZ(i) ELSE 0]
Low == Decompose(mlDsaW).low - mlDsaC * mlDsaSk.s2
LowIsShort == -(Gamma2 - Beta) < Low /\ Low < Gamma2 - Beta
HintIsShort == -Gamma2 < mlDsaC * mlDsaSk.t0 /\ mlDsaC * mlDsaSk.t0 < Gamma2
HintBit == MakeHint(Low + mlDsaC * mlDsaSk.t0, Decompose(mlDsaW).high)
MlDsaRespond ==
  /\ mlDsaPc = "respond"
  /\ LET z == [mlDsaSig EXCEPT !.z = PackedZ]
     IN  IF (\A i \in Columns : ShortZ(i)) /\ LowIsShort /\ HintIsShort /\ (HintBit => omega = 1)
         THEN mlDsaSig' = [c |-> mlDsaC, z |-> PackedZ, hint |-> HintBit] /\ mlDsaPc' = "signed" /\ UNCHANGED <<attempt, mlDsaY, mlDsaW, mlDsaC>>
         ELSE mlDsaSig' = z /\ attempt' = attempt + 1 /\ mlDsaY' = <<>> /\ mlDsaW' = 0 /\ mlDsaC' = 0 /\ mlDsaPc' = "sign"
  /\ UNCHANGED <<MlDsaScheme, nonces, mlDsaHeard>>
Cleared(s) == MlDsaZero
Exhausted ==
  /\ mlDsaPc = "sign" /\ attempt >= MaxAttempts /\ mlDsaSig' = Cleared(mlDsaSig) /\ mlDsaPc' = "exhausted"
  /\ UNCHANGED <<MlDsaScheme, attempt, nonces, mlDsaY, mlDsaW, mlDsaC, mlDsaHeard>>

\* mld_sign_verify_internal
MlDsaVerify ==
  /\ mlDsaPc = "signed"
  /\ mlDsaHeard' = MlDsaUseHint(Reduce32(MlDsaProduct(mlDsaMatrix, mlDsaSig.z) - mlDsaSig.c * mlDsaPk * 2^D) % MlDsaQ, mlDsaSig.hint)
  /\ mlDsaPc' = IF \E i \in Columns : mlDsaSig.z[i] <= -(Gamma1 - Beta) \/ mlDsaSig.z[i] >= Gamma1 - Beta THEN "long"
                ELSE IF mlDsaHeard' = Decompose(mlDsaW).high THEN "valid" ELSE "asked"
  /\ UNCHANGED <<MlDsaScheme, attempt, nonces, mlDsaY, mlDsaW, mlDsaC, mlDsaSig>>

MlDsaFinished == mlDsaPc \in {"valid", "long", "asked", "exhausted", "recovered", "invalid key"} /\ UNCHANGED mlDsaVars
MlDsaNext == MlDsaKeyGen \/ PkFromSk \/ Attempt \/ MlDsaAnswer \/ MlDsaRespond \/ Exhausted \/ MlDsaVerify \/ MlDsaFinished
MlDsaSpec == MlDsaInit /\ [][MlDsaNext]_mlDsaVars

(* ------------------------------- properties ----------------------------- *)
(* What is handed out verifies: although the verifier has neither t0 nor s2, it computes   *)
(* the high bits that the challenge was asked with, for every key, every y that passed the *)
(* checks and either sign.                                                                 *)
MlDsaSignaturesVerify == mlDsaPc \notin {"long", "asked"}

(* No y is drawn twice for one message: over all attempts the nonces differ, and the last *)
(* attempt that the bound allows does not wrap.                                           *)
NoncesAreFresh == IsInjective(nonces)

(* The buffer holds w1 and then z's of attempts that were rejected; when signing is over it *)
(* holds nothing but zeros or the one signature that passed.                                *)
NothingRejectedStays == mlDsaPc = "exhausted" => mlDsaSig = MlDsaZero

(* A private key that was changed gives a public key only when it is still one that key *)
(* generation could have made for this matrix, and then the public key belongs to it.   *)
RecoveredIsAKey ==
  mlDsaPc = "recovered" =>
    \E s1 \in [Columns -> Small], s2 \in Small :
      mlDsaSk = MlDsaKeyOf(s1, s2) /\ (MlDsaProduct(mlDsaMatrix, s1) + s2 - (mlDsaPk * 2^D + mlDsaSk.t0)) % MlDsaQ = 0

=============================================================================
