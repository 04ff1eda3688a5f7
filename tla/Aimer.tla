------------------------------- MODULE Aimer --------------------------------
(****************************************************************************)
(* AIMer: the binary fields and their words, the seed trees of the parties, *)
(* and the zero-knowledge proof that signing makes and verification checks. *)
(****************************************************************************)
EXTENDS Integers, Sequences, FiniteSets, FiniteSetsExt, SequencesExt

-----------------------------------------------------------------------------
(*****************************************************************************************)
(* Multiplication and squaring in the binary fields of AIMer (aimer_field128.c, 192 and  *)
(* 256): the words are multiplied by Karatsuba's schedule and the upper words are folded *)
(* down.  A word is the set of its exponents, so a sum is a symmetric difference.        *)
(*****************************************************************************************)
CONSTANT Fields  \* records of the three fields, see W, BinaryK and Shifts
ASSUME FieldAssumption ==
  \A f \in Fields : f.k \in {2, 3, 4} /\ f.w \in Nat /\ f.shifts \subseteq 1..f.w - 1

VARIABLES
  field,
  binaryJob,   \* "mul", "add" or "sqr"
  binaryA, binaryB,  \* the factors: K words
  binaryC,     \* the result, for "add" also an addend
  old,   \* the addend as it was
  temp,  \* the product: 2K words
  binaryPc
binaryVars == <<field, binaryJob, binaryA, binaryB, binaryC, old, temp, binaryPc>>

W == field.w             \* bits in a word
BinaryK == field.k             \* words in a field element: 2, 3 or 4
Shifts == field.shifts   \* the exponents of the modulus below the first, without 0

x ## y == (x \ y) \cup (y \ x)
LeftAll(x, n) == {e + n : e \in x}
BinaryLeft(x, n) == {e \in LeftAll(x, n) : e < W}
Right(x, n) == {e - n : e \in {f \in x : f >= n}}
BinaryProduct(x, y) == FoldSet(LAMBDA e, acc : acc ## LeftAll(y, e), {}, x)
\* crypto_aimer_poly64_mul and crypto_aimer_poly64_sqr: the low word and the high one.
FaultySplit(z) == [lo |-> {e \in z : e < W}, hi |-> Right(z \ {2 * W - 2}, W)]
BinarySplit(z) == [lo |-> {e \in z : e < W}, hi |-> Right(z, W)]
BinaryMul(x, y) == BinarySplit(BinaryProduct(x, y))
Sqr(x) == BinarySplit({2 * e : e \in x})

Two(p, q) ==
  LET low == BinaryMul(p[1], q[1])
      high == BinaryMul(p[2], q[2])
      mid == BinaryMul(p[1] ## p[2], q[1] ## q[2])
      one == low.hi ## mid.lo ## low.lo ## high.lo
  IN <<low.lo, one, mid.lo ## mid.hi ## low.lo ## one ## high.hi, high.hi>>
Three(p, q) ==
  LET m0 == BinaryMul(p[1], q[1])
      m1 == BinaryMul(p[2], q[2])
      m2 == BinaryMul(p[3], q[3])
      m01 == BinaryMul(p[1] ## p[2], q[1] ## q[2])
      m02 == BinaryMul(p[1] ## p[3], q[1] ## q[3])
      m12 == BinaryMul(p[2] ## p[3], q[2] ## q[3])
      t0 == m0.hi ## m1.lo
      t1 == m2.lo ## m1.hi
      one == t0 ## m0.lo
      four == m2.hi ## t1
  IN <<m0.lo, one ## m01.lo, (t1 ## one) ## m01.hi ## m02.lo,
       (four ## t0) ## m02.hi ## m12.lo, four ## m12.hi, m2.hi>>
Four(p, q) ==
  LET m0 == BinaryMul(p[1], q[1])
      m1 == BinaryMul(p[2], q[2])
      m2 == BinaryMul(p[3], q[3])
      m3 == BinaryMul(p[4], q[4])
      m01 == BinaryMul(p[1] ## p[2], q[1] ## q[2])
      m23 == BinaryMul(p[3] ## p[4], q[3] ## q[4])
      add == <<p[1] ## p[3], p[2] ## p[4], q[1] ## q[3], q[2] ## q[4]>>
      n0 == BinaryMul(add[1], add[3])
      n1 == BinaryMul(add[2], add[4])
      n01 == BinaryMul(add[1] ## add[2], add[3] ## add[4])
      t0 == m0.hi ## m1.lo
      t1 == m2.lo ## m1.hi
      t2 == m3.lo ## m2.hi
      one == t0 ## m0.lo ## m01.lo
      two == t1 ## t0 ## m01.hi
      three == t2 ## t1 ## m23.lo
      six == m3.hi ## t2 ## m23.hi
      u1 == n0.hi ## n1.lo
  IN <<m0.lo, one, two ## m0.lo ## n0.lo, three ## one ## u1 ## n0.lo ## n01.lo,
       six ## two ## u1 ## n1.hi ## n01.hi, m3.hi ## three ## n1.hi, six, m3.hi>>
BinaryWords(p, q) == IF BinaryK = 2 THEN Two(p, q) ELSE IF BinaryK = 3 THEN Three(p, q) ELSE Four(p, q)

\* The lowest of the upper words takes what the highest one folds over the modulus twice.
BinaryFirst(t) == t[BinaryK + 1] ##
                  FoldSet(LAMBDA r, acc : acc ## Right(t[2 * BinaryK], W - r), {}, Shifts)
Folded(t) ==
  LET upper(i) == IF i = 1 THEN BinaryFirst(t) ELSE t[BinaryK + i]
      over(i, r) == BinaryLeft(t[BinaryK + i], r) \cup (IF i = 1 THEN {} ELSE Right(upper(i - 1), W - r))
      word(i) == t[i] ## upper(i) ##
                 FoldSet(LAMBDA r, acc : acc ## (IF i = 1 THEN BinaryLeft(upper(1), r) ELSE over(i, r)), {}, Shifts)
  IN [i \in 1..BinaryK |-> word(i)]

Single(e) == [i \in 1..BinaryK |-> IF e \div W = i - 1 THEN {e % W} ELSE {}]
Dense(s) == [i \in 1..BinaryK |-> {e \in 0..W - 1 : (e * i + s) % 3 # 0}]
Elements == {Single(e) : e \in 0..(BinaryK * W) - 1} \cup {Dense(s) : s \in 0..2}
BinaryInit ==
  /\ field \in Fields
  /\ binaryJob \in {"mul", "add", "sqr"} /\ binaryA \in Elements /\ binaryB \in Elements
  /\ (binaryJob = "sqr" => binaryA = binaryB) /\ (binaryJob = "add" => binaryB \in {Dense(s) : s \in 0..2})
  /\ old = (IF binaryJob = "add" THEN Dense(1) ELSE [i \in 1..BinaryK |-> {}])
  /\ binaryC = old /\ temp = <<>> /\ binaryPc = "words"
BinaryMultiply ==
  /\ binaryPc = "words" /\ binaryJob # "sqr" /\ temp' = BinaryWords(binaryA, binaryB) /\ binaryPc' = "fold"
  /\ UNCHANGED <<field, binaryJob, binaryA, binaryB, binaryC, old>>
BinarySquare ==
  /\ binaryPc = "words" /\ binaryJob = "sqr" /\ binaryPc' = "fold"
  /\ temp' = [i \in 1..2 * BinaryK |-> IF i % 2 = 1 THEN Sqr(binaryA[(i + 1) \div 2]).lo ELSE Sqr(binaryA[i \div 2]).hi]
  /\ UNCHANGED <<field, binaryJob, binaryA, binaryB, binaryC, old>>
Fold ==
  /\ binaryPc = "fold" /\ binaryPc' = "done"
  /\ binaryC' = LET f == Folded(temp) IN [i \in 1..BinaryK |-> IF binaryJob = "add" THEN binaryC[i] ## f[i] ELSE f[i]]
  /\ UNCHANGED <<field, binaryJob, binaryA, binaryB, old, temp>>
BinaryFinished == binaryPc = "done" /\ UNCHANGED binaryVars
BinaryNext == BinaryMultiply \/ BinarySquare \/ Fold \/ BinaryFinished
BinarySpec == BinaryInit /\ [][BinaryNext]_binaryVars

(* ------------------------------- properties ----------------------------- *)
BinaryJoined(t) == UNION {LeftAll(t[i], W * (i - 1)) : i \in DOMAIN t}
\* The remainder of z by the modulus, one exponent at a time from the top.
Remainder(z) ==
  LET n == BinaryK * W
      r[top \in 0..2 * n] ==
        IF top = 0 THEN z
        ELSE LET e == 2 * n - top
                 prev == r[top - 1]
             IN IF e >= n /\ e \in prev
                THEN (prev \ {e}) ## ({e - n} \cup {e - n + s : s \in Shifts}) ELSE prev
  IN r[2 * n]
(* Karatsuba's schedule leaves the whole product in the words, each sum added exactly as often as *)
(* it has to be.                                                                                  *)
WordsAreTheProduct == binaryPc = "fold" => BinaryJoined(temp) = BinaryProduct(BinaryJoined(binaryA), BinaryJoined(binaryB))

(* The folded words are the remainder by the modulus, also where the fold of the highest word *)
(* reaches above it again.                                                                    *)
ResultIsReduced == binaryPc = "done" => BinaryJoined(binaryC) = BinaryJoined(old) ## Remainder(BinaryProduct(BinaryJoined(binaryA), BinaryJoined(binaryB)))


-----------------------------------------------------------------------------
(*******************************************************************************************)
(* The seed tree of one repetition of AIMer (aimer_tree.c): the signer expands a root into *)
(* a seed for every party, shows every seed but one by the siblings of one path, and the   *)
(* verifier rebuilds the rest in memory that malloc left as it was.                        *)
(*******************************************************************************************)
CONSTANT LogParties
ASSUME TreeAssumption == LogParties \in Nat \ {0}
TreeParties == 2^LogParties

VARIABLES
  nodes,   \* the signer's nodes: the root is number 1
  reveal,  \* the seeds shown, from the leaf up
  treeOther,   \* the verifier's nodes, without the root: node number i is other[i - 1]
  treeCover,   \* the party that stays hidden
  treeAt, depth, treePc
treeVars == <<nodes, reveal, treeOther, treeCover, treeAt, depth, treePc>>

\* A seed is named by what it was squeezed from: the node and the seed hashed, left or right.
Garbage(i) == <<"garbage", i>>
Half(node, seed, side) == <<node, seed, side>>
Xor1(i) == IF i % 2 = 0 THEN i + 1 ELSE i - 1

TreeInit ==
  /\ treeCover \in 0..TreeParties - 1
  /\ nodes = [i \in 1..2 * TreeParties - 1 |-> IF i = 1 THEN <<"root">> ELSE Garbage(i)]
  /\ treeOther = [i \in 1..2 * TreeParties - 2 |-> Garbage(i)]
  /\ reveal = <<>> /\ treeAt = 1 /\ depth = 1 /\ treePc = "expand"

\* One pass of crypto_aimer_expand_tree; both children are squeezed at once.
TreeExpand ==
  /\ treePc = "expand"
  /\ IF treeAt < TreeParties
     THEN /\ nodes' = [nodes EXCEPT ![2 * treeAt] = Half(treeAt, nodes[treeAt], 0), ![2 * treeAt + 1] = Half(treeAt, nodes[treeAt], 1)]
          /\ treeAt' = treeAt + 1 /\ UNCHANGED treePc
     ELSE treePc' = "reveal" /\ treeAt' = treeCover + TreeParties /\ UNCHANGED nodes
  /\ UNCHANGED <<reveal, treeOther, treeCover, depth>>

\* One pass of crypto_aimer_reveal_all_but.
Sibling(i) == Xor1(i)
TreeReveal ==
  /\ treePc = "reveal"
  /\ IF Len(reveal) < LogParties
     THEN reveal' = Append(reveal, nodes[Sibling(treeAt)]) /\ treeAt' = treeAt \div 2 /\ UNCHANGED treePc
     ELSE treePc' = "show" /\ UNCHANGED <<reveal, treeAt>>
  /\ UNCHANGED <<nodes, treeOther, treeCover, depth>>

\* crypto_aimer_reconstruct_tree: at every depth the shown sibling first, then the children of
\* every node of the depth, also of the node that is hidden and still holds what malloc left.
Shown(d) == Xor1((treeCover + TreeParties) \div 2^(LogParties - d))
Show ==
  /\ treePc = "show"
  /\ treeOther' = [treeOther EXCEPT ![Shown(depth) - 1] = reveal[LogParties - depth + 1]]
  /\ treePc' = (IF depth = LogParties THEN "done" ELSE "hash") /\ treeAt' = 2^depth
  /\ UNCHANGED <<nodes, reveal, treeCover, depth>>
LastOf(d) == 2^(d + 1)
HashNode ==
  /\ treePc = "hash"
  /\ IF treeAt < LastOf(depth)
     THEN /\ treeOther' = [treeOther EXCEPT ![2 * treeAt - 1] = Half(treeAt, treeOther[treeAt - 1], 0),
                                            ![2 * treeAt] = Half(treeAt, treeOther[treeAt - 1], 1)]
          /\ treeAt' = treeAt + 1 /\ UNCHANGED <<depth, treePc>>
     ELSE depth' = depth + 1 /\ treePc' = "show" /\ UNCHANGED <<treeOther, treeAt>>
  /\ UNCHANGED <<nodes, reveal, treeCover>>
TreeFinished == treePc = "done" /\ UNCHANGED treeVars
TreeNext == TreeExpand \/ TreeReveal \/ Show \/ HashNode \/ TreeFinished
TreeSpec == TreeInit /\ [][TreeNext]_treeVars

(* ------------------------------- properties ----------------------------- *)
(* The verifier has the signer's seed of every party but the hidden one, whatever was in the *)
(* memory: what was hashed from the hidden node of a depth is overwritten where it matters.  *)
OpenSeedsAgree ==
  treePc = "done" =>
    \A party \in (0..TreeParties - 1) \ {treeCover} : treeOther[TreeParties + party - 1] = nodes[TreeParties + party]

Ancestors == {(treeCover + TreeParties) \div 2^d : d \in 0..LogParties}
(* No seed on the path from the root to the hidden party is shown, so its own can not be hashed *)
(* from what the signature holds.                                                               *)
HiddenStaysHidden ==
  \A k \in 1..Len(reveal) : \A i \in Ancestors : reveal[k] # nodes[i]


-----------------------------------------------------------------------------
(**********************************************************************************************)
(* AIMer (aimer_backend.c, aimer_aim2.c): a proof in the head that the signer knows the       *)
(* plaintext of a one-way function.  The field has 2^Bits elements, hashes are the lists they *)
(* absorb, and what is squeezed from them is arbitrary.                                       *)
(**********************************************************************************************)
CONSTANTS
  Bits, AimerModulus, \* the field: the modulus as a number
  Exponents,     \* for every input box, and the last for the output box: e of x^(2^e - 1)
  Inverses,      \* x^Inverses[i] undoes x^(2^Exponents[i] - 1) on the input boxes
  RoundConstants,\* one for every input box
  AimerParties, Reps,
  Streams,       \* what a hash of the iv may give: rows for every box, and the vector b
  Tapes,         \* the shares of every party of every repetition
  Challenges,    \* what a hash may give for the boxes of one repetition
  Errors         \* what may be added to a field on its way
ASSUME AimerAssumption == Bits \in Nat \ {0} /\ AimerParties > 1 /\ Reps > 0 /\ 0 \notin Errors

VARIABLES
  aimerPc, rep,
  pt, aimerStream, aimerCt, \* the key
  tapes, eps, covers, \* what the hashes give
  checks,  \* the signer's shares of the multiplications, by repetition and party
  aimerSig, held, altered,
  h1, h2,  \* what the verifier has absorbed
  verdict
aimerVars == <<aimerPc, rep, pt, aimerStream, aimerCt, tapes, eps, covers, checks, aimerSig,
               held, altered, h1, h2, verdict>>

Field == 0..2^Bits - 1
AimerBit(x, i) == (x \div 2^i) % 2
AimerUpTo(n) == [i \in 1..n |-> i - 1]
XorTable == [x \in Field |-> [y \in Field |-> FoldLeft(LAMBDA s, i : s + ((AimerBit(x, i) + AimerBit(y, i)) % 2) * 2^i, 0, AimerUpTo(Bits))]]
x ++ y == XorTable[x][y]
\* x times the variable: shifted, and reduced when it overflows.
Double(x) == IF 2 * x < 2^Bits THEN 2 * x ELSE ((2 * x) - 2^Bits) ++ (AimerModulus - 2^Bits)
MulTable == [x \in Field |-> [y \in Field |->
  FoldLeft(LAMBDA s, i : (IF s = 0 THEN 0 ELSE Double(s)) ++ (IF AimerBit(y, Bits - 1 - i) = 1 THEN x ELSE 0), 0, AimerUpTo(Bits))]]
x (.) y == MulTable[x][y]
\* crypto_aimer_field_exp
AimerPower(x, e) == FoldLeft(LAMBDA s, i : s (.) x, 1, AimerUpTo(e))
\* Squared n times, for the exponents of the boxes.
FrobeniusTable == [n \in {Exponents[k] : k \in DOMAIN Exponents} |->
  [x \in Field |-> FoldLeft(LAMBDA s, i : s (.) s, x, AimerUpTo(n))]]
Frobenius(x, n) == FrobeniusTable[n][x]
Total(S) == FoldLeft(LAMBDA s, z : s ++ z, 0, S)

Boxes == Len(RoundConstants)
MatVec(v, rows) == FoldLeft(LAMBDA s, i : IF AimerBit(v, i) = 1 THEN s ++ rows[i + 1] ELSE s, 0, AimerUpTo(Bits))
\* generate_matrices_L_and_U: the bits from the diagonal up, or down, with ones on the diagonal.
AimerLower(s, box) == [i \in 1..Bits |->
  LET r == s.rows[box][i] IN r - (r % 2^(i - 1)) + (IF AimerBit(r, i - 1) = 1 THEN 0 ELSE 2^(i - 1))]
Upper(s, box) == [i \in 1..Bits |-> (s.rows[box][i] % 2^(i - 1)) + 2^(i - 1)]
\* crypto_aimer_aim2_generate_linear
Linear(s, box) == [i \in 1..Bits |-> MatVec(Upper(s, box)[i], AimerLower(s, box))]
\* What the matrix of each box does to a share.
LinearTable == [s \in Streams |-> [box \in 1..Boxes |-> [x \in Field |-> MatVec(x, Linear(s, box))]]]
\* crypto_aimer_aim2_sbox_outputs
BoxOut(p, box) == AimerPower(p ++ RoundConstants[box], Inverses[box])
\* crypto_aimer_aim2
Aim2(p, s) ==
  LET mixed(box) == MatVec(MatVec(BoxOut(p, box), Upper(s, box)), AimerLower(s, box))
      sum == Total([box \in 1..Boxes |-> mixed(box)]) ++ s.b
  IN AimerPower(sum, 2^Exponents[Boxes + 1] - 1) ++ p

\* crypto_aimer_aim2_mpc on the shares of one party: t, and what it starts the output box with.
Mpc(t, start) ==
  LET last == FoldLeft(LAMBDA s, i : s ++ LinearTable[aimerStream][i + 1][t[i + 1]], start, AimerUpTo(Boxes))
  IN [x |-> Append(t, last),
      z |-> Append([i \in 1..Boxes |-> Frobenius(t[i], Exponents[i]) ++ (t[i] (.) RoundConstants[i])],
                   Frobenius(last, Exponents[Boxes + 1]) ++ (last (.) aimerCt))]
\* The correction that the last party adds to its tape.
Corrected(tape, d) ==
  [pt |-> tape.pt ++ d.pt, t |-> [i \in 1..Boxes |-> tape.t[i] ++ d.t[i]], a |-> tape.a, c |-> tape.c ++ d.c]
Shares(r, party, d) == IF party = AimerParties THEN Corrected(tapes[r][party], d) ELSE tapes[r][party]
AimerStart(party) == IF party = AimerParties THEN aimerStream.b ELSE 0
AimerAlpha(tape, m, e) == FoldLeft(LAMBDA s, i : s ++ (m.x[i + 1] (.) e[i + 1]), tape.a, AimerUpTo(Boxes + 1))
V(tape, m, e) == FoldLeft(LAMBDA s, i : s ++ (m.z[i + 1] (.) e[i + 1]), tape.c, AimerUpTo(Boxes + 1))

Empty == [commit |-> <<>>, alpha |-> 0, path |-> "own", delta |-> <<>>]
AimerInit ==
  /\ aimerPc = "keygen" /\ rep = 1 /\ pt \in Field /\ aimerStream \in Streams /\ tapes \in Tapes
  /\ aimerCt = 0 /\ eps = <<>> /\ covers = <<>> /\ checks = <<>> /\ held = {} /\ altered = FALSE
  /\ aimerSig = [salt |-> "own", h1 |-> <<>>, h2 |-> <<>>, proofs |-> [r \in 1..Reps |-> Empty]]
  /\ h1 = <<>> /\ h2 = <<>> /\ verdict = "none"

AimerKeyGen ==
  /\ aimerPc = "keygen" /\ aimerCt' = Aim2(pt, aimerStream) /\ aimerPc' = "begin"
  /\ UNCHANGED <<rep, pt, aimerStream, tapes, eps, covers, checks, aimerSig, held, altered,
                 h1, h2, verdict>>

Buffers == {"nodes", "commits", "checks", "shares"}
Freed(h) == {}
AimerBegin ==
  /\ aimerPc = "begin"
  /\ \/ aimerPc' = "phase 1" /\ held' = Buffers
     \/ \E got \in SUBSET Buffers : got # Buffers /\ held' = Freed(got) /\ aimerPc' = "failed"
  /\ UNCHANGED <<rep, pt, aimerStream, aimerCt, tapes, eps, covers, checks, aimerSig,
                 altered, h1, h2, verdict>>
\* The matrix is allocated and made; either may fail.
AimerMatrix ==
  /\ aimerPc = "phase 1" /\ "matrix" \notin held
  /\ \/ held' = held \cup {"matrix"} /\ aimerPc' = aimerPc
     \/ \E got \in SUBSET {"matrix"} : held' = Freed(held \cup got) /\ aimerPc' = "failed"
  /\ UNCHANGED <<rep, pt, aimerStream, aimerCt, tapes, eps, covers, checks, aimerSig,
                 altered, h1, h2, verdict>>

\* One repetition of run_phase_1.
Delta(r) ==
  LET of(f(_)) == Total([party \in 1..AimerParties |-> f(tapes[r][party])])
  IN [pt |-> of(LAMBDA t : t.pt) ++ pt,
      t |-> [i \in 1..Boxes |-> of(LAMBDA t : t.t[i]) ++ BoxOut(pt, i)],
      c |-> of(LAMBDA t : t.c) ++ (pt (.) of(LAMBDA t : t.a))]
Commit(r, party, path) == <<r, party, path, aimerSig.salt>>
Phase1 ==
  /\ aimerPc = "phase 1" /\ "matrix" \in held
  /\ LET d == Delta(rep)
     IN /\ checks' = Append(checks, [party \in 1..AimerParties |-> Mpc(Shares(rep, party, d).t, AimerStart(party))])
        /\ aimerSig' = [aimerSig EXCEPT !.proofs[rep].delta = d,
                                        !.h1 = @ \o [party \in 1..AimerParties |-> Commit(rep, party, "own")] \o <<d>>]
  /\ IF rep = Reps THEN rep' = 1 /\ aimerPc' = "phase 2" /\ held' = held \ {"matrix"}
     ELSE rep' = rep + 1 /\ UNCHANGED <<aimerPc, held>>
  /\ UNCHANGED <<pt, aimerStream, aimerCt, tapes, eps, covers, altered, h1, h2, verdict>>

\* One repetition of run_phase_2_and_3, with the challenges squeezed from h1.
Alphas(r, e) == [party \in 1..AimerParties |-> AimerAlpha(Shares(r, party, aimerSig.proofs[r].delta), checks[r][party], e)]
Vs(r, e) ==
  LET alpha == Total(Alphas(r, e))
      share(party) == Shares(r, party, aimerSig.proofs[r].delta)
  IN [party \in 1..AimerParties |-> V(share(party), checks[r][party], e) ++ (share(party).pt (.) alpha)]
Phase2 ==
  /\ aimerPc = "phase 2"
  /\ \E e \in Challenges :
       /\ eps' = Append(eps, e)
       /\ aimerSig' = [aimerSig EXCEPT !.h2 = @ \o <<Alphas(rep, e), Vs(rep, e)>>]
  /\ IF rep = Reps THEN rep' = 1 /\ aimerPc' = "reveal" ELSE rep' = rep + 1 /\ aimerPc' = aimerPc
  /\ UNCHANGED <<pt, aimerStream, aimerCt, tapes, covers, checks, held, altered, h1, h2,
                 verdict>>

\* The last loop of crypto_aimer_backend_sign: one party of every repetition stays hidden.
AimerReveal ==
  /\ aimerPc = "reveal"
  /\ \E cover \in 1..AimerParties :
       /\ covers' = Append(covers, cover)
       /\ aimerSig' = [aimerSig EXCEPT !.proofs[rep].commit = Commit(rep, cover, "own"),
                                       !.proofs[rep].alpha = Alphas(rep, eps[rep])[cover]]
  /\ IF rep = Reps THEN rep' = 1 /\ aimerPc' = "alter" /\ held' = Freed(held)
     ELSE rep' = rep + 1 /\ UNCHANGED <<aimerPc, held>>
  /\ UNCHANGED <<pt, aimerStream, aimerCt, tapes, eps, checks, altered, h1, h2, verdict>>

\* On its way one field of one proof may change.
OtherProof ==
  /\ \E r \in 1..Reps :
       \/ \E z \in Errors, i \in 1..Boxes :
            \/ aimerSig' = [aimerSig EXCEPT !.proofs[r].delta.pt = @ ++ z]
            \/ aimerSig' = [aimerSig EXCEPT !.proofs[r].delta.c = @ ++ z]
            \/ aimerSig' = [aimerSig EXCEPT !.proofs[r].delta.t[i] = @ ++ z]
            \/ aimerSig' = [aimerSig EXCEPT !.proofs[r].alpha = @ ++ z]
       \/ aimerSig' = [aimerSig EXCEPT !.proofs[r].commit = <<"other">>]
       \/ aimerSig' = [aimerSig EXCEPT !.proofs[r].path = "other"]
  /\ UNCHANGED <<eps, covers>>
\* Or what all of them share: the salt of every commitment, or a digest, from which the
\* verifier then squeezes other challenges or other hidden parties.
OtherDigest ==
  \/ aimerSig' = [aimerSig EXCEPT !.salt = "other"] /\ UNCHANGED <<eps, covers>>
  \/ /\ aimerSig' = [aimerSig EXCEPT !.h1 = <<"other">>]
     /\ eps' \in [1..Reps -> Challenges] /\ UNCHANGED covers
  \/ /\ aimerSig' = [aimerSig EXCEPT !.h2 = <<"other">>]
     /\ covers' \in [1..Reps -> 1..AimerParties] /\ UNCHANGED eps
Alter ==
  /\ aimerPc = "alter" /\ aimerPc' = "verify"
  /\ \/ UNCHANGED <<aimerSig, altered, eps, covers>>
     \/ altered' = TRUE /\ (OtherProof \/ OtherDigest)
  /\ UNCHANGED <<rep, pt, aimerStream, aimerCt, tapes, checks, held, h1, h2, verdict>>

\* One repetition of crypto_aimer_backend_verify: the hidden party's alpha is taken from the
\* proof, and its v is what makes the sum zero.
HiddenV(vs, hidden) == Total([party \in 1..AimerParties |-> IF party = hidden THEN 0 ELSE vs[party]])
VerifyRep ==
  /\ aimerPc = "verify" /\ rep <= Reps
  /\ LET p == aimerSig.proofs[rep]
         hidden == covers[rep]
         share(party) == Shares(rep, party, p.delta)
         mult == [party \in 1..AimerParties |-> Mpc(share(party).t, AimerStart(party))]
         alphas == [party \in 1..AimerParties |->
                      IF party = hidden THEN p.alpha ELSE AimerAlpha(share(party), mult[party], eps[rep])]
         alpha == Total(alphas)
         vs == [party \in 1..AimerParties |->
                  IF party = hidden THEN 0
                  ELSE V(share(party), mult[party], eps[rep]) ++ (share(party).pt (.) alpha)]
     IN /\ h1' = h1 \o [party \in 1..AimerParties |-> IF party = hidden THEN p.commit ELSE Commit(rep, party, p.path)]
                    \o <<p.delta>>
        /\ h2' = h2 \o <<alphas, [vs EXCEPT ![hidden] = HiddenV(vs, hidden)]>>
  /\ rep' = rep + 1
  /\ UNCHANGED <<aimerPc, pt, aimerStream, aimerCt, tapes, eps, covers, checks, aimerSig,
                 held, altered, verdict>>
\* Both digests are compared.
Matches == h1 = aimerSig.h1 /\ h2 = aimerSig.h2
Compare ==
  /\ aimerPc = "verify" /\ rep > Reps
  /\ aimerPc' = "done" /\ verdict' = (IF Matches THEN "valid" ELSE "invalid")
  /\ UNCHANGED <<rep, pt, aimerStream, aimerCt, tapes, eps, covers, checks, aimerSig, held,
                 altered, h1, h2>>
AimerFinished == aimerPc \in {"done", "failed"} /\ UNCHANGED aimerVars
AimerNext ==
  \/ AimerKeyGen \/ AimerBegin \/ AimerMatrix \/ Phase1 \/ Phase2 \/ AimerReveal \/ Alter \/ VerifyRep \/ Compare \/ AimerFinished
AimerSpec == AimerInit /\ [][AimerNext]_aimerVars

(* ------------------------------- properties ----------------------------- *)
(* For every plaintext, challenge and hidden party the verifier finds the digests of the signer: *)
(* the corrections make every multiplication true, and the hidden share can be computed.         *)
HonestIsAccepted == aimerPc = "done" /\ ~altered => verdict = "valid"

(* A signature with one other field is never accepted, be it of a proof, the salt or a digest:           *)
(* what depends on it is absorbed by a digest that is compared.                                          *)
AlteredIsRejected == altered => verdict # "valid"

(* Whatever allocation fails, nothing that held shares of the key stays allocated.                       *)
NothingIsHeld == aimerPc \in {"alter", "verify", "done", "failed"} => held = {}

=============================================================================
