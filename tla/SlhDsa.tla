------------------------------- MODULE SlhDsa -------------------------------
(*********************************************************************)
(* SLH-DSA: hash addresses, WOTS+ chains, Merkle trees, FORS and the *)
(* hypertree, and how a digest is cut into digits and indices.       *)
(*********************************************************************)
EXTENDS Integers, Sequences, SequencesExt

-----------------------------------------------------------------------------
(*******************************************************************************************)
(* The trees of SLH-DSA (slh_dsa.c): FORS, the one-time signatures and the hypertree, with *)
(* the one address structure that all of them rewrite field by field, signing and          *)
(* verifying.  Hashing is ideal: a value is the number of the query that made it, and a    *)
(* query is an address with the values hashed under it.                                    *)
(*******************************************************************************************)
CONSTANTS
  SlhLayers,  \* d
  Height,  \* hp, the height of one tree of the hypertree
  Chains,  \* len
  Top,     \* w - 1
  Forests, \* k
  Depth,   \* a
  SlhVectors  \* the chain numbers a message may have: sequences of Chains numbers up to Top
ASSUME SlhAssumption ==
  /\ {SlhLayers, Height, Chains, Top, Forests, Depth} \subseteq Nat \ {0}
  /\ SlhVectors \subseteq [1..Chains -> 0..Top]

VARIABLES
  family,  \* "sha2" or "shake": the chains leave different hash addresses behind
  slhM,       \* the address, the queries made so far and a stack of values
  slhPc, slhAt,  \* the step and its loop counter
  tree, leaf, md,  \* what split_digest and base_2b found in the digest
  slhMessage, \* the value that the next tree signs
  digits,  \* the chain numbers of the messages met so far
  slhSig,     \* the signature: first one part per FORS tree, then one per layer
  root     \* PK.root
slhVars == <<family, slhM, slhPc, slhAt, tree, leaf, md, slhMessage, digits, slhSig, root>>

SlhUpTo(n) == [i \in 1..n |-> i - 1]
SlhBit(x, j) == (x \div 2^j) % 2

(* -------------------------------- addresses ----------------------------- *)
SlhZero == [layer |-> 0, tree |-> 0, type |-> "wots hash", pair |-> 0, six |-> 0, seven |-> 0]
Type(v, y) == [v EXCEPT !.a.type = y]
TypeAndClear(v, y) == [v EXCEPT !.a.type = y, !.a.pair = 0, !.a.six = 0, !.a.seven = 0]
TypeAndClearNotPair(v, y) == [v EXCEPT !.a.type = y, !.a.six = 0, !.a.seven = 0]
Pair(v, x) == [v EXCEPT !.a.pair = x]
Six(v, x) == [v EXCEPT !.a.six = x]       \* chain address or tree height
Seven(v, x) == [v EXCEPT !.a.seven = x]   \* hash address or tree index

(* --------------------------------- hashing ------------------------------ *)
Push(v, xs) == [v EXCEPT !.s = @ \o xs]
Last_(v, n) == SubSeq(v.s, Len(v.s) - n + 1, Len(v.s))
Drop(v, n) == [v EXCEPT !.s = SubSeq(@, 1, Len(@) - n)]
\* The top n values are hashed under the address; with none, the secret seed is.
Query(v, n) == <<v.a, Last_(v, n)>>
Hash(v, n) ==
  LET query == Query(v, n)
      known == {i \in 1..Len(v.o) : v.o[i] = query}
      o2 == IF known = {} THEN Append(v.o, query) ELSE v.o
      value == IF known = {} THEN Len(o2) ELSE CHOOSE i \in known : TRUE
  IN [v EXCEPT !.o = o2, !.s = SubSeq(@, 1, Len(@) - n) \o <<value>>]

\* The SHAKE chain writes the hash address of every step into the caller's address, the SHA-2
\* chain into a copy.
ShakeChain(v, i, s) == FoldLeft(LAMBDA w, j : Hash(Seven(w, i + j), 1), v, SlhUpTo(s))
Sha2Chain(v, i, s) == Seven(ShakeChain(v, i, s), i)
Chain(v, i, s) == IF s = 0 THEN v ELSE IF family = "sha2" THEN Sha2Chain(v, i, s) ELSE ShakeChain(v, i, s)
WotsChain(v, s) ==
  Chain(Type(Hash(Seven(Type(v, "wots prf"), 0), 0), "wots hash"), 0, s)
\* fors_hash, of the private value only or of the leaf.
ForsHash(v, s) ==
  LET secret == Hash(Six(Type(v, "fors prf"), 0), 0)
  IN IF s = 1 THEN Hash(Type(secret, "fors tree"), 1) ELSE secret

(* ---------------------------------- trees ------------------------------- *)
\* The loops of xmss_node and fors_node: after leaf number j, the node above for every
\* trailing one bit of j.
Merged(v, clears, i, j) ==
  LET ones == CHOOSE k \in 0..Height + Depth : SlhBit(j, k) = 0 /\ \A l \in 0..k - 1 : SlhBit(j, l) = 1
  IN FoldLeft(LAMBDA w, k :
       LET c == IF clears THEN TypeAndClear(w, "tree") ELSE w
       IN Hash(Seven(Six(c, k + 1), i \div 2^(k + 1)), 2), v, SlhUpTo(ones))

WotsPublic(v, i) ==
  LET chains == FoldLeft(LAMBDA w, k : WotsChain(Six(w, k), Top), Pair(v, i), SlhUpTo(Chains))
  IN Hash(TypeAndClearNotPair(chains, "wots pk"), Chains)
XmssNode(v, i, z) ==
  FoldLeft(LAMBDA w, j : Merged(WotsPublic(w, i * 2^z + j), TRUE, i * 2^z + j, j), v, SlhUpTo(2^z))
FaultyForsNode(v, i, z) ==
  FoldLeft(LAMBDA w, j : Merged(ForsHash(Seven(w, i * 2^z + j), 1), FALSE, j, j), v, SlhUpTo(2^z))
ForsNode(v, i, z) ==
  FoldLeft(LAMBDA w, j : Merged(ForsHash(Seven(w, i * 2^z + j), 1), FALSE, i * 2^z + j, j), v, SlhUpTo(2^z))

\* A sibling on the left or on the right of the value on top of the stack.
Beside(v, x, right) == IF right THEN Push(v, <<x>>) ELSE Push(Drop(v, 1), <<x>> \o Last_(v, 1))
Path(v, idx, name, auth) ==
  FoldLeft(LAMBDA w, k :
    Hash(Beside(Seven(Six(w, k + 1), name \div 2^(k + 1)), auth[k + 1], SlhBit(idx, k) = 0), 2),
    v, SlhUpTo(Len(auth)))

(* ------------------------------- one-time trees ------------------------- *)
\* xmss_sign: the authentication path first, then the chains; both stay on the stack.
XmssSign(v, idx, d) ==
  LET auth == FoldLeft(LAMBDA w, j : XmssNode(w, IF SlhBit(idx, j) = 1 THEN (idx \div 2^j) - 1 ELSE (idx \div 2^j) + 1, j),
                       v, SlhUpTo(Height))
      start == Pair(TypeAndClearNotPair(auth, "wots hash"), idx)
  IN FoldLeft(LAMBDA w, i : WotsChain(Six(w, i), d[i + 1]), start, SlhUpTo(Chains))
\* wots_pk_from_sig: the signature's chains climbed to their ends, and hashed into one value.
WotsPkFromSig(v, wots, d) ==
  LET ends == FoldLeft(LAMBDA w, i : Chain(Push(Six(w, i), <<wots[i + 1]>>), d[i + 1], Top - d[i + 1]),
                       v, SlhUpTo(Chains))
  IN Hash(TypeAndClearNotPair(ends, "wots pk"), Chains)
\* xmss_pk_from_sig
XmssPkFromSig(v, idx, part, d) ==
  LET public == WotsPkFromSig(Pair(TypeAndClearNotPair(v, "wots hash"), idx), part.wots, d)
  IN Path(TypeAndClear(public, "tree"), idx, idx, part.auth)

(* --------------------------------- actions ------------------------------ *)
SlhInit ==
  /\ family \in {"sha2", "shake"}
  /\ tree \in 0..2^(Height * (SlhLayers - 1)) - 1 /\ leaf \in 0..2^Height - 1
  /\ md \in [1..Forests -> 0..2^Depth - 1]
  /\ slhM = [a |-> SlhZero, o |-> <<>>, s |-> <<>>]
  /\ slhPc = "keygen" /\ slhAt = 0 /\ slhMessage = 0 /\ digits = <<>> /\ slhSig = <<>> /\ root = 0

\* slh_keygen_internal
SlhKeyGen ==
  /\ slhPc = "keygen"
  /\ LET v == XmssNode([slhM EXCEPT !.a = [SlhZero EXCEPT !.layer = SlhLayers - 1]], 0, Height)
     IN root' = v.s[1] /\ slhM' = Drop(v, 1)
  /\ slhPc' = "address" /\ UNCHANGED <<family, slhAt, tree, leaf, md, slhMessage, digits,
                                       slhSig>>

\* slh_sign_digest and slh_verify_digest start alike.
SlhStart ==
  /\ slhPc \in {"address", "verify"}
  /\ slhM' = Pair(TypeAndClearNotPair([slhM EXCEPT !.a = [SlhZero EXCEPT !.tree = tree]], "fors tree"), leaf)
  /\ slhPc' = (IF slhPc = "address" THEN "fors sign" ELSE "check fors") /\ slhAt' = 0
  /\ UNCHANGED <<family, tree, leaf, md, slhMessage, digits, slhSig, root>>

\* One pass of fors_sign.
ForsSign ==
  /\ slhPc = "fors sign" /\ slhAt < Forests
  /\ LET x == md[slhAt + 1]
         secret == ForsHash(Seven(slhM, (slhAt * 2^Depth) + x), 0)
         v == FoldLeft(LAMBDA w, j :
                ForsNode(w, (slhAt * 2^(Depth - j)) + (IF SlhBit(x, j) = 1 THEN (x \div 2^j) - 1 ELSE (x \div 2^j) + 1), j),
                secret, SlhUpTo(Depth))
         out == Last_(v, Depth + 1)
     IN /\ slhSig' = Append(slhSig, [secret |-> Head(out), auth |-> Tail(out)])
        /\ slhM' = Drop(v, Depth + 1)
  /\ slhAt' = slhAt + 1 /\ UNCHANGED <<family, slhPc, tree, leaf, md, slhMessage, digits, root>>

ForsPkFromSig(v, parts) ==
  LET one(w, i) ==
        LET idx == (i * 2^Depth) + md[i + 1]
            first == Hash(Push(Seven(Six(w, 0), idx), <<parts[i + 1].secret>>), 1)
        IN Path(first, md[i + 1], idx, parts[i + 1].auth)
  IN Hash(TypeAndClearNotPair(FoldLeft(one, v, SlhUpTo(Forests)), "fors roots"), Forests)
\* fors_pk_from_sig, and the first lines of ht_sign and ht_verify.
ForsPublic ==
  /\ (slhPc = "fors sign" /\ slhAt = Forests) \/ slhPc = "check fors"
  /\ LET v == ForsPkFromSig(slhM, slhSig)
     IN slhMessage' = Last_(v, 1)[1] /\ slhM' = [Drop(v, 1) EXCEPT !.a = [SlhZero EXCEPT !.tree = tree]]
  /\ slhPc' = (IF slhPc = "fors sign" THEN "sign" ELSE "check") /\ slhAt' = 0
  /\ UNCHANGED <<family, tree, leaf, md, digits, slhSig, root>>

\* Where layer j signs: its tree and its leaf.
TreeAt(j) == tree \div 2^(Height * j)
LeafAt(j) == IF j = 0 THEN leaf ELSE TreeAt(j - 1) % 2^Height
Layer(v, j) == [v EXCEPT !.a.layer = j, !.a.tree = TreeAt(j)]

\* The chain numbers of a message are found when it is first met.
Known == slhMessage \in {digits[i].value : i \in 1..Len(digits)}
Of(x) == digits[CHOOSE i \in 1..Len(digits) : digits[i].value = x].digits
Digest ==
  /\ slhPc \in {"sign", "check"} /\ slhAt < SlhLayers /\ ~Known
  /\ \E d \in SlhVectors : digits' = Append(digits, [value |-> slhMessage, digits |-> d])
  /\ UNCHANGED <<family, slhM, slhPc, slhAt, tree, leaf, md, slhMessage, slhSig, root>>

\* One layer of ht_sign; every layer but the last also makes the message of the next.
SignLayer ==
  /\ slhPc = "sign" /\ slhAt < SlhLayers /\ Known
  /\ LET d == Of(slhMessage)
         v == XmssSign(slhM, LeafAt(slhAt), d)
         out == Last_(v, Height + Chains)
         part == [auth |-> SubSeq(out, 1, Height), wots |-> SubSeq(out, Height + 1, Height + Chains)]
         clear == Drop(v, Height + Chains)
         next == XmssPkFromSig(clear, LeafAt(slhAt), part, d)
     IN /\ slhSig' = Append(slhSig, part)
        /\ IF slhAt = SlhLayers - 1
           THEN slhM' = clear /\ slhPc' = "verify" /\ slhAt' = 0 /\ slhMessage' = 0
           ELSE /\ slhM' = Layer(Drop(next, 1), slhAt + 1) /\ slhMessage' = Last_(next, 1)[1]
                /\ slhAt' = slhAt + 1 /\ slhPc' = slhPc
  /\ UNCHANGED <<family, tree, leaf, md, digits, root>>

\* One layer of ht_verify.
CheckLayer ==
  /\ slhPc = "check" /\ slhAt < SlhLayers /\ Known
  /\ LET v == XmssPkFromSig(slhM, LeafAt(slhAt), slhSig[Forests + slhAt + 1], Of(slhMessage))
     IN slhMessage' = Last_(v, 1)[1]
        /\ slhM' = (IF slhAt = SlhLayers - 1 THEN Drop(v, 1) ELSE Layer(Drop(v, 1), slhAt + 1))
  /\ slhAt' = slhAt + 1 /\ UNCHANGED <<family, slhPc, tree, leaf, md, digits, slhSig, root>>

SlhFinished == slhPc = "check" /\ slhAt = SlhLayers /\ UNCHANGED slhVars
SlhNext == SlhKeyGen \/ SlhStart \/ ForsSign \/ ForsPublic \/ Digest \/ SignLayer \/ CheckLayer \/ SlhFinished
SlhSpec == SlhInit /\ [][SlhNext]_slhVars

(* ------------------------------- properties ----------------------------- *)
(* Whatever leaf and whatever FORS indices the digest asks for, the chain of roots that the *)
(* verifier climbs ends at the root that key generation published.                          *)
OwnSignatureVerifies == slhPc = "check" /\ slhAt = SlhLayers => slhMessage = root

(* Key generation, signing and verification never hash two different inputs under one address: *)
(* what an address field holds from an earlier step never makes two places of the forest one.  *)
AddressesSeparate == \A i, j \in 1..Len(slhM.o) : slhM.o[i][1] = slhM.o[j][1] => i = j

Queries == slhM.o
(* Verification hashes nothing that signing or key generation has not hashed: it walks exactly *)
(* the nodes of the signer, under the signer's addresses.                                      *)
VerifierWalksSigner ==
  [][(slhPc \in {"check fors", "check"}) => UNCHANGED Queries]_slhVars


-----------------------------------------------------------------------------
(********************************************************************************************)
(* The numbers that SLH-DSA takes out of a digest (slh_dsa.c): the chain numbers of a       *)
(* one-time signature with their checksum, the FORS indices, the tree and the leaf; and the *)
(* digest itself, made block by block by MGF1 (slh_sha2.c).                                 *)
(********************************************************************************************)
CONSTANTS
  ByteBits, \* bits in a byte
  DigestN,        \* bytes of a message of a one-time signature
  LgW,      \* bits of a chain number
  DigestK, A,     \* FORS trees and the bits of an index
  H, HP,    \* height of the hypertree and of one of its trees
  Block     \* bytes of a hash value in MGF1
ASSUME DigestAssumption ==
  /\ {ByteBits, DigestN, LgW, DigestK, A, H, HP, Block} \subseteq Nat \ {0}
  /\ LgW > 1 /\ LgW <= ByteBits /\ HP <= H

VARIABLES
  digestJob,     \* "wots", "indices" or "mgf"
  digestBytes,   \* the message or the digest
  digestOther,   \* a second message
  digestV, v2,   \* numbers out so far
  digestJ, digestL, digestT, \* base_2b: bytes read, bits kept, the accumulator
  digestPc
digestVars == <<digestJob, digestBytes, digestOther, digestV, v2, digestJ, digestL, digestT,
                digestPc>>

DigestByte == 0..2^ByteBits - 1
BytesFor(bits) == (bits + ByteBits - 1) \div ByteBits
DigestUpTo(n) == [i \in 1..n |-> i - 1]
\* slh_toint
ToInt(x) == FoldLeft(LAMBDA acc, b : (acc * 2^ByteBits) + b, 0, x)
\* slh_tobyte: the low n bytes, the most significant first.
ToByte(x, n) == [i \in 1..n |-> (x \div 2^(ByteBits * (n - i))) % 2^ByteBits]

Len1 == ((ByteBits * DigestN) + LgW - 1) \div LgW
\* gen_len2: the loop that grows the capacity until the largest checksum fits.
Len2 ==
  LET maxs == Len1 * (2^LgW - 1)
  IN CHOOSE n \in 1..Len1 : 2^(LgW * n) >= maxs /\ \A k \in 1..n - 1 : 2^(LgW * k) < maxs

\* base_2b: bytes are read until enough bits are kept; the accumulator is a 32-bit word, of
\* which the kept bits are the low ones.
Take(s, b, x) ==
  LET more == IF s.l < b THEN BytesFor(b - s.l) ELSE 0
      acc == (s.t * 2^(ByteBits * more)) + ToInt(SubSeq(x, s.j + 1, s.j + more))
      left == s.l + (ByteBits * more) - b
  IN [j |-> s.j + more, l |-> left, t |-> acc % 2^left, v |-> Append(s.v, (acc \div 2^left) % 2^b)]
Base(x, b, n) == FoldLeft(LAMBDA s, i : Take(s, b, x), [j |-> 0, l |-> 0, t |-> 0, v |-> <<>>], DigestUpTo(n)).v
\* wots_csum: the checksum is moved to the top of its bytes before it is cut up.
Checksum(d) ==
  LET csum == FoldLeft(LAMBDA acc, x : acc + (2^LgW - 1) - x, 0, d)
      shift == (ByteBits - ((Len2 * LgW) % ByteBits)) % ByteBits
  IN Base(ToByte(csum * 2^shift, BytesFor(Len2 * LgW)), LgW, Len2)
ChainNumbers(x) == LET d == Base(x, LgW, Len1) IN d \o Checksum(d)

\* split_digest
TreeIndex(x) ==
  ToInt(SubSeq(x, BytesFor(DigestK * A) + 1, BytesFor(DigestK * A) + BytesFor(H - HP))) % 2^(H - HP)
LeafIndex(x) ==
  LET from == BytesFor(DigestK * A) + BytesFor(H - HP)
  IN ToInt(SubSeq(x, from + 1, from + BytesFor(HP))) % 2^HP
\* The bytes of a digest, prm->m.
M == BytesFor(DigestK * A) + BytesFor(H - HP) + BytesFor(HP)

DigestFresh == digestV = <<>> /\ v2 = <<>> /\ digestJ = 0 /\ digestL = 0 /\ digestT = 0
DigestInit ==
  /\ DigestFresh
  /\ \/ digestJob = "wots" /\ digestBytes \in [1..DigestN -> DigestByte] /\ digestOther \in [1..DigestN -> DigestByte] /\ digestPc = "start"
     \/ digestJob = "indices" /\ digestBytes \in [1..M -> DigestByte] /\ digestOther = <<>> /\ digestPc = "run"
     \/ digestJob = "mgf" /\ digestBytes = <<>> /\ digestOther \in {[i \in 1..n |-> i] : n \in 1..4 * Block} /\ digestPc = "run"

Wots ==
  /\ digestPc = "start" /\ digestV' = ChainNumbers(digestBytes) /\ v2' = ChainNumbers(digestOther) /\ digestPc' = "done"
  /\ UNCHANGED <<digestJob, digestBytes, digestOther, digestJ, digestL, digestT>>
\* One pass of base_2b in fors_sign, and split_digest at the end.
DigestIndex ==
  /\ digestPc = "run" /\ digestJob = "indices"
  /\ IF Len(digestV) < DigestK
     THEN LET s == Take([j |-> digestJ, l |-> digestL, t |-> digestT, v |-> digestV], A, digestBytes)
          IN digestV' = s.v /\ digestJ' = s.j /\ digestL' = s.l /\ digestT' = s.t /\ UNCHANGED <<v2, digestPc>>
     ELSE v2' = <<TreeIndex(digestBytes), LeafIndex(digestBytes)>> /\ digestPc' = "done" /\ UNCHANGED <<digestV, digestJ, digestL, digestT>>
  /\ UNCHANGED <<digestJob, digestBytes, digestOther>>

\* One pass of MGF1: the counter block j gives Block bytes, or fewer at the end.  other is as
\* long as the digest wanted; a byte of v is the counter and its place in the block.
Copied(left) == IF left >= Block THEN Block ELSE left
Mgf ==
  /\ digestPc = "run" /\ digestJob = "mgf"
  /\ IF digestJ * Block < Len(digestOther)
     THEN /\ digestV' = digestV \o [i \in 1..Copied(Len(digestOther) - (digestJ * Block)) |-> <<digestJ, i>>]
          /\ digestJ' = digestJ + 1 /\ UNCHANGED digestPc
     ELSE digestPc' = "done" /\ UNCHANGED <<digestV, digestJ>>
  /\ UNCHANGED <<digestJob, digestBytes, digestOther, v2, digestL, digestT>>
DigestFinished == digestPc = "done" /\ UNCHANGED digestVars
DigestNext == Wots \/ DigestIndex \/ Mgf \/ DigestFinished
DigestSpec == DigestInit /\ [][DigestNext]_digestVars

(* ------------------------------- properties ----------------------------- *)
(* Two messages never have chain numbers of which one set is nowhere above the other: whoever *)
(* signed one message can not climb the chains to a signature of the other.                   *)
ChecksumForbidsClimbing ==
  digestJob = "wots" /\ digestPc = "done" /\ digestBytes # digestOther =>
    \E i, k \in 1..Len(digestV) : digestV[i] < v2[i] /\ digestV[k] > v2[k]

(* The FORS indices are the bits of the digest in order, A at a time, whatever the phase of a *)
(* byte an index starts in.                                                                   *)
IndicesAreTheBits ==
  LET bit(k) == (digestBytes[(k \div ByteBits) + 1] \div 2^(ByteBits - 1 - (k % ByteBits))) % 2
  IN digestJob = "indices" => \A i \in 1..Len(digestV) : \A k \in 0..A - 1 : (digestV[i] \div 2^(A - 1 - k)) % 2 = bit(((i - 1) * A) + k)

(* The digest names a tree and a leaf that exist, and every tree and leaf can be named: the last *)
(* bits of their own bytes.                                                                      *)
PlaceExists ==
  digestJob = "indices" /\ digestPc = "done" =>
    /\ v2[1] \in 0..2^(H - HP) - 1 /\ v2[2] \in 0..2^HP - 1
    /\ \A k \in 0..HP - 1 : (v2[2] \div 2^k) % 2 = (digestBytes[M - (k \div ByteBits)] \div 2^(k % ByteBits)) % 2

(* MGF1 writes exactly the digest: every block in order, the last one cut.                          *)
DigestIsFilled ==
  digestJob = "mgf" =>
    /\ Len(digestV) <= Len(digestOther) /\ (digestPc = "done" => Len(digestV) = Len(digestOther))
    /\ \A i \in 1..Len(digestV) : digestV[i] = <<(i - 1) \div Block, ((i - 1) % Block) + 1>>

=============================================================================
