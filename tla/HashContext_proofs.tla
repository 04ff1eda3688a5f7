------------------------- MODULE HashContext_proofs -------------------------
(***************************************************************************)
(* Proofs about HashContext, for every set of algorithms, every block      *)
(* length, every length-field width and every bound.                       *)
(***************************************************************************)
EXTENDS HashContext, ProofLemmas

BlockArray == [1 .. MaxBlock -> Byte]

(* Bytes are numbers.                                                      *)
LEMMA ByteSeq == Seq(Byte) \subseteq Seq(Nat)
BY HashConstants DEF Byte

(* The part of BLOCK in use.                                               *)
LEMMA TakeBlock ==
    ASSUME NEW block \in BlockArray, NEW n \in 0 .. MaxBlock
    PROVE  /\ SubSeq(block, 1, n) \in Seq(Byte)
           /\ Len(SubSeq(block, 1, n)) = n
           /\ \A j \in 1 .. n : SubSeq(block, 1, n)[j] = block[j]
BY ContextConstants DEF BlockArray

(* memcpy into BLOCK puts the bytes where they belong and keeps the rest.  *)
LEMMA PutBytes ==
    ASSUME NEW block \in BlockArray, NEW at \in Nat, NEW b \in Seq(Byte)
    PROVE  /\ Put(block, at, b) \in BlockArray
           /\ \A j \in 1 .. MaxBlock :
                 Put(block, at, b)[j]
                   = IF j > at /\ j <= at + Len(b) THEN b[j - at] ELSE block[j]
BY DEF BlockArray, Put

(* Bytes copied right behind those in use extend them.                     *)
LEMMA PutExtends ==
    ASSUME NEW block \in BlockArray, NEW at \in 0 .. MaxBlock, NEW b \in Seq(Byte),
           at + Len(b) <= MaxBlock
    PROVE  SubSeq(Put(block, at, b), 1, at + Len(b)) = SubSeq(block, 1, at) \o b
<1> DEFINE n     == at + Len(b)
           left  == SubSeq(Put(block, at, b), 1, n)
           taken == SubSeq(block, 1, at)
           put   == Put(block, at, b)
<1>1. at \in Nat /\ Len(b) \in Nat /\ MaxBlock \in Nat /\ n \in 0 .. MaxBlock
  BY ContextConstants
<1>2. /\ put \in BlockArray
      /\ \A j \in 1 .. MaxBlock :
            put[j] = IF j > at /\ j <= at + Len(b) THEN b[j - at] ELSE block[j]
  BY <1>1, PutBytes
<1> HIDE DEF put
<1>3. /\ left \in Seq(Byte) /\ Len(left) = n
      /\ \A j \in 1 .. n : left[j] = put[j]
  BY <1>1, <1>2, TakeBlock DEF put
<1>4. /\ taken \in Seq(Byte) /\ Len(taken) = at
      /\ \A j \in 1 .. at : taken[j] = block[j]
  BY TakeBlock
<1> HIDE DEF left, taken
<1>5. /\ taken \o b \in Seq(Byte)
      /\ Len(taken \o b) = Len(taken) + Len(b)
      /\ \A j \in 1 .. Len(taken) + Len(b) :
            (taken \o b)[j] = IF j <= Len(taken) THEN taken[j] ELSE b[j - Len(taken)]
  BY <1>4, ConcatProperties
<1>6. ASSUME NEW j \in 1 .. n
      PROVE  left[j] = (taken \o b)[j]
  <2>1. j \in Nat /\ j \in 1 .. MaxBlock /\ j <= at + Len(b)
    BY <1>1
  <2>2. CASE j <= at
    BY <1>1, <1>2, <1>3, <1>4, <1>5, <2>1, <2>2
  <2>3. CASE ~(j <= at)
    <3>1. left[j] = b[j - at]
      BY <1>1, <1>2, <1>3, <2>1, <2>3
    <3>2. (taken \o b)[j] = b[j - at]
      BY <1>1, <1>4, <1>5, <2>1, <2>3
    <3> QED
      BY <3>1, <3>2, Zenon
  <2> QED
    BY <2>2, <2>3, Zenon
<1>7. left = taken \o b
  <2>1. Len(left) = Len(taken \o b)
    BY <1>3, <1>4, <1>5
  <2> QED
    BY <1>3, <1>5, <1>6, <2>1, SeqEqual
<1> QED
  BY <1>7 DEF left, taken

(* The whole blocks of n bytes, and what is left.                          *)
LEMMA WholeBlocks ==
    ASSUME NEW n \in Nat, NEW B \in Nat \ {0}
    PROVE  /\ Whole(n, B) \in 0 .. n
           /\ n - Whole(n, B) < B
           /\ Whole(n, B) % B = 0
BY WholeIsMultiple, Division DEF Whole

(* What a context has taken in: the bytes compressed, then those waiting.  *)
Taken(s) == s.fed \o SubSeq(s.block, 1, s.used)

(* Context t is what s becomes by taking in the input, in blocks of B.     *)
TakesIn(B, s, input, t) ==
    /\ t \in State
    /\ t.used < B
    /\ Len(t.fed) % B = 0
    /\ Taken(t) = Taken(s) \o input

(* crypto_sha1_update, crypto_sha2_update and crypto_lsh_update: topping up*)
(* the partial block, compressing whole blocks from the input and keeping  *)
(* the tail append exactly the input to what was taken in.                 *)
LEMMA BufferedKeepsInput ==
    ASSUME NEW B \in 1 .. MaxBlock, NEW s \in State, NEW input \in Seq(Byte),
           s.used < B, Len(s.fed) % B = 0
    PROVE  TakesIn(B, s, input, AbsorbBuffered(B, s, input))
<1> DEFINE t      == AbsorbBuffered(B, s, input)
           copied == IF s.used = 0 THEN 0
                     ELSE IF Len(input) < B - s.used THEN Len(input) ELSE B - s.used
           filled == Put(s.block, s.used, SubSeq(input, 1, copied))
           rest   == Drop(input, copied)
           whole  == Whole(Len(rest), B)
           tail   == Drop(rest, whole)
           head   == IF s.used + copied = B THEN SubSeq(filled, 1, B) ELSE <<>>
           direct == SubSeq(rest, 1, whole)
           top    == SubSeq(input, 1, copied)
           wait   == SubSeq(s.block, 1, s.used)
           kept   == Put(filled, 0, tail)
           used   == IF tail # <<>> THEN Len(tail)
                     ELSE IF s.used + copied = B THEN 0 ELSE s.used + copied
<1>1. t = [s EXCEPT !.fed = (@ \o head) \o direct, !.block = kept, !.used = used]
  BY DEF AbsorbBuffered
<1> HIDE DEF t
<1>2. /\ s.fed \in Seq(Nat) /\ s.block \in BlockArray /\ s.used \in Nat
      /\ B \in Nat \ {0} /\ B <= MaxBlock /\ MaxBlock \in Nat
      /\ Len(s.fed) \in Nat /\ Len(input) \in Nat
  BY ContextConstants DEF State, BlockArray
<1>3. copied \in 0 .. Len(input) /\ s.used + copied <= B
  BY <1>2
<1>4. /\ s.used = 0 => copied = 0
      /\ s.used + copied = B \/ s.used = 0 \/ copied = Len(input)
  BY <1>2
<1> HIDE DEF copied
<1>5. /\ top \in Seq(Byte) /\ Len(top) = copied
      /\ rest \in Seq(Byte) /\ Len(rest) = Len(input) - copied
      /\ input = top \o rest
  <2> HIDE DEF top, rest
  <2>1. /\ SubSeq(input, 1, copied) \in Seq(Byte)
        /\ Len(SubSeq(input, 1, copied)) = copied
        /\ SubSeq(input, copied + 1, Len(input)) \in Seq(Byte)
        /\ Len(SubSeq(input, copied + 1, Len(input))) = Len(input) - copied
        /\ input = SubSeq(input, 1, copied) \o SubSeq(input, copied + 1, Len(input))
    BY ZenonT(40), <1>3, TakeDrop
  <2> QED
    BY <2>1, Zenon DEF top, rest, Drop
<1> HIDE DEF rest
<1>6. Len(rest) \in Nat /\ whole \in 0 .. Len(rest) /\ Len(rest) - whole < B /\ whole % B = 0
  <2>1. Len(rest) \in Nat /\ B \in Nat \ {0}
    BY <1>2, <1>5
  <2> QED
    BY <2>1, WholeBlocks
<1> HIDE DEF whole
<1>7. /\ direct \in Seq(Byte) /\ Len(direct) = whole
      /\ tail \in Seq(Byte) /\ Len(tail) = Len(rest) - whole
      /\ rest = direct \o tail
  BY <1>5, <1>6, TakeDrop DEF Drop
<1> HIDE DEF direct, tail
<1>8. wait \in Seq(Byte) /\ Len(wait) = s.used
  <2>1. s.used \in 0 .. MaxBlock
    BY DEF State
  <2> QED
    BY <1>2, <2>1, TakeBlock
<1>9. /\ filled \in BlockArray
      /\ SubSeq(filled, 1, s.used + copied) = wait \o top
  <2>1. s.used \in 0 .. MaxBlock /\ s.used + Len(top) <= MaxBlock
    BY <1>2, <1>3, <1>5
  <2> HIDE DEF top
  <2>2. filled = Put(s.block, s.used, top)
    BY DEF top
  <2>3. filled \in BlockArray
    BY <1>2, <1>5, <2>2, PutBytes
  <2>4. SubSeq(Put(s.block, s.used, top), 1, s.used + Len(top))
          = SubSeq(s.block, 1, s.used) \o top
    BY <1>2, <1>5, <2>1, PutExtends
  <2> HIDE DEF filled
  <2> QED
    BY <1>5, <2>2, <2>3, <2>4
<1> HIDE DEF filled, top, wait
<1>10. /\ kept \in BlockArray
       /\ SubSeq(kept, 1, Len(tail)) = tail
  BY SMTT(20), <1>2, <1>6, <1>7, <1>9, PutBytes, PutExtends
<1>11. tail = <<>> => kept = filled
  BY <1>9 DEF Put, BlockArray
<1> HIDE DEF kept
<1>12. used \in 0 .. B - 1
  <2>1. Len(tail) \in 0 .. B - 1
    BY <1>2, <1>6, <1>7
  <2>2. s.used + copied # B => s.used + copied \in 0 .. B - 1
    BY <1>2, <1>3
  <2>3. 0 \in 0 .. B - 1
    BY <1>2
  <2> QED
    BY <2>1, <2>2, <2>3, Zenon
<1> HIDE DEF head, used
<1>13. /\ head \in Seq(Byte)
       /\ s.used + copied = B => head = wait \o top /\ Len(head) = B
       /\ s.used + copied # B => head = <<>> /\ Len(head) = 0
  <2>1. CASE s.used + copied = B
    <3>1. head = SubSeq(filled, 1, B)
      BY <2>1 DEF head
    <3>2. SubSeq(filled, 1, B) = wait \o top
      BY <1>9, <2>1
    <3>3. SubSeq(filled, 1, B) \in Seq(Byte) /\ Len(SubSeq(filled, 1, B)) = B
      <4>1. B \in 0 .. MaxBlock /\ filled \in BlockArray
        BY <1>2, <1>9
      <4> QED
        BY <4>1, TakeBlock
    <3> QED
      BY <2>1, <3>1, <3>2, <3>3
  <2>2. CASE ~(s.used + copied = B)
    BY <2>2 DEF head
  <2> QED
    BY <2>1, <2>2, Zenon
<1>14. /\ s.fed \o head \in Seq(Nat)
       /\ (s.fed \o head) \o direct \in Seq(Nat)
       /\ Len((s.fed \o head) \o direct) = (Len(s.fed) + Len(head)) + whole
  <2>1. head \in Seq(Nat) /\ direct \in Seq(Nat)
    BY <1>7, <1>13, ByteSeq
  <2>2. /\ s.fed \o head \in Seq(Nat)
        /\ Len(s.fed \o head) = Len(s.fed) + Len(head)
    BY <1>2, <2>1, ConcatProperties
  <2>3. /\ (s.fed \o head) \o direct \in Seq(Nat)
        /\ Len((s.fed \o head) \o direct) = Len(s.fed \o head) + Len(direct)
    BY <2>1, <2>2, ConcatProperties
  <2> QED
    BY <1>7, <2>2, <2>3
<1>15. /\ t.fed = (s.fed \o head) \o direct
       /\ t.block = kept
       /\ t.used = used
       /\ t \in State
  <2> DEFINE fed == (s.fed \o head) \o direct
  <2>1. fed \in Seq(Nat)
    BY <1>14
  <2>2. kept \in [1 .. MaxBlock -> Byte]
    BY <1>10 DEF BlockArray
  <2>3. used \in 0 .. MaxBlock
    BY <1>2, <1>12
  <2>4. t = [s EXCEPT !.fed = fed, !.block = kept, !.used = used]
    BY <1>1
  <2> HIDE DEF fed
  <2>5. t.fed = fed /\ t.block = kept /\ t.used = used /\ t \in State
    BY <2>1, <2>2, <2>3, <2>4 DEF State
  <2> QED
    BY <2>5 DEF fed
<1>16. Len(t.fed) % B = 0
  <2>1. Len(head) \in Nat /\ Len(head) % B = 0
    <3>1. B % B = 0 /\ 0 % B = 0
      BY <1>2
    <3> QED
      BY <1>2, <1>13, <3>1
  <2>2. Len(s.fed) \in Nat /\ B \in Nat \ {0}
    BY <1>2
  <2>4. Len(s.fed) % B = 0
    OBVIOUS
  <2>5. whole \in Nat /\ whole % B = 0
    BY <1>6
  <2>3. ((Len(s.fed) + Len(head)) + whole) % B = 0
    BY <2>1, <2>2, <2>4, <2>5, ThreeMultiplesAdd
  <2> QED
    BY <1>14, <1>15, <2>3
<1>17. Taken(t) = Taken(s) \o input
  <2>1. /\ wait \in Seq(Nat) /\ top \in Seq(Nat)
        /\ direct \in Seq(Nat) /\ tail \in Seq(Nat)
    BY <1>5, <1>7, <1>8, ByteSeq
  <2>2. Taken(s) = s.fed \o wait
    BY DEF Taken, wait
  <2>3. input = top \o (direct \o tail)
    BY <1>5, <1>7
  <2>4. ((s.fed \o (wait \o top)) \o direct) \o tail = Taken(s) \o input
    <3>1. s.fed \in Seq(Nat)
      BY <1>2
    <3>2. Cat(Cat(Cat(s.fed, Cat(wait, top)), direct), tail)
            = Cat(Cat(s.fed, wait), Cat(top, Cat(direct, tail)))
      BY <2>1, <3>1, Regroup
    <3>3. ((s.fed \o (wait \o top)) \o direct) \o tail
            = (s.fed \o wait) \o (top \o (direct \o tail))
      BY <3>2 DEF Cat
    <3> QED
      BY <2>2, <2>3, <3>3, Zenon
  <2>5. CASE s.used + copied = B \/ s.used = 0
    <3>1. used = Len(tail)
      <4>1. tail = <<>> => Len(tail) = 0
        OBVIOUS
      <4>2. s.used + copied # B => s.used + copied = 0
        BY <1>2, <1>4, <2>5
      <4> QED
        BY <4>1, <4>2 DEF used
    <3>2. head = wait \o top
      <4>1. CASE s.used + copied = B
        BY <1>13, <4>1
      <4>2. CASE s.used = 0 /\ s.used + copied # B
        <5>1. Len(wait) = 0 /\ Len(top) = 0 /\ head = <<>>
          BY <1>4, <1>5, <1>8, <1>13, <4>2
        <5>2. wait = <<>> /\ top = <<>>
          BY <2>1, <5>1, EmptySeq
        <5>3. <<>> \o <<>> = <<>>
          OBVIOUS
        <5> QED
          BY <5>1, <5>2, <5>3
      <4> QED
        BY <2>5, <4>1, <4>2
    <3>3. Taken(t) = ((s.fed \o head) \o direct) \o tail
      BY <1>10, <1>15, <3>1 DEF Taken
    <3> QED
      BY <2>4, <3>2, <3>3
  <2>6. CASE ~(s.used + copied = B \/ s.used = 0)
    <3>1. direct = <<>> /\ tail = <<>> /\ head = <<>>
      <4>1. Len(rest) = 0
        BY <1>2, <1>4, <1>5, <2>6
      <4>2. Len(direct) = 0 /\ Len(tail) = 0
        <5>1. whole = 0
          BY <1>6, <4>1
        <5> QED
          BY <1>7, <4>1, <5>1
      <4>3. direct = <<>> /\ tail = <<>>
        BY <2>1, <4>2, EmptySeq
      <4> QED
        BY <1>13, <2>6, <4>3
    <3>2. used = s.used + copied /\ kept = filled
      BY <1>11, <2>6, <3>1 DEF used
    <3>3. Taken(t) = ((s.fed \o <<>>) \o <<>>) \o (wait \o top)
      BY <1>9, <1>15, <3>1, <3>2 DEF Taken
    <3>4. input = top
      BY <2>1, <2>3, <3>1, ConcatEmptySeq
    <3>5. (s.fed \o <<>>) \o <<>> = s.fed
      BY <1>2, ConcatEmptySeq
    <3>6. s.fed \o (wait \o top) = (s.fed \o wait) \o top
      <4>1. Cat(Cat(s.fed, wait), top) = Cat(s.fed, Cat(wait, top))
        <5>1. s.fed \in Seq(Nat) /\ wait \in Seq(Nat) /\ top \in Seq(Nat)
          BY <1>2, <2>1
        <5> QED
          BY <5>1, Associative
      <4> QED
        BY <4>1 DEF Cat
    <3> QED
      BY <2>2, <3>3, <3>4, <3>5, <3>6, Zenon
  <2> QED
    BY <2>5, <2>6, Zenon
<1>18. t.used < B
  BY <1>2, <1>12, <1>15
<1>19. t \in State
  BY <1>15
<1> QED
  BY <1>16, <1>17, <1>18, <1>19 DEF TakesIn, t

(* crypto_sha3_update: absorbing byte by byte and permuting at the rate    *)
(* appends exactly the input too.                                          *)
LEMMA SpongeKeepsInput ==
    ASSUME NEW R \in 1 .. MaxBlock, NEW s \in State, NEW input \in Seq(Byte),
           s.used < R, Len(s.fed) % R = 0
    PROVE  TakesIn(R, s, input, AbsorbSponge(R, s, input))
<1> DEFINE t       == AbsorbSponge(R, s, input)
           wait    == SubSeq(s.block, 1, s.used)
           pending == wait \o input
           whole   == Whole(Len(pending), R)
           front   == SubSeq(pending, 1, whole)
           tail    == Drop(pending, whole)
           fed     == s.fed \o front
           kept    == Put(Fill(MaxBlock), 0, tail)
<1>1. t = [s EXCEPT !.fed = fed, !.block = kept, !.used = Len(tail)]
  BY DEF AbsorbSponge
<1> HIDE DEF t
<1>2. /\ s.fed \in Seq(Nat) /\ s.block \in BlockArray /\ s.used \in 0 .. MaxBlock
      /\ R \in Nat \ {0} /\ R <= MaxBlock /\ MaxBlock \in Nat
      /\ Len(s.fed) \in Nat
  BY ContextConstants DEF State, BlockArray
<1>3. wait \in Seq(Byte)
  BY <1>2, TakeBlock
<1> HIDE DEF wait
<1>4. pending \in Seq(Byte) /\ Len(pending) \in Nat
  BY <1>3, ConcatProperties
<1> HIDE DEF pending
<1>5. whole \in 0 .. Len(pending) /\ Len(pending) - whole < R /\ whole % R = 0
  BY <1>2, <1>4, WholeBlocks
<1> HIDE DEF whole
<1>6. /\ front \in Seq(Byte) /\ Len(front) = whole
      /\ tail \in Seq(Byte) /\ Len(tail) = Len(pending) - whole
      /\ pending = front \o tail
  BY ZenonT(40), <1>4, <1>5, TakeDrop DEF Drop
<1> HIDE DEF front, tail
<1>7. Len(tail) \in 0 .. R - 1
  BY <1>2, <1>4, <1>5, <1>6
<1>8. Fill(MaxBlock) \in BlockArray
  BY HashConstants DEF Fill, BlockArray, Byte
<1>9. kept \in BlockArray
  BY <1>6, <1>8, PutBytes
<1>10. SubSeq(kept, 1, Len(tail)) = tail
  <2>1. 0 \in 0 .. MaxBlock /\ 0 + Len(tail) <= MaxBlock /\ 0 + Len(tail) = Len(tail)
    BY <1>2, <1>7
  <2>2. SubSeq(kept, 1, 0 + Len(tail)) = SubSeq(Fill(MaxBlock), 1, 0) \o tail
    BY <1>6, <1>8, <2>1, PutExtends
  <2>3. SubSeq(Fill(MaxBlock), 1, 0) = <<>>
    OBVIOUS
  <2> QED
    BY <1>6, <2>1, <2>2, <2>3, ConcatEmptySeq
<1> HIDE DEF kept
<1>11. /\ front \in Seq(Nat) /\ tail \in Seq(Nat) /\ wait \in Seq(Nat)
       /\ input \in Seq(Nat)
  BY <1>3, <1>6, ByteSeq
<1>12. fed \in Seq(Nat) /\ Len(fed) = Len(s.fed) + whole
  <2>1. s.fed \in Seq(Nat) /\ front \in Seq(Nat)
    BY <1>2, <1>11
  <2>2. fed \in Seq(Nat) /\ Len(fed) = Len(s.fed) + Len(front)
    BY <2>1, ConcatProperties
  <2> QED
    BY <1>6, <2>2
<1>13. fed \o tail = (s.fed \o wait) \o input
  <2>1. s.fed \in Seq(Nat)
    BY <1>2
  <2>2. Cat(Cat(s.fed, front), tail) = Cat(s.fed, Cat(front, tail))
    BY <1>11, <2>1, Associative
  <2>3. Cat(Cat(s.fed, wait), input) = Cat(s.fed, Cat(wait, input))
    BY <1>11, <2>1, Associative
  <2>4. Cat(front, tail) = Cat(wait, input)
    BY <1>6 DEF Cat, pending
  <2>5. Cat(Cat(s.fed, front), tail) = Cat(Cat(s.fed, wait), input)
    BY <2>2, <2>3, <2>4
  <2> QED
    BY <2>5 DEF Cat
<1> HIDE DEF fed
<1>14. t.fed = fed /\ t.block = kept /\ t.used = Len(tail) /\ t \in State
  <2>1. kept \in [1 .. MaxBlock -> Byte] /\ Len(tail) \in 0 .. MaxBlock
    BY <1>2, <1>7, <1>9 DEF BlockArray
  <2> QED
    BY <1>1, <1>12, <2>1 DEF State
<1>15. Len(t.fed) % R = 0
  <2>1. Len(s.fed) \in Nat /\ whole \in Nat /\ R \in Nat \ {0}
    BY <1>2, <1>5
  <2>2. Len(s.fed) % R = 0 /\ whole % R = 0
    BY <1>5
  <2> QED
    BY <1>12, <1>14, <2>1, <2>2, MultiplesAdd
<1>16. Taken(t) = Taken(s) \o input
  BY <1>10, <1>13, <1>14 DEF Taken, wait
<1>17. t.used < R
  BY <1>2, <1>7, <1>14
<1> QED
  BY <1>14, <1>15, <1>16, <1>17 DEF TakesIn, t

----------------------------------------------------------------------------
(* Length accounting keeps its words within their width: the check made    *)
(* before adding is the one that is needed.                                *)
LEMMA AddLengthType ==
    ASSUME NEW a \in Algs, NEW s \in State, NEW n \in 0 .. Word - 1,
           LengthFits(a, s, n),
           NEW t, t = AddLength(a, s, n)
    PROVE  /\ t \in State
           /\ t.fed = s.fed /\ t.block = s.block /\ t.used = s.used
<1>1. /\ s.low \in 0 .. LenMax /\ s.high \in 0 .. Word - 1
      /\ LenMax \in Nat /\ Word \in Nat \ {0} /\ BitsPerByte \in Nat \ {0}
      /\ LenMax = Word * Word - 1
      /\ n \in Nat
  BY HashConstants, LengthConstants DEF State
<1>2. CASE Family[a] = "SHA1"
  <2>1. BitsPerByte * n <= LenMax - s.low
    <3>1. LenMax - s.low \in Nat
      BY <1>1
    <3>2. n <= (LenMax - s.low) \div BitsPerByte
      BY <1>2 DEF LengthFits
    <3> QED
      BY <1>1, <3>1, <3>2, QuotientBound
  <2>2. s.low + n * BitsPerByte \in 0 .. LenMax
    BY <1>1, <2>1
  <2>3. t = [s EXCEPT !.low = s.low + n * BitsPerByte]
    BY <1>2 DEF AddLength
  <2> QED
    BY <2>2, <2>3 DEF State
<1>3. CASE Family[a] = "SHA256"
  <2>1. n <= (LenMax \div BitsPerByte) - s.low
    BY <1>3 DEF LengthFits
  <2>2. LenMax \div BitsPerByte \in Nat /\ BitsPerByte * (LenMax \div BitsPerByte) <= LenMax
    <3>1. LenMax \in Nat /\ BitsPerByte \in Nat \ {0}
      BY <1>1
    <3>2. /\ LenMax \div BitsPerByte \in Nat /\ LenMax % BitsPerByte \in 0 .. BitsPerByte - 1
          /\ LenMax = BitsPerByte * (LenMax \div BitsPerByte) + (LenMax % BitsPerByte)
      BY <3>1, Division
    <3> QED
      BY <3>1, <3>2
  <2>3. LenMax \div BitsPerByte <= LenMax
    BY <1>1, <2>2
  <2>4. s.low + n \in 0 .. LenMax
    BY <1>1, <2>1, <2>2, <2>3
  <2>5. t = [s EXCEPT !.low = s.low + n]
    BY <1>3 DEF AddLength
  <2> QED
    BY <2>4, <2>5 DEF State
<1>4. CASE Family[a] = "SHA512"
  <2>1. t = [s EXCEPT !.low = (s.low + n) % Word, !.high = NewHigh(s, n)]
    BY <1>4 DEF AddLength
  <2>2. (s.low + n) % Word \in 0 .. Word - 1
    <3>1. s.low + n \in Nat /\ Word \in Nat \ {0}
      BY <1>1
    <3> QED
      BY <3>1, Division
  <2>3. Word - 1 <= LenMax
    BY <1>1
  <2>4. NewHigh(s, n) \in 0 .. Word - 1
    <3>1. s.high + Carry(s, n) \in Nat
      BY <1>1 DEF Carry
    <3> QED
      BY <1>1, <3>1, Division DEF NewHigh
  <2>5. (s.low + n) % Word \in 0 .. LenMax
    BY <1>1, <2>2, <2>3
  <2> QED
    BY <2>1, <2>4, <2>5 DEF State
<1>5. CASE Family[a] \notin LengthFamilies
  BY <1>5 DEF AddLength, LengthFamilies
<1> QED
  BY <1>2, <1>3, <1>4, <1>5 DEF LengthFamilies

(* One accepted update.                                                    *)
LEMMA AbsorbKeepsInput ==
    ASSUME NEW a \in Algs, NEW s \in State, NEW input \in Seq(Byte),
           Len(input) < Word, LengthFits(a, s, Len(input)),
           s.used < Block[a], Len(s.fed) % Block[a] = 0
    PROVE  TakesIn(Block[a], s, input, Absorb(a, s, input))
<1>1. Block[a] \in 1 .. MaxBlock
  BY HashConstants, ContextConstants
<1>2. CASE Family[a] \in SpongeFamilies
  <2>1. Absorb(a, s, input) = AbsorbSponge(Block[a], s, input)
    BY <1>2 DEF Absorb
  <2>2. TakesIn(Block[a], s, input, AbsorbSponge(Block[a], s, input))
    BY <1>1, SpongeKeepsInput
  <2> QED
    BY <2>1, <2>2
<1>3. CASE Family[a] \notin SpongeFamilies
  <2> DEFINE r == AddLength(a, s, Len(input))
  <2>1. Len(input) \in 0 .. Word - 1
    BY LengthConstants
  <2>2. r \in State /\ r.fed = s.fed /\ r.block = s.block /\ r.used = s.used
    BY <2>1, AddLengthType
  <2>3. Absorb(a, s, input) = AbsorbBuffered(Block[a], r, input)
    BY <1>3 DEF Absorb
  <2> HIDE DEF r
  <2>4. r.used < Block[a] /\ Len(r.fed) % Block[a] = 0
    BY <2>2
  <2>5. TakesIn(Block[a], r, input, AbsorbBuffered(Block[a], r, input))
    BY <1>1, <2>2, <2>4, BufferedKeepsInput
  <2>6. Taken(r) = Taken(s)
    BY <2>2 DEF Taken
  <2> QED
    BY <2>3, <2>5, <2>6 DEF TakesIn
<1> QED
  BY <1>2, <1>3

----------------------------------------------------------------------------
(* What the other operations leave in a context is a context.              *)
LEMMA FreshContext ==
    /\ Fresh \in State
    /\ Taken(Fresh) = <<>>
    /\ Fresh.used = 0 /\ Fresh.fed = <<>>
<1>1. Fill(MaxBlock) \in [1 .. MaxBlock -> Byte]
  BY HashConstants DEF Fill, Byte
<1>2. 0 \in 0 .. MaxBlock /\ 0 \in 0 .. LenMax /\ 0 \in 0 .. Word - 1
  BY ContextConstants, LengthConstants
<1>3. Fresh \in State
  BY <1>1, <1>2 DEF Fresh, State
<1>4. Fresh.used = 0 /\ Fresh.fed = <<>>
  BY DEF Fresh
<1>5. SubSeq(Fresh.block, 1, 0) = <<>>
  OBVIOUS
<1>6. Taken(Fresh) = <<>>
  BY <1>4, <1>5, ConcatEmptySeq DEF Taken
<1> QED
  BY <1>3, <1>4, <1>6

(* Clearing part of the buffer.                                            *)
LEMMA ClearBytes ==
    ASSUME NEW block \in BlockArray, NEW at \in Nat, NEW end \in Int
    PROVE  Clear(block, at, end) \in BlockArray
BY HashConstants DEF Clear, BlockArray, Byte

(* The bytes of the length field are bytes.                                *)
LEMMA BigEndianBytes ==
    ASSUME NEW v \in Nat, NEW n \in 0 .. LenBytes
    PROVE  BigEndian(v, n) \in Seq(Byte)
<1>1. n \in Nat /\ LenBytes \in Nat /\ Radix \in Nat \ {0}
  BY HashConstants
<1>2. ASSUME NEW j \in 1 .. n
      PROVE  (v \div Radix^(n - j)) % Radix \in Byte
  <2>1. n - j \in 0 .. LenBytes
    BY <1>1
  <2>2. Radix^(n - j) \in Nat \ {0}
    BY <2>1, LengthConstants
  <2>3. v \div Radix^(n - j) \in Nat
    BY <2>2, Division
  <2> QED
    BY <1>1, <2>3, Division DEF Byte
<1>3. [j \in 1 .. n |-> (v \div Radix^(n - j)) % Radix] \in [1 .. n -> Byte]
  BY <1>2
<1> QED
  BY <1>1, <1>3 DEF BigEndian

(* The same of the whole length field.                                     *)
LEMMA LengthFieldBytes ==
    ASSUME NEW a \in Algs, NEW s \in State
    PROVE  LengthField(a, s) \in Seq(Byte)
<1> DEFINE shifted == s.low * BitsPerByte
<1>1. /\ s.low \in Nat /\ s.high \in Nat /\ BitsPerByte \in Nat \ {0}
      /\ LenMax + 1 \in Nat \ {0} /\ Word \in Nat \ {0} /\ LenBytes \in Nat
  BY HashConstants, LengthConstants DEF State
<1>2. shifted \in Nat /\ s.high * BitsPerByte \in Nat
  BY <1>1
<1>3. LenBytes \in 0 .. LenBytes /\ LenBytes \div 2 \in 0 .. LenBytes
  BY <1>1
<1> HIDE DEF shifted
<1>4. shifted % (LenMax + 1) \in Nat
  BY <1>1, <1>2, Division
<1>5. shifted % Word \in Nat /\ shifted \div Word \in Nat
  <2>1. /\ shifted \div Word \in Nat
        /\ shifted % Word \in 0 .. Word - 1
    BY <1>1, <1>2, Division
  <2> QED
    BY <1>1, <2>1
<1>6. (s.high * BitsPerByte) + (shifted \div Word) \in Nat
  BY <1>2, <1>5
<1>7. /\ BigEndian(s.low, LenBytes) \in Seq(Byte)
      /\ BigEndian(shifted % (LenMax + 1), LenBytes) \in Seq(Byte)
  BY <1>1, <1>3, <1>4, BigEndianBytes
<1>8. /\ BigEndian((s.high * BitsPerByte) + (shifted \div Word), LenBytes \div 2) \in Seq(Byte)
      /\ BigEndian(shifted % Word, LenBytes \div 2) \in Seq(Byte)
  BY <1>3, <1>5, <1>6, BigEndianBytes
<1>9. BigEndian((s.high * BitsPerByte) + (shifted \div Word), LenBytes \div 2)
        \o BigEndian(shifted % Word, LenBytes \div 2) \in Seq(Byte)
  BY <1>8, ConcatProperties
<1> QED
  BY <1>7, <1>9, Zenon DEF LengthField, shifted

(* Whatever block is compressed last, it is appended to those before it.   *)
LEMMA FedBlock ==
    ASSUME NEW s \in State, NEW block \in BlockArray, NEW n \in 0 .. MaxBlock
    PROVE  s.fed \o SubSeq(block, 1, n) \in Seq(Nat)
<1>1. SubSeq(block, 1, n) \in Seq(Nat)
  BY TakeBlock, ByteSeq
<1>2. s.fed \in Seq(Nat)
  BY DEF State
<1> QED
  BY <1>1, <1>2, ConcatProperties

Emptied(s, fed, block) == [s EXCEPT !.fed = fed, !.block = block, !.used = 0]

(* The state after the last compression.                                   *)
LEMMA EmptiedType ==
    ASSUME NEW s \in State, NEW fed \in Seq(Nat), NEW block \in BlockArray
    PROVE  Emptied(s, fed, block) \in State
<1>1. 0 \in 0 .. MaxBlock
  BY ContextConstants
<1> QED
  BY <1>1 DEF Emptied, State, BlockArray

(* Padding leaves a state.                                                 *)
LEMMA FinalizeType ==
    ASSUME NEW a \in Algs, NEW s \in State
    PROVE  Finalize(a, s) \in State
<1> DEFINE B == Block[a]
<1>1. /\ B \in 1 .. MaxBlock /\ B \in 0 .. MaxBlock /\ B \in Nat /\ MaxBlock \in Nat
      /\ s.block \in BlockArray /\ s.fed \in Seq(Nat)
      /\ s.used \in 0 .. MaxBlock /\ s.used \in Nat /\ LenBytes \in Nat
  BY HashConstants, ContextConstants DEF State, BlockArray
<1>2. Fill(MaxBlock) \in BlockArray
  BY HashConstants DEF Fill, BlockArray, Byte
<1>3. <<Top>> \in Seq(Byte) /\ Top \in Nat
  BY HashConstants DEF Top, Byte
<1> HIDE DEF B
<1>4. CASE Family[a] \in LengthFamilies
  <2> DEFINE marked == Put(s.block, s.used, <<Top>>)
             spill  == Spills(a, s.used)
             first  == Clear(marked, s.used + 1, B)
             base   == IF spill THEN first ELSE marked
             from   == IF spill THEN 0 ELSE s.used + 1
             zeroed == Clear(base, from, B - LenBytes)
             last   == Put(zeroed, B - LenBytes, LengthField(a, s))
             head   == IF spill THEN SubSeq(first, 1, B) ELSE <<>>
             fed    == (s.fed \o head) \o SubSeq(last, 1, B)
             kept   == IF Family[a] = "SHA1" THEN last ELSE Fill(MaxBlock)
  <2>1. marked \in BlockArray
    BY <1>1, <1>3, PutBytes
  <2> HIDE DEF marked
  <2>2. first \in BlockArray
    <3>1. s.used + 1 \in Nat /\ B \in Int
      BY <1>1
    <3> QED
      BY <2>1, <3>1, ClearBytes
  <2> HIDE DEF first, spill
  <2>3. base \in BlockArray /\ from \in Nat
    BY <1>1, <2>1, <2>2
  <2> HIDE DEF base, from
  <2>4. zeroed \in BlockArray
    BY <1>1, <2>3, ClearBytes
  <2> HIDE DEF zeroed
  <2>5. B - LenBytes \in Nat
    <3>1. LenBytes < Block[a]
      BY <1>4, LengthConstants, Zenon
    <3>2. LenBytes < B
      BY <3>1 DEF B
    <3> QED
      BY <1>1, <3>2
  <2>6. last \in BlockArray
    BY <2>4, <2>5, LengthFieldBytes, PutBytes
  <2> HIDE DEF last
  <2>7. kept \in BlockArray
    BY <1>2, <2>6
  <2>8. fed \in Seq(Nat)
    <3>1. SubSeq(last, 1, B) \in Seq(Nat) /\ SubSeq(first, 1, B) \in Seq(Nat)
      BY <1>1, <2>2, <2>6, TakeBlock, ByteSeq
    <3>2. head \in Seq(Nat)
      BY <3>1
    <3> HIDE DEF head
    <3>3. s.fed \o head \in Seq(Nat)
      BY <1>1, <3>2, ConcatProperties
    <3> QED
      BY <3>1, <3>3, ConcatProperties
  <2> HIDE DEF head, kept
  <2>9. Finalize(a, s) = Emptied(s, fed, kept)
    <3>1. Finalize(a, s) = FinalizeLength(a, s)
      BY <1>4 DEF Finalize, LengthFamilies, SpongeFamilies
    <3>2. FinalizeLength(a, s) = Emptied(s, fed, kept)
      BY DEF Emptied, FinalizeLength, fed, kept, last, zeroed, base, from, first, head,
             spill, marked, B
    <3> QED
      BY <3>1, <3>2, Zenon
  <2> HIDE DEF fed
  <2> QED
    BY <2>7, <2>8, <2>9, EmptiedType
<1>5. CASE Family[a] = "LSH"
  <2> DEFINE zeroed == Clear(s.block, s.used, B)
             last   == Put(zeroed, s.used, <<Top>>)
             fed    == s.fed \o SubSeq(last, 1, B)
  <2>1. zeroed \in BlockArray
    BY <1>1, ClearBytes
  <2> HIDE DEF zeroed
  <2>2. last \in BlockArray
    BY <1>1, <1>3, <2>1, PutBytes
  <2> HIDE DEF last
  <2>3. fed \in Seq(Nat)
    BY <1>1, <2>2, FedBlock
  <2>4. Finalize(a, s) = Emptied(s, fed, Fill(MaxBlock))
    <3>1. Finalize(a, s) = FinalizeLsh(a, s)
      BY <1>5 DEF Finalize, LengthFamilies, SpongeFamilies
    <3>2. FinalizeLsh(a, s) = Emptied(s, fed, Fill(MaxBlock))
      BY DEF Emptied, FinalizeLsh, fed, last, zeroed, B
    <3> QED
      BY <3>1, <3>2, Zenon
  <2> HIDE DEF fed
  <2> QED
    BY <1>2, <2>3, <2>4, EmptiedType
<1>6. CASE Family[a] \in SpongeFamilies
  <2> DEFINE last == [j \in 1 .. B |-> (s.block[j]
                                  + (IF j = s.used + 1 THEN DomainByte(a) ELSE 0))
                                  + (IF j = B THEN Top ELSE 0)]
             fed  == s.fed \o last
  <2>1. DomainByte(a) \in Nat
    BY HashConstants, <1>3 DEF DomainByte
  <2>2. \A j \in 1 .. B : s.block[j] \in Nat
    BY <1>1, HashConstants DEF BlockArray, Byte
  <2>3. last \in [1 .. B -> Nat]
    BY <1>3, <2>1, <2>2
  <2>4. last \in Seq(Nat)
    BY <1>1, <2>3
  <2>5. fed \in Seq(Nat)
    BY <1>1, <2>4, ConcatProperties
  <2>6. Finalize(a, s) = Emptied(s, fed, Fill(MaxBlock))
    <3>1. Finalize(a, s) = FinalizeSponge(a, s)
      BY <1>6 DEF Finalize, LengthFamilies, SpongeFamilies
    <3>2. FinalizeSponge(a, s) = Emptied(s, fed, Fill(MaxBlock))
      BY DEF Emptied, FinalizeSponge, fed, last, B
    <3> QED
      BY <3>1, <3>2, Zenon
  <2> HIDE DEF fed
  <2> QED
    BY <1>2, <2>5, <2>6, EmptiedType
<1> QED
  BY <1>4, <1>5, <1>6, HashConstants

(* Output bytes, and the state a XOF is left in.                           *)
LEMMA OutByteType ==
    ASSUME NEW a \in Algs, NEW s \in State, NEW n \in Nat, NEW at \in Nat
    PROVE  OutByte(a, s.fed, n, at) \in OutBytes
<1>1. s.fed \in Seq(Nat) /\ Block[a] \in Nat
  BY HashConstants DEF State
<1> QED
  BY <1>1 DEF OutByte, InitialValue, OutBytes

(* Squeezing gives bytes and leaves a state.                               *)
LEMMA SqueezeType ==
    ASSUME NEW a \in Algs, NEW s \in State, NEW n \in Nat
    PROVE  /\ SqueezeBytes(a, s, n) \in Seq(OutBytes)
           /\ SqueezeState(a, s, n) \in State
<1>1. /\ s.used \in Nat /\ s.perms \in Nat /\ Block[a] \in Nat \ {0}
      /\ Block[a] \in 1 .. MaxBlock /\ MaxBlock \in Nat
  BY HashConstants, ContextConstants DEF State
<1>2. ASSUME NEW i \in 1 .. n
      PROVE  OutByte(a, s.fed, s.perms + ((s.used + i - 1) \div Block[a]),
                     (s.used + i - 1) % Block[a]) \in OutBytes
  <2> DEFINE at == s.used + i - 1
  <2>1. at \in Nat
    BY <1>1
  <2> HIDE DEF at
  <2>2. at \div Block[a] \in Nat /\ at % Block[a] \in 0 .. Block[a] - 1
    BY <1>1, <2>1, Division
  <2>3. s.perms + (at \div Block[a]) \in Nat /\ at % Block[a] \in Nat
    BY <1>1, <2>2
  <2>4. OutByte(a, s.fed, s.perms + (at \div Block[a]), at % Block[a]) \in OutBytes
    BY <2>3, OutByteType
  <2> QED
    BY <2>4 DEF at
<1>3. SqueezeBytes(a, s, n) \in Seq(OutBytes)
  <2> DEFINE b == [i \in 1 .. n |->
                     OutByte(a, s.fed, s.perms + ((s.used + i - 1) \div Block[a]),
                             (s.used + i - 1) % Block[a])]
  <2>1. b \in [1 .. n -> OutBytes]
    BY <1>2, Zenon
  <2>2. SqueezeBytes(a, s, n) = b
    BY DEF SqueezeBytes
  <2> HIDE DEF b
  <2> QED
    BY <2>1, <2>2
<1>4. CASE n = 0
  BY <1>3, <1>4 DEF SqueezeState
<1>5. CASE n # 0
  <2> DEFINE last == s.used + n - 1
  <2>1. last \in Nat
    BY <1>1, <1>5
  <2>2. SqueezeState(a, s, n) = [s EXCEPT !.perms = s.perms + (last \div Block[a]),
                                          !.used = (last % Block[a]) + 1]
    BY <1>5 DEF SqueezeState
  <2> HIDE DEF last
  <2>3. last \div Block[a] \in Nat /\ last % Block[a] \in 0 .. Block[a] - 1
    BY <1>1, <2>1, Division
  <2>4. s.perms + (last \div Block[a]) \in Nat /\ (last % Block[a]) + 1 \in 0 .. MaxBlock
    BY <1>1, <2>3
  <2>5. SqueezeState(a, s, n) \in State
    BY <2>2, <2>4 DEF State
  <2> QED
    BY <1>3, <2>5
<1> QED
  BY <1>4, <1>5

(* A digest is made of bytes.                                              *)
LEMMA DigestType ==
    ASSUME NEW a \in Algs, NEW s \in State
    PROVE  DigestBytes(a, s) \in Seq(OutBytes)
<1>1. DigestLen[a] \in Nat
  BY HashConstants
<1>2. SqueezeBytes(a, s, DigestLen[a]) \in Seq(OutBytes)
  BY <1>1, SqueezeType
<1>3. [i \in 1 .. DigestLen[a] |-> OutByte(a, s.fed, 0, i - 1)] \in Seq(OutBytes)
  <2>1. ASSUME NEW i \in 1 .. DigestLen[a]
        PROVE  OutByte(a, s.fed, 0, i - 1) \in OutBytes
    <3>1. i - 1 \in Nat /\ 0 \in Nat
      BY <1>1
    <3> QED
      BY <3>1, OutByteType
  <2> DEFINE b == [i \in 1 .. DigestLen[a] |-> OutByte(a, s.fed, 0, i - 1)]
  <2>2. b \in [1 .. DigestLen[a] -> OutBytes]
    BY <2>1, Zenon
  <2> HIDE DEF b
  <2>3. b \in Seq(OutBytes)
    BY <1>1, <2>2
  <2> QED
    BY <2>3 DEF b
<1> QED
  BY <1>2, <1>3, Zenon DEF DigestBytes

----------------------------------------------------------------------------
(* The inductive invariant: besides the types and the message kept whole,  *)
(* a context that is in use has an algorithm.                              *)
AlgKnown == \A c \in Contexts : phase[c] # "CLEARED" => alg[c] \in Algs

IInv == TypeOK /\ AlgKnown /\ NothingLost

(* NothingLost, of one context.                                            *)
KeptWhole(p, a, s, m) ==
    p = "ABSORBING" => /\ s.used < Block[a]
                       /\ Len(s.fed) % Block[a] = 0
                       /\ Taken(s) = m

(* NothingLost is about each context by itself.                            *)
LEMMA PerContext ==
    NothingLost <=> \A c \in Contexts : KeptWhole(phase[c], alg[c], st[c], absorbed[c])
BY DEF NothingLost, Absorbing, KeptWhole, Taken

(* A step that changes context c alone keeps IInv if it does for c.        *)
LEMMA OneContext ==
    ASSUME IInv, NEW c \in Contexts,
           NEW p \in Phases, NEW a \in Algs \cup {NoAlg}, NEW s \in State,
           NEW m \in Seq(Byte), NEW o \in Seq(OutBytes),
           phase' = [phase EXCEPT ![c] = p], alg' = [alg EXCEPT ![c] = a],
           st' = [st EXCEPT ![c] = s], absorbed' = [absorbed EXCEPT ![c] = m],
           out' = [out EXCEPT ![c] = o], ret' \in Statuses,
           p # "CLEARED" => a \in Algs, KeptWhole(p, a, s, m)
    PROVE  IInv'
<1>1. /\ phase \in [Contexts -> Phases] /\ alg \in [Contexts -> Algs \cup {NoAlg}]
      /\ st \in [Contexts -> State] /\ absorbed \in [Contexts -> Seq(Byte)]
      /\ out \in [Contexts -> Seq(OutBytes)]
  BY DEF IInv, TypeOK
<1>2. TypeOK'
  BY <1>1 DEF TypeOK
<1>3. ASSUME NEW d \in Contexts
      PROVE  /\ phase'[d] # "CLEARED" => alg'[d] \in Algs
             /\ KeptWhole(phase'[d], alg'[d], st'[d], absorbed'[d])
  <2>1. CASE d = c
    BY <1>1, <2>1
  <2>2. CASE d # c
    <3>1. /\ phase'[d] = phase[d] /\ alg'[d] = alg[d]
          /\ st'[d] = st[d] /\ absorbed'[d] = absorbed[d]
      BY <1>1, <2>2
    <3>2. /\ phase[d] # "CLEARED" => alg[d] \in Algs
          /\ KeptWhole(phase[d], alg[d], st[d], absorbed[d])
      BY PerContext DEF IInv, AlgKnown
    <3> QED
      BY <3>1, <3>2
  <2> QED
    BY <2>1, <2>2
<1>4. AlgKnown'
  BY <1>3 DEF AlgKnown
<1>5. NothingLost'
  BY <1>3 DEF NothingLost, Absorbing, KeptWhole, Taken
<1> QED
  BY <1>2, <1>4, <1>5 DEF IInv

(* A refused call.                                                         *)
LEMMA RejectKeeps ==
    ASSUME IInv, NEW status \in Statuses, Reject(status)
    PROVE  IInv'
BY DEF Reject, IInv, TypeOK, AlgKnown, NothingLost, Absorbing

(* A context just initialised has lost nothing.                            *)
LEMMA EmptyIsWhole ==
    ASSUME NEW a \in Algs
    PROVE  KeptWhole("ABSORBING", a, Fresh, <<>>)
<1>1. Block[a] \in Nat \ {0}
  BY HashConstants
<1>2. Fresh.used < Block[a] /\ Len(Fresh.fed) % Block[a] = 0
  BY <1>1, FreshContext
<1> QED
  BY <1>2, FreshContext DEF KeptWhole

(* At the start every context is cleared.                                  *)
LEMMA InitKeeps == Init => IInv
<1> SUFFICES ASSUME Init PROVE IInv
  OBVIOUS
<1>1. TypeOK
  <2>1. <<>> \in Seq(Byte) /\ <<>> \in Seq(OutBytes)
    OBVIOUS
  <2> QED
    BY <2>1, FreshContext DEF Init, TypeOK, Phases, Statuses
<1>2. \A c \in Contexts : phase[c] = "CLEARED"
  BY DEF Init
<1> QED
  BY <1>1, <1>2 DEF IInv, AlgKnown, NothingLost, Absorbing

(* What the invariant says of one context.                                 *)
LEMMA ContextTypes ==
    ASSUME IInv, NEW c \in Contexts
    PROVE  /\ phase[c] \in Phases /\ alg[c] \in Algs \cup {NoAlg} /\ st[c] \in State
           /\ absorbed[c] \in Seq(Byte) /\ out[c] \in Seq(OutBytes) /\ ret \in Statuses
           /\ phase[c] # "CLEARED" => alg[c] \in Algs
           /\ KeptWhole(phase[c], alg[c], st[c], absorbed[c])
<1>1. KeptWhole(phase[c], alg[c], st[c], absorbed[c])
  BY PerContext DEF IInv
<1> QED
  BY <1>1 DEF IInv, TypeOK, AlgKnown

(* LIBERAC_HASH_INIT.                                                      *)
LEMMA HashInitKeeps ==
    ASSUME IInv, NEW c \in Contexts, NEW a \in Algs, HashInit(c, a)
    PROVE  IInv'
<1>1. /\ "ABSORBING" \in Phases /\ a \in Algs \cup {NoAlg} /\ Fresh \in State
      /\ <<>> \in Seq(Byte) /\ <<>> \in Seq(OutBytes)
      /\ KeptWhole("ABSORBING", a, Fresh, <<>>)
  BY FreshContext, EmptyIsWhole DEF Phases
<1>2. /\ phase' = [phase EXCEPT ![c] = "ABSORBING"] /\ alg' = [alg EXCEPT ![c] = a]
      /\ st' = [st EXCEPT ![c] = Fresh] /\ absorbed' = [absorbed EXCEPT ![c] = <<>>]
      /\ out' = [out EXCEPT ![c] = <<>>] /\ ret' \in Statuses
  BY DEF HashInit, Forget, Statuses
<1> QED
  BY <1>1, <1>2, OneContext

(* LIBERAC_HASH_CLEAR, and LIBERAC_HASH_INIT of an unknown identifier.     *)
LEMMA EraseKeeps ==
    ASSUME IInv, NEW c \in Contexts, Erase(c), ret' \in Statuses
    PROVE  IInv'
<1>1. /\ "CLEARED" \in Phases /\ NoAlg \in Algs \cup {NoAlg} /\ Fresh \in State
      /\ <<>> \in Seq(Byte) /\ <<>> \in Seq(OutBytes)
      /\ KeptWhole("CLEARED", NoAlg, Fresh, <<>>)
  BY FreshContext DEF Phases, KeptWhole
<1>2. /\ phase' = [phase EXCEPT ![c] = "CLEARED"] /\ alg' = [alg EXCEPT ![c] = NoAlg]
      /\ st' = [st EXCEPT ![c] = Fresh] /\ absorbed' = [absorbed EXCEPT ![c] = <<>>]
      /\ out' = [out EXCEPT ![c] = <<>>]
  BY DEF Erase, Forget
<1> QED
  BY <1>1, <1>2, OneContext

(* LIBERAC_HASH_UPDATE.                                                    *)
LEMMA HashUpdateKeeps ==
    ASSUME IInv, NEW c \in Contexts, NEW input \in Inputs, HashUpdate(c, input)
    PROVE  IInv'
<1> DEFINE a == alg[c]
           s == Absorb(a, st[c], input)
           m == absorbed[c] \o input
<1>1. phase[c] = "ABSORBING" /\ LengthFits(alg[c], st[c], Len(input))
  BY DEF HashUpdate
<1>2. /\ alg[c] \in Algs /\ st[c] \in State /\ absorbed[c] \in Seq(Byte)
      /\ out[c] \in Seq(OutBytes)
      /\ st[c].used < Block[alg[c]] /\ Len(st[c].fed) % Block[alg[c]] = 0
      /\ Taken(st[c]) = absorbed[c]
  BY <1>1, ContextTypes DEF KeptWhole
<1>3. input \in Seq(Byte) /\ Len(input) < Word
  <2>1. PICK n \in 0 .. MaxChunk : input \in [1 .. n -> Data]
    BY DEF Inputs
  <2>2. Data \subseteq Byte /\ MaxChunk \in Nat /\ Word \in Nat /\ MaxChunk < Word
    BY ContextConstants, LengthConstants
  <2>3. input \in [1 .. n -> Byte] /\ n \in Nat
    BY <2>1, <2>2
  <2> QED
    BY <2>2, <2>3
<1>4. TakesIn(Block[a], st[c], input, s)
  BY <1>1, <1>2, <1>3, AbsorbKeepsInput
<1> HIDE DEF s
<1>5. s \in State /\ KeptWhole("ABSORBING", a, s, m)
  BY <1>2, <1>4 DEF TakesIn, KeptWhole
<1>6. m \in Seq(Byte)
  BY <1>2, <1>3, ConcatProperties
<1>7. /\ phase \in [Contexts -> Phases] /\ alg \in [Contexts -> Algs \cup {NoAlg}]
      /\ out \in [Contexts -> Seq(OutBytes)]
  BY DEF IInv, TypeOK
<1>8. /\ st' = [st EXCEPT ![c] = s] /\ absorbed' = [absorbed EXCEPT ![c] = m]
      /\ ret' \in Statuses
  BY DEF HashUpdate, Statuses, s
<1>9. /\ phase' = [phase EXCEPT ![c] = "ABSORBING"] /\ alg' = [alg EXCEPT ![c] = a]
      /\ out' = [out EXCEPT ![c] = out[c]]
  BY <1>1, <1>7 DEF HashUpdate
<1> HIDE DEF m
<1>10. "ABSORBING" \in Phases /\ a \in Algs \cup {NoAlg} /\ a \in Algs
  BY <1>2 DEF Phases
<1> QED
  BY <1>2, <1>5, <1>6, <1>8, <1>9, <1>10, OneContext

(* LIBERAC_HASH_FINALIZE.                                                  *)
LEMMA HashFinalizeKeeps ==
    ASSUME IInv, NEW c \in Contexts, HashFinalize(c)
    PROVE  IInv'
<1> DEFINE a == alg[c]
           s == Finalize(a, st[c])
<1>1. /\ a \in Algs /\ st[c] \in State /\ absorbed[c] \in Seq(Byte)
      /\ out[c] \in Seq(OutBytes)
  BY ContextTypes DEF HashFinalize
<1>2. s \in State
  BY <1>1, FinalizeType
<1>3. /\ st' = [st EXCEPT ![c] = s] /\ phase' = [phase EXCEPT ![c] = "FINALIZED"]
      /\ ret' \in Statuses
  BY DEF HashFinalize, Statuses
<1> HIDE DEF s
<1>4. /\ alg' = [alg EXCEPT ![c] = a] /\ absorbed' = [absorbed EXCEPT ![c] = absorbed[c]]
      /\ out' = [out EXCEPT ![c] = out[c]]
  BY DEF HashFinalize, IInv, TypeOK
<1>5. /\ "FINALIZED" \in Phases /\ a \in Algs \cup {NoAlg}
      /\ KeptWhole("FINALIZED", a, s, absorbed[c])
  BY <1>1 DEF Phases, KeptWhole
<1> QED
  BY <1>1, <1>2, <1>3, <1>4, <1>5, OneContext

(* LIBERAC_HASH_SQUEEZE of an XOF.                                         *)
LEMMA SqueezeXofKeeps ==
    ASSUME IInv, NEW c \in Contexts, NEW n \in 0 .. MaxOut, SqueezeXof(c, n)
    PROVE  IInv'
<1> DEFINE a == alg[c]
           s == SqueezeState(a, st[c], n)
           o == out[c] \o SqueezeBytes(a, st[c], n)
<1>1. /\ a \in Algs /\ st[c] \in State /\ absorbed[c] \in Seq(Byte)
      /\ out[c] \in Seq(OutBytes)
  BY ContextTypes DEF SqueezeXof
<1>2. n \in Nat
  BY ContextConstants
<1>3. s \in State /\ SqueezeBytes(a, st[c], n) \in Seq(OutBytes)
  BY <1>1, <1>2, SqueezeType
<1>4. o \in Seq(OutBytes)
  BY <1>1, <1>3, ConcatProperties
<1>5. /\ st' = [st EXCEPT ![c] = s] /\ phase' = [phase EXCEPT ![c] = "SQUEEZING"]
      /\ out' = [out EXCEPT ![c] = o] /\ ret' \in Statuses
  BY DEF SqueezeXof, Statuses
<1> HIDE DEF s, o
<1>6. alg' = [alg EXCEPT ![c] = a] /\ absorbed' = [absorbed EXCEPT ![c] = absorbed[c]]
  BY DEF SqueezeXof, IInv, TypeOK
<1>7. /\ "SQUEEZING" \in Phases /\ a \in Algs \cup {NoAlg}
      /\ KeptWhole("SQUEEZING", a, s, absorbed[c])
  BY <1>1 DEF Phases, KeptWhole
<1> QED
  BY <1>1, <1>3, <1>4, <1>5, <1>6, <1>7, OneContext

(* LIBERAC_HASH_SQUEEZE of a fixed-length digest.                          *)
LEMMA SqueezeDigestKeeps ==
    ASSUME IInv, NEW c \in Contexts, NEW n \in 0 .. MaxOut, SqueezeDigest(c, n)
    PROVE  IInv'
<1>1. CASE n < DigestLen[alg[c]]
  <2>1. Reject("BUFFER_TOO_SMALL")
    BY <1>1 DEF SqueezeDigest
  <2> QED
    BY <2>1, RejectKeeps DEF Statuses
<1>2. CASE ~(n < DigestLen[alg[c]])
  <2> DEFINE a == alg[c]
             o == out[c] \o DigestBytes(a, st[c])
  <2>1. /\ a \in Algs /\ st[c] \in State /\ absorbed[c] \in Seq(Byte)
        /\ out[c] \in Seq(OutBytes)
    BY ContextTypes DEF SqueezeDigest
  <2>2. DigestBytes(a, st[c]) \in Seq(OutBytes)
    BY <2>1, DigestType
  <2>3. o \in Seq(OutBytes)
    BY <2>1, <2>2, ConcatProperties
  <2>4. /\ st' = [st EXCEPT ![c] = Fresh] /\ phase' = [phase EXCEPT ![c] = "CONSUMED"]
        /\ out' = [out EXCEPT ![c] = o] /\ ret' \in Statuses
    BY <1>2 DEF SqueezeDigest, Statuses
  <2> HIDE DEF o
  <2>5. alg' = [alg EXCEPT ![c] = a] /\ absorbed' = [absorbed EXCEPT ![c] = absorbed[c]]
    BY <1>2 DEF SqueezeDigest, IInv, TypeOK
  <2>6. /\ "CONSUMED" \in Phases /\ a \in Algs \cup {NoAlg} /\ Fresh \in State
        /\ KeptWhole("CONSUMED", a, Fresh, absorbed[c])
    BY <2>1, FreshContext DEF Phases, KeptWhole
  <2> QED
    BY <2>1, <2>3, <2>4, <2>5, <2>6, OneContext
<1> QED
  BY <1>1, <1>2

(* The invariant is inductive.                                             *)
LEMMA NextKeeps == IInv /\ [Next]_vars => IInv'
<1> SUFFICES ASSUME IInv, [Next]_vars
             PROVE  IInv'
  OBVIOUS
<1>1. CASE UNCHANGED vars
  BY <1>1 DEF vars, IInv, TypeOK, AlgKnown, NothingLost, Absorbing
<1>2. ASSUME NEW c \in Contexts, NEW a \in Algs, HashInit(c, a)
      PROVE  IInv'
  BY <1>2, HashInitKeeps
<1>3. ASSUME NEW c \in Contexts, HashInitUnknown(c)
      PROVE  IInv'
  BY <1>3, EraseKeeps DEF HashInitUnknown, Statuses
<1>4. ASSUME NEW c \in Contexts, HashClear(c)
      PROVE  IInv'
  <2>1. Erase(c) /\ ret' \in Statuses
    BY <1>4, ContextTypes DEF HashClear
  <2> QED
    BY <2>1, EraseKeeps
<1>5. ASSUME NEW c \in Contexts, Update(c)
      PROVE  IInv'
  <2>1. ASSUME NEW input \in Inputs, HashUpdate(c, input)
        PROVE  IInv'
    BY <2>1, HashUpdateKeeps
  <2>2. ASSUME NEW n \in 1 .. MaxChunk, HashUpdateTooLarge(c, n)
        PROVE  IInv'
    BY <2>2, RejectKeeps DEF HashUpdateTooLarge, Statuses
  <2>3. ASSUME NEW isNull \in BOOLEAN, HashUpdateInvalid(c, isNull)
        PROVE  IInv'
    BY <2>3, RejectKeeps DEF HashUpdateInvalid, Statuses
  <2> QED
    BY <1>5, <2>1, <2>2, <2>3 DEF Update
<1>6. ASSUME NEW c \in Contexts, HashFinalize(c)
      PROVE  IInv'
  BY <1>6, HashFinalizeKeeps
<1>7. ASSUME NEW c \in Contexts, HashFinalizeInvalid(c)
      PROVE  IInv'
  BY <1>7, RejectKeeps DEF HashFinalizeInvalid, Statuses
<1>8. ASSUME NEW c \in Contexts, Squeeze(c)
      PROVE  IInv'
  <2>1. ASSUME NEW n \in 0 .. MaxOut, SqueezeXof(c, n)
        PROVE  IInv'
    BY <2>1, SqueezeXofKeeps
  <2>2. ASSUME NEW n \in 0 .. MaxOut, SqueezeDigest(c, n)
        PROVE  IInv'
    BY <2>2, SqueezeDigestKeeps
  <2>3. ASSUME NEW isNull \in BOOLEAN, SqueezeInvalid(c, isNull)
        PROVE  IInv'
    BY <2>3, RejectKeeps DEF SqueezeInvalid, Statuses
  <2> QED
    BY <1>8, <2>1, <2>2, <2>3 DEF Squeeze
<1> QED
  BY <1>1, <1>2, <1>3, <1>4, <1>5, <1>6, <1>7, <1>8 DEF Next

(* The chunking invariant NothingLost is inductive together with the types *)
(* and the algorithms of the contexts in use.                              *)
THEOREM Invariant == Spec => []IInv
<1>1. Init => IInv
  BY InitKeeps
<1>2. IInv /\ [Next]_vars => IInv'
  BY NextKeeps
<1> QED
  BY <1>1, <1>2, PTL DEF Spec

(* LIBERAC_HASH_INIT, _UPDATE, _FINALIZE, _SQUEEZE and _CLEAR in any order *)
(* keep every context well formed: BUFFER_LENGTH stays within BLOCK and the*)
(* length words within their width.                                        *)
THEOREM TypeCorrect == Spec => []TypeOK
<1>1. IInv => TypeOK
  BY DEF IInv
<1> QED
  BY <1>1, Invariant, PTL

(* Whatever chunks LIBERAC_HASH_UPDATE is given, what is compressed and    *)
(* what waits in BLOCK are together exactly the message.                   *)
THEOREM ChunksDoNotMatter == Spec => []NothingLost
<1>1. IInv => NothingLost
  BY DEF IInv
<1> QED
  BY <1>1, Invariant, PTL

----------------------------------------------------------------------------
(* What the code counts is the length of the message, each family in its   *)
(* own words.                                                              *)
Counters(a, s, m) ==
    /\ Family[a] = "SHA1"   => s.low = Len(m) * BitsPerByte
    /\ Family[a] = "SHA256" => s.low = Len(m) /\ s.high = 0
    /\ Family[a] = "SHA512" => s.low < Word /\ Len(m) = (s.high * Word) + s.low

(* The check before an update is the standard's limit on the message.      *)
LEMMA LimitHolds ==
    ASSUME NEW a \in Algs, NEW s \in State, NEW m \in Seq(Byte),
           Fits(a, Len(m)), Counters(a, s, m), NEW n \in 0 .. Word - 1
    PROVE  LengthFits(a, s, n) <=> Fits(a, Len(m) + n)
<1>1. /\ s.low \in 0 .. LenMax /\ s.high \in 0 .. Word - 1
      /\ LenMax \in Nat /\ Word \in Nat \ {0} /\ BitsPerByte \in Nat \ {0}
      /\ LenMax = Word * Word - 1 /\ Word % BitsPerByte = 0
      /\ n \in Nat /\ Len(m) \in Nat /\ MaxMessage \in Nat
  <2>1. LenMax \div BitsPerByte \in Nat
    BY HashConstants, LengthConstants, Division
  <2> QED BY <2>1, HashConstants, LengthConstants DEF State, MaxMessage
<1> DEFINE k == Len(m)
<1>2. CASE Family[a] = "SHA1"
  <2>1. LengthFits(a, s, n) <=> BitsPerByte * n <= LenMax - s.low
    <3>1. LenMax - s.low \in Nat
      BY <1>1
    <3>2. LengthFits(a, s, n) <=> n <= (LenMax - s.low) \div BitsPerByte
      BY <1>2 DEF LengthFits
    <3> QED BY <1>1, <3>1, <3>2, QuotientBound
  <2>2. Fits(a, k + n) <=> BitsPerByte * (k + n) <= LenMax
    <3>1. Fits(a, k + n) <=> k + n <= LenMax \div BitsPerByte
      BY <1>2 DEF Fits, Bounded, LengthFamilies, MaxMessage
    <3>2. k + n \in Nat
      BY <1>1
    <3> QED BY <1>1, <3>1, <3>2, QuotientBound
  <2>3. s.low = k * BitsPerByte
    BY <1>2 DEF Counters
  <2> HIDE DEF k
  <2>4. k \in Nat
    BY <1>1 DEF k
  <2>5. BitsPerByte * (k + n) = k * BitsPerByte + BitsPerByte * n
    BY <1>1, <2>4
  <2> QED BY <1>1, <2>1, <2>2, <2>3, <2>4, <2>5 DEF k
<1>3. CASE Family[a] = "SHA256"
  BY <1>1, <1>3 DEF LengthFits, Counters, Fits, Bounded, LengthFamilies, MaxMessage
<1>4. CASE Family[a] = "SHA512"
  <2> DEFINE h == s.high
             l == s.low
             carry == Carry(s, n)
             high == NewHigh(s, n)
  <2>1. /\ l \in 0 .. Word - 1 /\ h \in Nat /\ h < Word
        /\ h * Word + l = k /\ h * Word + l <= (Word * Word - 1) \div BitsPerByte
    BY SMTT(20), <1>1, <1>4 DEF Counters, Fits, Bounded, LengthFamilies, MaxMessage
  <2>2. carry = (IF (l + n) % Word < l THEN 1 ELSE 0) /\ high = (h + carry) % Word
    BY DEF Carry, NewHigh
  <2>3. LengthFits(a, s, n) <=> high >= h /\ high <= (Word - 1) \div BitsPerByte
    BY <1>4 DEF LengthFits
  <2>4. Fits(a, k + n) <=> k + n <= (Word * Word - 1) \div BitsPerByte
    BY <1>1, <1>4 DEF Fits, Bounded, LengthFamilies, MaxMessage
  <2> HIDE DEF h, l, carry, high, k
  <2>5. (high >= h /\ high <= (Word - 1) \div BitsPerByte)
           <=> (h * Word + l) + n <= (Word * Word - 1) \div BitsPerByte
    <3>1. Word \in Nat \ {0} /\ BitsPerByte \in Nat \ {0} /\ Word % BitsPerByte = 0
      BY <1>1
    <3>2. Advances(Word, BitsPerByte, h, l, n)
      BY <2>1, <3>1, TwoWords
    <3>3. high = HighOf(Word, h, l, n)
      BY <2>2 DEF HighOf, CarryOf
    <3> QED BY <3>2, <3>3 DEF Advances
  <2> QED BY <2>1, <2>3, <2>4, <2>5 DEF k
<1>5. CASE Family[a] \notin LengthFamilies
  BY <1>5 DEF LengthFits, LengthFamilies, Fits, Bounded
<1> QED BY <1>2, <1>3, <1>4, <1>5 DEF LengthFamilies

(* Adding the length of an accepted chunk keeps the count.                 *)
LEMMA CountersAdvance ==
    ASSUME NEW a \in Algs, NEW s \in State, NEW m \in Seq(Byte),
           Fits(a, Len(m)), Counters(a, s, m), NEW n \in 0 .. Word - 1,
           LengthFits(a, s, n), NEW more \in Seq(Byte), Len(more) = Len(m) + n,
           NEW t, t = AddLength(a, s, n)
    PROVE  Counters(a, t, more) /\ t.perms = s.perms
<1>1. /\ s.low \in 0 .. LenMax /\ s.high \in 0 .. Word - 1
      /\ LenMax \in Nat /\ Word \in Nat \ {0} /\ BitsPerByte \in Nat \ {0}
      /\ LenMax = Word * Word - 1 /\ Word % BitsPerByte = 0
      /\ n \in Nat /\ Len(m) \in Nat
      /\ s = [fed |-> s.fed, block |-> s.block, used |-> s.used,
              low |-> s.low, high |-> s.high, perms |-> s.perms]
  BY HashConstants, LengthConstants DEF State
<1>2. CASE Family[a] = "SHA1"
  <2>1. t = [s EXCEPT !.low = s.low + n * BitsPerByte]
    BY <1>2 DEF AddLength
  <2>2. s.low = Len(m) * BitsPerByte
    BY <1>2 DEF Counters
  <2>3. t.low = s.low + n * BitsPerByte /\ t.perms = s.perms
    BY <1>1, <2>1
  <2>4. (Len(m) + n) * BitsPerByte = Len(m) * BitsPerByte + n * BitsPerByte
    BY <1>1
  <2> QED BY <1>2, <2>2, <2>3, <2>4 DEF Counters
<1>3. CASE Family[a] = "SHA256"
  <2>1. t = [s EXCEPT !.low = s.low + n]
    BY <1>3 DEF AddLength
  <2>2. t.low = s.low + n /\ t.high = s.high /\ t.perms = s.perms
    BY <1>1, <2>1
  <2> QED BY <1>3, <2>2 DEF Counters
<1>4. CASE Family[a] = "SHA512"
  <2> DEFINE h == s.high
             l == s.low
             carry == Carry(s, n)
             high == NewHigh(s, n)
             low  == (l + n) % Word
  <2>1. /\ l \in 0 .. Word - 1 /\ h \in Nat /\ h < Word
        /\ h * Word + l = Len(m) /\ h * Word + l <= (Word * Word - 1) \div BitsPerByte
    BY SMTT(20), <1>1, <1>4 DEF Counters, Fits, Bounded, LengthFamilies, MaxMessage
  <2>2. carry = (IF (l + n) % Word < l THEN 1 ELSE 0) /\ high = (h + carry) % Word
    BY DEF Carry, NewHigh
  <2>3. high >= h /\ high <= (Word - 1) \div BitsPerByte
    BY <1>4 DEF LengthFits
  <2>4. t = [s EXCEPT !.low = low, !.high = high]
    BY <1>4 DEF AddLength
  <2>5. low \in 0 .. Word - 1
    <3>1. l + n \in Nat /\ Word \in Nat \ {0}
      BY SMTT(20), <1>1, <2>1
    <3> QED BY <3>1, Division
  <2> HIDE DEF h, l, carry, high
  <2>6. (h * Word + l) + n = high * Word + low
    <3>1. Word \in Nat \ {0} /\ BitsPerByte \in Nat \ {0} /\ Word % BitsPerByte = 0
      BY <1>1
    <3>2. Advances(Word, BitsPerByte, h, l, n)
      BY <2>1, <3>1, TwoWords
    <3>3. high = HighOf(Word, h, l, n)
      BY <2>2 DEF HighOf, CarryOf
    <3> QED BY <2>3, <3>2, <3>3 DEF Advances
  <2> HIDE DEF low
  <2>7. t.low = low /\ t.high = high /\ t.perms = s.perms
    BY <1>1, <2>4
  <2>8. Len(more) = high * Word + low
    BY <2>1, <2>6
  <2>9. t.low < Word /\ Len(more) = (t.high * Word) + t.low
    BY SMTT(20), <1>1, <2>5, <2>7, <2>8
  <2> QED BY <1>4, <2>7, <2>9 DEF Counters
<1>5. CASE Family[a] \notin LengthFamilies
  BY <1>5 DEF AddLength, LengthFamilies, Counters
<1> QED BY <1>2, <1>3, <1>4, <1>5 DEF LengthFamilies

(* The digits of a number.                                                 *)
LEMMA DigitsOf ==
    ASSUME NEW v \in Nat, NEW n \in 0 .. LenBytes
    PROVE  /\ BigEndian(v, n) \in Seq(Byte) /\ Len(BigEndian(v, n)) = n
           /\ \A j \in 1 .. n : BigEndian(v, n)[j] = (v \div Radix^(n - j)) % Radix
<1>1. n \in Nat
  BY HashConstants
<1> DEFINE b == BigEndian(v, n)
<1>2. b \in Seq(Byte)
  BY <1>1, BigEndianBytes
<1>3. DOMAIN b = 1 .. n /\ \A j \in 1 .. n : b[j] = (v \div Radix^(n - j)) % Radix
  BY DEF BigEndian
<1> HIDE DEF b
<1>4. Len(b) = n
  BY <1>1, <1>2, <1>3
<1> QED BY <1>2, <1>3, <1>4 DEF b

(* Two words in big-endian order are the number they make.                 *)
LEMMA TwoWordDigits ==
    ASSUME NEW h \in Nat, NEW l \in 0 .. Word - 1,
           NEW half, half = LenBytes \div 2
    PROVE  BigEndian(h, half) \o BigEndian(l, half) = BigEndian(h * Word + l, LenBytes)
<1> DEFINE v == h * Word + l
           x == BigEndian(h, half)
           y == BigEndian(l, half)
           b == BigEndian(v, LenBytes)
           a == x \o y
<1>1. half \in Nat \ {0} /\ LenBytes = half + half
  <2>1. LenBytes \in Nat \ {0} /\ LenBytes % 2 = 0
    BY HashConstants, LengthConstants
  <2> QED BY <2>1
<1>2. Word \in Nat \ {0} /\ Word = Radix^half /\ Radix \in Nat \ {0} /\ v \in Nat /\ l \in Nat
  BY HashConstants, LengthConstants DEF Word
<1>3. /\ x \in Seq(Byte) /\ Len(x) = half
      /\ \A j \in 1 .. half : x[j] = (h \div Radix^(half - j)) % Radix
      /\ y \in Seq(Byte) /\ Len(y) = half
      /\ \A j \in 1 .. half : y[j] = (l \div Radix^(half - j)) % Radix
  <2>1. half \in 0 .. LenBytes /\ h \in Nat /\ l \in Nat
    BY <1>1, <1>2
  <2> QED BY <2>1, DigitsOf
<1>4. /\ b \in Seq(Byte) /\ Len(b) = LenBytes
      /\ \A j \in 1 .. LenBytes : b[j] = (v \div Radix^(LenBytes - j)) % Radix
  <2>1. LenBytes \in 0 .. LenBytes
    BY <1>1
  <2> QED BY <1>2, <2>1, DigitsOf
<1> HIDE DEF x, y, b
<1>5. /\ a \in Seq(Byte) /\ Len(a) = half + half
      /\ \A j \in 1 .. half : a[j] = x[j]
      /\ \A j \in 1 .. half : a[half + j] = y[j]
  <2>1. /\ a \in Seq(Byte) /\ Len(a) = Len(x) + Len(y)
        /\ \A j \in 1 .. Len(x) : a[j] = x[j]
        /\ \A j \in 1 .. Len(y) : a[Len(x) + j] = y[j]
    <3>1. x \in Seq(Byte) /\ y \in Seq(Byte)
      BY <1>3
    <3> QED BY <3>1, Joined
  <2> QED BY <1>3, <2>1
<1> HIDE DEF a
<1>6. ASSUME NEW j \in 1 .. half
      PROVE  b[j] = a[j]
  <2> DEFINE q == Radix^(half - j)
  <2>1. /\ half - j \in 0 .. LenBytes /\ half \in 0 .. LenBytes
        /\ half + (half - j) <= LenBytes /\ LenBytes - j = half + (half - j)
        /\ j \in 1 .. LenBytes
    BY <1>1
  <2>2. Radix^(half + (half - j)) = Radix^half * Radix^(half - j)
    BY <2>1, LengthConstants
  <2>3. q \in Nat \ {0}
    BY <2>1, LengthConstants
  <2>4. Radix^(LenBytes - j) = Word * q
    BY <1>2, <2>1, <2>2
  <2> HIDE DEF q
  <2>5. v \div (Word * q) = h \div q
    <3>1. HighDivides(Word, q, h, l)
      BY <1>2, <2>3, HighPart
    <3> QED BY <3>1 DEF HighDivides
  <2>6. b[j] = (h \div q) % Radix
    BY <1>4, <2>1, <2>4, <2>5
  <2>7. a[j] = (h \div q) % Radix
    BY <1>3, <1>5 DEF q
  <2> QED BY <2>6, <2>7
<1>7. ASSUME NEW j \in 1 .. half
      PROVE  b[half + j] = a[half + j]
  <2> DEFINE p == Radix^(half - j)
             z == Radix^(j - 1)
  <2>1. /\ half - j \in 0 .. LenBytes /\ j \in 0 .. LenBytes /\ j - 1 \in 0 .. LenBytes
        /\ 1 \in 0 .. LenBytes /\ 1 + (j - 1) <= LenBytes /\ 1 + (j - 1) = j
        /\ (half - j) + j <= LenBytes /\ (half - j) + j = half
        /\ LenBytes - (half + j) = half - j
        /\ half + j \in 1 .. LenBytes
    BY <1>1
  <2>2. Radix^((half - j) + j) = Radix^(half - j) * Radix^j
    BY <2>1, LengthConstants
  <2>3. Radix^(1 + (j - 1)) = Radix^1 * Radix^(j - 1) /\ Radix^1 = Radix
    BY <2>1, LengthConstants
  <2>4. p \in Nat \ {0} /\ z \in Nat
    BY <2>1, LengthConstants
  <2>5. Word = p * (Radix * z)
    BY <1>2, <2>1, <2>2, <2>3
  <2>6. b[half + j] = (v \div p) % Radix
    BY <1>4, <2>1
  <2>7. a[half + j] = (l \div p) % Radix
    BY <1>3, <1>5
  <2>9. Radix \in Nat \ {0} /\ h \in Nat /\ l \in Nat
    BY <1>2
  <2> HIDE DEF p, z
  <2>8. (v \div p) % Radix = (l \div p) % Radix
    <3>1. LowDigit(p, Radix, z, h, l)
      BY <2>4, <2>9, LowPart
    <3> QED BY <2>5, <3>1 DEF LowDigit
  <2> QED BY <2>6, <2>7, <2>8
<1>8. ASSUME NEW j \in 1 .. LenBytes
      PROVE  b[j] = a[j]
  <2>1. CASE j <= half
    BY <1>1, <1>6, <2>1
  <2>2. CASE ~(j <= half)
    <3>1. j - half \in 1 .. half /\ half + (j - half) = j
      BY <1>1, <2>2
    <3> QED BY <1>7, <3>1
  <2> QED BY <2>1, <2>2
<1>9. a = b
  BY <1>1, <1>4, <1>5, <1>8, SeqEqual
<1> QED BY <1>9 DEF a, b, x, y

(* The length field is the length of the message in bits.                  *)
LEMMA FieldIsLength ==
    ASSUME NEW a \in Algs, Family[a] \in LengthFamilies, NEW s \in State,
           NEW m \in Seq(Byte), Fits(a, Len(m)), Counters(a, s, m)
    PROVE  LengthField(a, s) = BigEndian(Len(m) * BitsPerByte, LenBytes)
<1> DEFINE k == Len(m)
           B == BitsPerByte
<1>1. /\ s.low \in 0 .. LenMax /\ s.high \in 0 .. Word - 1
      /\ LenMax \in Nat /\ Word \in Nat \ {0} /\ B \in Nat \ {0}
      /\ LenMax = Word * Word - 1 /\ k \in Nat
  BY HashConstants, LengthConstants DEF State
<1>2. CASE Family[a] = "SHA1"
  BY <1>2 DEF LengthField, Counters
<1>3. CASE Family[a] = "SHA256"
  <2>1. s.low = k /\ k <= LenMax \div B
    BY <1>3 DEF Counters, Fits, Bounded, MaxMessage, LengthFamilies
  <2>2. B * k <= LenMax
    BY <1>1, <2>1, QuotientBound
  <2> DEFINE x == s.low * B
  <2>3. x = k * B /\ x \in Nat /\ x < LenMax + 1 /\ LenMax + 1 \in Nat \ {0}
        /\ x < (LenMax + 1) + (LenMax + 1)
    BY <1>1, <2>1, <2>2
  <2>4. LengthField(a, s) = BigEndian(x % (LenMax + 1), LenBytes)
    BY <1>3 DEF LengthField
  <2> HIDE DEF x
  <2>5. x % (LenMax + 1) = x
    BY <2>3, SmallRest
  <2> QED BY <2>3, <2>4, <2>5
<1>4. CASE Family[a] = "SHA512"
  <2> DEFINE x == s.low * B
             h == s.high * B + (x \div Word)
             l == x % Word
             half == LenBytes \div 2
  <2>1. k = (s.high * Word) + s.low
    BY <1>4 DEF Counters
  <2>2. LengthField(a, s) = BigEndian(h, half) \o BigEndian(l, half)
    BY <1>4 DEF LengthField
  <2>3. x \in Nat /\ s.high * B \in Nat
    BY <1>1
  <2> HIDE DEF x
  <2>4. x \div Word \in Nat /\ l \in 0 .. Word - 1 /\ x = Word * (x \div Word) + l
    BY <1>1, <2>3, Division
  <2>5. h \in Nat
    BY <2>3, <2>4
  <2>6. k * B = h * Word + l
    <3> DEFINE q == x \div Word
               u == s.high * B
    <3>1. h * Word = u * Word + q * Word
      <4>1. h = u + q /\ u \in Nat /\ q \in Nat
        BY <2>3, <2>4
      <4> HIDE DEF u, q, h
      <4> QED BY <1>1, <4>1
    <3>2. u * Word = (s.high * Word) * B
      BY <1>1
    <3>3. x = Word * q + l /\ q \in Nat /\ Word * q = q * Word
      BY <1>1, <2>4
    <3>4. k * B = (s.high * Word) * B + x
      BY <1>1, <2>1 DEF x
    <3>5. (s.high * Word) * B \in Nat /\ q * Word \in Nat /\ u * Word \in Nat
      BY SMTT(20), <1>1, <2>3, <3>3
    <3> HIDE DEF u, q, l, h
    <3> QED BY <2>4, <3>1, <3>2, <3>3, <3>4, <3>5
  <2> HIDE DEF h, l, half
  <2>7. BigEndian(h, half) \o BigEndian(l, half) = BigEndian(h * Word + l, LenBytes)
    BY <2>4, <2>5, TwoWordDigits DEF half
  <2> QED BY <2>2, <2>6, <2>7
<1> QED BY <1>2, <1>3, <1>4 DEF LengthFamilies

----------------------------------------------------------------------------
(* Padding.                                                                *)

(* The zeros after n bytes.                                                *)
LEMMA GapIs ==
    ASSUME NEW n \in Nat, NEW B \in Nat \ {0}, NEW g \in 0 .. B - 1, (n + g) % B = 0
    PROVE  Gap(n, B) = g
BY MissingUnique DEF Gap

(* A mark, zeros and a field behind the bytes that were waiting.           *)
Marking(x, mark, g, field) == Cat(x, Cat(Cat(<<mark>>, Fill(g)), field))

MarkedAs(x, mark, g, field, t) ==
    /\ x \in Seq(Byte) /\ mark \in Byte /\ g \in Nat /\ field \in Seq(Byte)
    /\ t \in Seq(Byte) /\ Len(t) = Len(x) + 1 + g + Len(field)
    /\ \A j \in 1 .. Len(x) : t[j] = x[j]
    /\ t[Len(x) + 1] = mark
    /\ \A i \in 1 .. g : t[Len(x) + 1 + i] = 0
    /\ \A i \in 1 .. Len(field) : t[Len(x) + 1 + g + i] = field[i]

(* Bytes marked so are the padded message.                                 *)
LEMMA MarkedTail ==
    ASSUME NEW x, NEW mark, NEW g, NEW field, NEW t, MarkedAs(x, mark, g, field, t)
    PROVE  t = Marking(x, mark, g, field)
<1>0. /\ x \in Seq(Byte) /\ mark \in Byte /\ g \in Nat /\ field \in Seq(Byte)
      /\ t \in Seq(Byte) /\ Len(t) = Len(x) + 1 + g + Len(field)
      /\ \A j \in 1 .. Len(x) : t[j] = x[j]
      /\ t[Len(x) + 1] = mark
      /\ \A i \in 1 .. g : t[Len(x) + 1 + i] = 0
      /\ \A i \in 1 .. Len(field) : t[Len(x) + 1 + g + i] = field[i]
  BY DEF MarkedAs
<1> DEFINE one  == <<mark>>
           zero == Fill(g)
           y    == Cat(one, zero)
           z    == Cat(y, field)
           w    == Cat(x, z)
<1>1. one \in Seq(Byte) /\ Len(one) = 1 /\ one[1] = mark
  BY <1>0
<1>2. zero \in Seq(Byte) /\ Len(zero) = g /\ \A j \in 1 .. g : zero[j] = 0
  <2>1. 0 \in Byte
    BY HashConstants DEF Byte
  <2>2. zero \in [1 .. g -> Byte]
    BY <2>1 DEF Fill
  <2>3. zero \in Seq(Byte) /\ DOMAIN zero = 1 .. g
    BY <1>0, <2>2
  <2>4. Len(zero) = g
    <3> HIDE DEF zero
    <3> QED BY <1>0, <2>3
  <2> QED BY <2>3, <2>4 DEF Fill
<1> HIDE DEF one, zero
<1>3. /\ y \in Seq(Byte) /\ Len(y) = Len(one) + Len(zero)
      /\ \A j \in 1 .. Len(one) : y[j] = one[j]
      /\ \A j \in 1 .. Len(zero) : y[Len(one) + j] = zero[j]
  <2>1. one \in Seq(Byte) /\ zero \in Seq(Byte)
    BY <1>1, <1>2
  <2> QED BY <2>1, Joined DEF Cat
<1> HIDE DEF y
<1>4. /\ z \in Seq(Byte) /\ Len(z) = Len(y) + Len(field)
      /\ \A j \in 1 .. Len(y) : z[j] = y[j]
      /\ \A j \in 1 .. Len(field) : z[Len(y) + j] = field[j]
  <2>1. y \in Seq(Byte) /\ field \in Seq(Byte)
    BY <1>0, <1>3
  <2> QED BY <2>1, Joined DEF Cat
<1> HIDE DEF z
<1>5. /\ w \in Seq(Byte) /\ Len(w) = Len(x) + Len(z)
      /\ \A j \in 1 .. Len(x) : w[j] = x[j]
      /\ \A j \in 1 .. Len(z) : w[Len(x) + j] = z[j]
  <2>1. z \in Seq(Byte) /\ x \in Seq(Byte)
    BY <1>0, <1>4
  <2> QED BY <2>1, Joined DEF Cat
<1> HIDE DEF w
<1>6. Len(x) \in Nat /\ Len(field) \in Nat /\ g \in Nat
  BY <1>0
<1>7. Len(t) = Len(w)
  BY <1>0, <1>1, <1>2, <1>3, <1>4, <1>5, <1>6
<1>8. ASSUME NEW j \in 1 .. Len(t)
      PROVE  t[j] = w[j]
  <2>1. CASE j <= Len(x)
    BY <1>0, <1>5, <1>6, <2>1
  <2>2. CASE j = Len(x) + 1
    <3>1. w[j] = z[1] /\ z[1] = y[1] /\ y[1] = one[1]
      BY <1>1, <1>2, <1>3, <1>4, <1>5, <1>6, <2>2
    <3> QED BY <1>0, <1>1, <2>2, <3>1
  <2>3. CASE j > Len(x) + 1 /\ j <= Len(x) + 1 + g
    <3> DEFINE i == j - Len(x) - 1
    <3>1. i \in 1 .. g /\ j = Len(x) + 1 + i /\ 1 + i \in 1 .. Len(y)
          /\ 1 + i \in 1 .. Len(z) /\ j = Len(x) + (1 + i)
      BY <1>1, <1>2, <1>3, <1>4, <1>6, <2>3
    <3> HIDE DEF i
    <3>2. w[Len(x) + (1 + i)] = z[1 + i] /\ z[1 + i] = y[1 + i] /\ y[1 + i] = zero[i]
      BY <1>1, <1>2, <1>3, <1>4, <1>5, <3>1
    <3>3. zero[i] = 0 /\ t[Len(x) + 1 + i] = 0
      BY <1>0, <1>2, <3>1
    <3> QED BY <3>1, <3>2, <3>3
  <2>4. CASE j > Len(x) + 1 + g
    <3> DEFINE i == j - Len(x) - 1 - g
    <3>1. i \in 1 .. Len(field) /\ j = Len(x) + 1 + g + i /\ Len(y) = 1 + g
          /\ (1 + g) + i \in 1 .. Len(z) /\ j = Len(x) + ((1 + g) + i)
      BY <1>0, <1>1, <1>2, <1>3, <1>4, <1>6, <2>4
    <3> HIDE DEF i
    <3>2. w[Len(x) + ((1 + g) + i)] = z[(1 + g) + i] /\ z[(1 + g) + i] = field[i]
      BY <1>4, <1>5, <3>1
    <3>3. t[Len(x) + 1 + g + i] = field[i]
      BY <1>0, <3>1
    <3> QED BY <3>1, <3>2, <3>3
  <2> QED BY <1>0, <1>6, <2>1, <2>2, <2>3, <2>4
<1>9. t = w
  BY <1>0, <1>5, <1>7, <1>8, SeqEqual
<1> QED BY <1>9 DEF w, z, y, one, zero, Marking

(* Bytes cleared with memset.                                              *)
LEMMA ClearedBytes ==
    ASSUME NEW block \in BlockArray, NEW at \in Nat, NEW end \in Int
    PROVE  /\ Clear(block, at, end) \in BlockArray
           /\ \A j \in 1 .. MaxBlock :
                 Clear(block, at, end)[j] = IF j > at /\ j <= end THEN 0 ELSE block[j]
BY ClearBytes DEF Clear, BlockArray

(* The byte that ends the message.                                         *)
MarkedAt(block, at, mark, t) ==
    /\ t \in BlockArray
    /\ \A j \in 1 .. MaxBlock : t[j] = IF j = at + 1 THEN mark ELSE block[j]

(* memcpy of the mark into the block puts it there.                        *)
LEMMA MarkedByte ==
    ASSUME NEW block \in BlockArray, NEW at \in Nat, NEW mark \in Byte
    PROVE  MarkedAt(block, at, mark, Put(block, at, <<mark>>))
<1> DEFINE b == <<mark>>
<1>1. b \in Seq(Byte) /\ Len(b) = 1 /\ b[1] = mark
  OBVIOUS
<1> HIDE DEF b
<1>2. /\ Put(block, at, b) \in BlockArray
      /\ \A j \in 1 .. MaxBlock :
            Put(block, at, b)[j] = IF j > at /\ j <= at + Len(b) THEN b[j - at] ELSE block[j]
  BY <1>1, PutBytes
<1>3. ASSUME NEW j \in 1 .. MaxBlock
      PROVE  Put(block, at, b)[j] = IF j = at + 1 THEN mark ELSE block[j]
  <2>1. j \in Nat
    BY ContextConstants
  <2>2. CASE j = at + 1
    <3>1. j - at = 1
      BY <2>2
    <3> QED BY <1>1, <1>2, <2>1, <2>2, <3>1
  <2>3. CASE j # at + 1
    BY <1>1, <1>2, <2>1, <2>3
  <2> QED BY <2>2, <2>3
<1> QED BY <1>2, <1>3 DEF b, MarkedAt

(* What a message is padded with is joined to what was compressed of it.   *)
LEMMA JoinedPadding ==
    ASSUME NEW f \in Seq(Nat), NEW x \in Seq(Nat), NEW y \in Seq(Nat)
    PROVE  f \o (x \o y) = (f \o x) \o y
<1>1. Cat(Cat(f, x), y) = Cat(f, Cat(x, y))
  BY Associative
<1> QED BY <1>1 DEF Cat

(* Marking gives bytes.                                                    *)
LEMMA PaddingType ==
    ASSUME NEW mark \in Byte, NEW g \in Nat, NEW field \in Seq(Byte)
    PROVE  (<<mark>> \o Fill(g)) \o field \in Seq(Byte)
<1>1. <<mark>> \in Seq(Byte) /\ Fill(g) \in Seq(Byte)
  BY HashConstants DEF Fill, Byte
<1> HIDE DEF Fill
<1>2. <<mark>> \o Fill(g) \in Seq(Byte)
  BY <1>1, ConcatProperties
<1> QED BY <1>2, ConcatProperties

(* A message absorbed and ready to be padded.                              *)
Ready(a, s, m) ==
    /\ Fits(a, Len(m)) /\ Counters(a, s, m)
    /\ s.used < Block[a] /\ Len(s.fed) % Block[a] = 0 /\ Taken(s) = m

(* What there is to know about the lengths.                                *)
LEMMA ReadyLengths ==
    ASSUME NEW a \in Algs, NEW s \in State, NEW m \in Seq(Byte), Ready(a, s, m)
    PROVE  /\ Block[a] \in 1 .. MaxBlock /\ Block[a] \in Nat \ {0} /\ MaxBlock \in Nat
           /\ s.used \in Nat /\ s.used < Block[a] /\ s.used \in 0 .. MaxBlock
           /\ s.block \in BlockArray
           /\ SubSeq(s.block, 1, s.used) \in Seq(Byte)
           /\ Len(SubSeq(s.block, 1, s.used)) = s.used
           /\ \A j \in 1 .. s.used : SubSeq(s.block, 1, s.used)[j] = s.block[j]
           /\ s.fed \in Seq(Nat) /\ Len(s.fed) \in Nat /\ Len(s.fed) % Block[a] = 0
           /\ m = s.fed \o SubSeq(s.block, 1, s.used)
           /\ Len(m) = Len(s.fed) + s.used /\ Len(m) \in Nat
           /\ \A g \in Nat, e \in Nat :
                 (s.used + e) + g \in {Block[a], 2 * Block[a]} /\ g < Block[a]
                    => Gap(Len(m) + e, Block[a]) = g
<1> DEFINE wait == SubSeq(s.block, 1, s.used)
           B == Block[a]
           f == Len(s.fed)
<1>1. /\ B \in 1 .. MaxBlock /\ B \in Nat \ {0} /\ MaxBlock \in Nat
      /\ s.used \in 0 .. MaxBlock /\ s.block \in BlockArray /\ s.fed \in Seq(Nat)
      /\ s.used < B /\ f % B = 0 /\ m = s.fed \o wait
  <2>1. s.used < B /\ f % B = 0 /\ m = s.fed \o wait
    BY DEF Ready, Taken
  <2> HIDE DEF wait, f
  <2>2. B \in 1 .. MaxBlock /\ B \in Nat \ {0} /\ MaxBlock \in Nat
    BY HashConstants, ContextConstants
  <2>3. s.used \in 0 .. MaxBlock /\ s.block \in BlockArray /\ s.fed \in Seq(Nat)
    BY DEF State, BlockArray
  <2> QED
    BY <2>1, <2>2, <2>3
<1>2. s.used \in Nat /\ f \in Nat
  BY <1>1
<1>3. /\ wait \in Seq(Byte) /\ Len(wait) = s.used
      /\ \A j \in 1 .. s.used : wait[j] = s.block[j]
  BY <1>1, TakeBlock
<1> HIDE DEF wait
<1>4. Len(m) = f + s.used
  <2>1. wait \in Seq(Nat)
    BY <1>3, ByteSeq
  <2> QED BY <1>1, <1>3, <2>1, ConcatProperties
<1> HIDE DEF B, f
<1>5. ASSUME NEW g \in Nat, NEW e \in Nat, (s.used + e) + g \in {B, 2 * B}, g < B
      PROVE  Gap(Len(m) + e, B) = g
  <2> DEFINE n == Len(m) + e
             x == (s.used + e) + g
  <2>1. n \in Nat /\ n + g = f + x /\ x \in Nat /\ g \in 0 .. B - 1
    <3>1. B \in Nat /\ s.used \in Nat /\ g < B
      BY <1>1, <1>2, <1>5
    <3>2. Len(m) \in Nat
      BY <1>2, <1>4
    <3>3. n \in Nat /\ x \in Nat /\ g \in 0 .. B - 1
      BY <3>1, <3>2
    <3>4. n + g = f + x
      BY <1>2, <1>4, <3>1
    <3> QED BY <3>3, <3>4
  <2>2. x % B = 0
    <3>1. CASE x = B
      BY <1>1, <3>1, SmallRest
    <3>2. CASE x = 2 * B
      <4>1. x = B * 2
        BY <1>1, <3>2
      <4> QED BY ZenonT(40), <1>1, <2>1, <4>1, MultipleHasNoRest
    <3> QED BY <1>5, <3>1, <3>2
  <2> HIDE DEF n, x
  <2>3. (n + g) % B = 0
    <3> DEFINE q == f \div B
    <3>1. f = B * q + (f % B) /\ q \in Nat
      BY <1>1, <1>2, Division
    <3>2. f = B * q
      BY <1>1, <3>1
    <3> HIDE DEF q
    <3>3. (B * q + x) % B = x % B
      BY <1>1, <2>1, <3>1, PartsDivide
    <3> QED BY <2>1, <2>2, <3>2, <3>3
  <2>4. Gap(n, B) = g
    BY <1>1, <2>1, <2>3, GapIs
  <2> QED BY <2>4 DEF n
<1> QED BY <1>1, <1>2, <1>3, <1>4, <1>5 DEF wait, B, f

(* crypto_sha1_finalize and crypto_sha2_finalize: one last block, or two   *)
(* when the length field does not fit behind the mark.                     *)
LEMMA LengthPadded ==
    ASSUME NEW a \in Algs, Family[a] \in LengthFamilies, NEW s \in State,
           NEW m \in Seq(Byte), Ready(a, s, m)
    PROVE  FinalizeLength(a, s).fed = Padded(a, m)
<1> DEFINE B      == Block[a]
           u      == s.used
           L      == LenBytes
           marked == Put(s.block, u, <<Top>>)
           spill  == Spills(a, u)
           first  == Clear(marked, u + 1, B)
           base   == IF spill THEN first ELSE marked
           from   == IF spill THEN 0 ELSE u + 1
           zeroed == Clear(base, from, B - L)
           field  == LengthField(a, s)
           last   == Put(zeroed, B - L, field)
           none   == <<>>
           t1     == SubSeq(first, 1, B)
           t2     == SubSeq(last, 1, B)
           head   == IF spill THEN t1 ELSE none
           wait   == SubSeq(s.block, 1, u)
           n      == Len(m) + (1 + L)
           pad(g) == (<<Top>> \o Fill(g)) \o field
<1> HIDE DEF B, u, L, marked, spill, first, base, from, zeroed, field, last, none, t1, t2,
             head, wait, n, pad
<1>1. /\ B \in 1 .. MaxBlock /\ B \in 0 .. MaxBlock /\ B \in Nat \ {0} /\ MaxBlock \in Nat
      /\ u \in Nat /\ u < B /\ s.block \in BlockArray
      /\ wait \in Seq(Byte) /\ Len(wait) = u /\ \A j \in 1 .. u : wait[j] = s.block[j]
      /\ s.fed \in Seq(Nat) /\ m = s.fed \o wait /\ Len(m) \in Nat
  <2>1. B \in 0 .. MaxBlock
    BY ReadyLengths DEF B
  <2>2. /\ B \in 1 .. MaxBlock /\ B \in Nat \ {0} /\ MaxBlock \in Nat
        /\ u \in Nat /\ u < B /\ s.block \in BlockArray
    BY ReadyLengths DEF B, u
  <2>3. wait \in Seq(Byte) /\ Len(wait) = u /\ \A j \in 1 .. u : wait[j] = s.block[j]
    BY ReadyLengths DEF u, wait
  <2>4. s.fed \in Seq(Nat) /\ m = s.fed \o wait /\ Len(m) \in Nat
    BY SMTT(20), ReadyLengths DEF u, wait
  <2> QED BY <2>1, <2>2, <2>3, <2>4
<1>2. /\ L \in Nat \ {0} /\ L < B /\ B - L \in Nat
      /\ Top \in Byte /\ (spill <=> u + 1 > B - L)
  <2>1. L \in Nat \ {0} /\ L < B
    BY HashConstants, LengthConstants DEF B, L
  <2>2. Top \in Byte
    BY HashConstants DEF Top, Byte
  <2>3. spill <=> u + 1 > B - L
    BY DEF spill, Spills, B, L
  <2> QED BY <1>1, <2>1, <2>2, <2>3
<1>0. /\ B \in Nat \ {0} /\ u \in Nat /\ u < B /\ L \in Nat \ {0} /\ L < B
      /\ B - L \in Nat /\ Len(m) \in Nat /\ (spill <=> u + 1 > B - L)
  BY <1>1, <1>2
<1>3. field = BigEndian(Len(m) * BitsPerByte, L) /\ field \in Seq(Byte) /\ Len(field) = L
  <2>1. field = BigEndian(Len(m) * BitsPerByte, L)
    BY FieldIsLength DEF Ready, field, L
  <2>2. Len(m) * BitsPerByte \in Nat /\ L \in 0 .. LenBytes
    BY <1>1, <1>2, HashConstants, ReadyLengths DEF L
  <2> QED BY <2>1, <2>2, DigitsOf
<1>4. \A g \in Nat : (u + (1 + L)) + g \in {B, 2 * B} /\ g < B => Gap(n, B) = g
  <2>1. 1 + L \in Nat
    BY <1>2
  <2> QED BY <2>1, ReadyLengths DEF B, u, n
<1>5. Padded(a, m) = m \o pad(Gap(n, B))
  <2>1. (Len(m) + 1) + L = n
    BY <1>0 DEF n
  <2>2. Padding(a, Len(m))
          = (<<Top>> \o Fill(Gap((Len(m) + 1) + L, B))) \o BigEndian(Len(m) * BitsPerByte, L)
    BY DEF Padding, B, L, LengthFamilies, SpongeFamilies
  <2> QED BY <1>3, <2>1, <2>2 DEF Padded, pad
<1>6. /\ marked \in BlockArray
      /\ \A j \in 1 .. MaxBlock : marked[j] = IF j = u + 1 THEN Top ELSE s.block[j]
  <2>1. s.block \in BlockArray /\ u \in Nat /\ Top \in Byte
    BY <1>1, <1>2
  <2>2. MarkedAt(s.block, u, Top, marked)
    BY <2>1, MarkedByte DEF marked
  <2> QED BY <2>2 DEF MarkedAt
<1>7. /\ first \in BlockArray
      /\ \A j \in 1 .. MaxBlock : first[j] = IF j > u + 1 /\ j <= B THEN 0 ELSE marked[j]
  <2>1. u + 1 \in Nat /\ B \in Int
    BY <1>1
  <2> QED BY <1>6, <2>1, ClearedBytes DEF first
<1>8. base \in BlockArray /\ from \in Nat
  BY <1>1, <1>6, <1>7 DEF base, from
<1>9. /\ zeroed \in BlockArray
      /\ \A j \in 1 .. MaxBlock : zeroed[j] = IF j > from /\ j <= B - L THEN 0 ELSE base[j]
  <2>1. B - L \in Int
    BY <1>2
  <2> QED BY <1>8, <2>1, ClearedBytes DEF zeroed
<1>10. /\ last \in BlockArray
       /\ \A j \in 1 .. MaxBlock :
             last[j] = IF j > B - L /\ j <= (B - L) + L THEN field[j - (B - L)] ELSE zeroed[j]
  <2>1. \A j \in 1 .. MaxBlock :
           last[j] = IF j > B - L /\ j <= (B - L) + Len(field)
                     THEN field[j - (B - L)] ELSE zeroed[j]
    BY <1>2, <1>3, <1>9, PutBytes DEF last
  <2>2. last \in BlockArray
    BY <1>2, <1>3, <1>9, PutBytes DEF last
  <2> QED BY <1>3, <2>1, <2>2
<1>11. /\ t1 \in Seq(Byte) /\ Len(t1) = B /\ \A j \in 1 .. B : t1[j] = first[j]
       /\ t2 \in Seq(Byte) /\ Len(t2) = B /\ \A j \in 1 .. B : t2[j] = last[j]
  BY <1>1, <1>7, <1>10, TakeBlock DEF t1, t2
<1>12. FinalizeLength(a, s).fed = (s.fed \o head) \o t2
  <2> DEFINE fed == (s.fed \o head) \o t2
             kept == IF Family[a] = "SHA1" THEN last ELSE Fill(MaxBlock)
  <2>1. FinalizeLength(a, s) = Emptied(s, fed, kept)
    BY DEF Emptied, FinalizeLength, head, none, t1, t2, last, field, zeroed, base, from, first, marked,
           spill, B, u, L
  <2> HIDE DEF fed, kept
  <2>2. Emptied(s, fed, kept).fed = fed
    BY DEF Emptied, State
  <2> QED BY <2>1, <2>2 DEF fed
<1>13. wait \in Seq(Nat) /\ t1 \in Seq(Nat) /\ t2 \in Seq(Nat)
  BY <1>1, <1>11, ByteSeq
<1>14. ASSUME NEW g \in Nat, NEW t \in Seq(Byte), t = wait \o pad(g), Gap(n, B) = g
       PROVE  s.fed \o t = Padded(a, m)
  <2> DEFINE y == pad(g)
  <2>1. y \in Seq(Byte)
    <3>1. (<<Top>> \o Fill(g)) \o field \in Seq(Byte)
      BY <1>2, <1>3, PaddingType, Zenon
    <3> QED BY <3>1, Zenon DEF pad
  <2>2. y \in Seq(Nat)
    BY <2>1, ByteSeq
  <2>3. Padded(a, m) = m \o y
    BY <1>5, <1>14
  <2>4. t = wait \o y
    BY <1>14
  <2> HIDE DEF y
  <2> QED BY <1>1, <1>13, <2>2, <2>3, <2>4, JoinedPadding
<1>15. CASE ~spill
  <2> DEFINE g == B - (u + (1 + L))
  <2>1. /\ u + 1 <= B - L /\ g \in Nat /\ g < B
        /\ (u + (1 + L)) + g \in {B, 2 * B} /\ u + 1 + g = B - L
    BY <1>0, <1>15
  <2> HIDE DEF g
  <2>2. Gap(n, B) = g
    BY <1>4, <2>1
  <2>3. \A j \in 1 .. B : t2[j] = IF j > B - L THEN field[j - (B - L)]
                                  ELSE IF j > u + 1 THEN 0
                                  ELSE IF j = u + 1 THEN Top ELSE s.block[j]
    <3> SUFFICES ASSUME NEW j \in 1 .. B
                 PROVE  t2[j] = IF j > B - L THEN field[j - (B - L)]
                                ELSE IF j > u + 1 THEN 0
                                ELSE IF j = u + 1 THEN Top ELSE s.block[j]
      OBVIOUS
    <3>1. j \in 1 .. MaxBlock /\ j \in Nat /\ (B - L) + L = B
      BY <1>1, <1>2
    <3>2. t2[j] = IF j > B - L THEN field[j - (B - L)] ELSE zeroed[j]
      BY <1>10, <1>11, <3>1
    <3>3. zeroed[j] = IF j > u + 1 /\ j <= B - L THEN 0 ELSE marked[j]
      BY <1>9, <1>15, <3>1 DEF base, from
    <3>4. marked[j] = IF j = u + 1 THEN Top ELSE s.block[j]
      BY <1>6, <3>1
    <3> QED BY <1>1, <1>2, <2>1, <3>1, <3>2, <3>3, <3>4
  <2>4. t2 = Marking(wait, Top, g, field)
    <3>1. Len(t2) = Len(wait) + 1 + g + Len(field)
      <4>1. Len(t2) = B /\ Len(wait) = u /\ Len(field) = L
        BY <1>1, <1>3, <1>11
      <4>2. u \in Nat /\ L \in Nat /\ B \in Nat
        BY <1>1, <1>2
      <4> QED BY <2>1, <4>1, <4>2
    <3>2. \A j \in 1 .. Len(wait) : t2[j] = wait[j]
      <4>1. u \in Nat /\ B \in Nat /\ u < B /\ Len(wait) = u /\ L \in Nat
        BY <1>0, <1>1
      <4> SUFFICES ASSUME NEW j \in 1 .. u PROVE t2[j] = wait[j]
        BY <4>1
      <4>2. j \in 1 .. B /\ ~(j > B - L) /\ ~(j > u + 1) /\ j # u + 1
        BY <2>1, <4>1
      <4> QED BY <1>1, <2>3, <4>2
    <3>3. t2[Len(wait) + 1] = Top
      BY <1>1, <1>2, <2>1, <2>3
    <3>4. \A i \in 1 .. g : t2[Len(wait) + 1 + i] = 0
      <4> SUFFICES ASSUME NEW i \in 1 .. g PROVE t2[Len(wait) + 1 + i] = 0
        OBVIOUS
      <4>1. u + 1 + i \in 1 .. B /\ ~(u + 1 + i > B - L) /\ u + 1 + i > u + 1
        BY <1>1, <1>2, <2>1
      <4> QED BY <1>1, <2>3, <4>1
    <3>5. \A i \in 1 .. Len(field) : t2[Len(wait) + 1 + g + i] = field[i]
      <4> SUFFICES ASSUME NEW i \in 1 .. Len(field) PROVE t2[Len(wait) + 1 + g + i] = field[i]
        OBVIOUS
      <4>1. /\ u + 1 + g + i \in 1 .. B /\ u + 1 + g + i > B - L
            /\ (u + 1 + g + i) - (B - L) = i
        <5>1. i \in 1 .. L
          BY <1>3
        <5> QED BY <1>0, <2>1, <5>1
      <4> QED BY <1>1, <2>3, <4>1
    <3>6. wait \in Seq(Byte) /\ Top \in Byte /\ g \in Nat /\ field \in Seq(Byte) /\ t2 \in Seq(Byte)
      <4>1. t2 \in Seq(Byte) /\ wait \in Seq(Byte)
        BY <1>1, <1>11
      <4> QED BY <1>2, <1>3, <2>1, <4>1
    <3>7. MarkedAs(wait, Top, g, field, t2)
      BY <3>1, <3>2, <3>3, <3>4, <3>5, <3>6, Zenon DEF MarkedAs
    <3> QED BY <3>7, MarkedTail
  <2>5. t2 = wait \o pad(g)
    BY <2>4 DEF Marking, Cat, pad
  <2>6. s.fed \o t2 = Padded(a, m)
    BY <1>11, <1>14, <2>1, <2>2, <2>5
  <2>7. s.fed \o none = s.fed
    BY <1>1 DEF none
  <2> QED BY <1>12, <1>15, <2>6, <2>7 DEF head
<1>16. CASE spill
  <2> DEFINE g == (2 * B) - (u + (1 + L))
             t == t1 \o t2
  <2>1. /\ u + 1 > B - L /\ u + 1 <= B /\ g \in Nat /\ g < B
        /\ (u + (1 + L)) + g \in {B, 2 * B} /\ u + 1 + g = (2 * B) - L
    <3>1. u \in Nat /\ L \in Nat /\ B \in Nat /\ u < B /\ L < B /\ u + 1 > B - L
      BY <1>0, <1>16
    <3> QED BY <3>1
  <2> HIDE DEF g
  <2>2. Gap(n, B) = g
    BY <1>4, <2>1
  <2>3. \A j \in 1 .. B : /\ t1[j] = IF j > u + 1 THEN 0
                                     ELSE IF j = u + 1 THEN Top ELSE s.block[j]
                          /\ t2[j] = IF j > B - L THEN field[j - (B - L)] ELSE 0
    <3> SUFFICES ASSUME NEW j \in 1 .. B
                 PROVE  /\ t1[j] = IF j > u + 1 THEN 0
                                   ELSE IF j = u + 1 THEN Top ELSE s.block[j]
                        /\ t2[j] = IF j > B - L THEN field[j - (B - L)] ELSE 0
      OBVIOUS
    <3>1. j \in 1 .. MaxBlock /\ j \in Nat /\ (B - L) + L = B /\ j <= B /\ j > 0
      BY <1>1, <1>2
    <3>2. t2[j] = IF j > B - L THEN field[j - (B - L)] ELSE zeroed[j]
      BY <1>10, <1>11, <3>1
    <3>3. zeroed[j] = IF j <= B - L THEN 0 ELSE base[j]
      BY <1>9, <1>16, <3>1 DEF from
    <3>4. marked[j] = IF j = u + 1 THEN Top ELSE s.block[j]
      BY <1>6, <3>1
    <3>5. t1[j] = IF j > u + 1 THEN 0 ELSE marked[j]
      BY <1>7, <1>11, <3>1
    <3> QED BY <1>1, <1>2, <3>1, <3>2, <3>3, <3>4, <3>5
  <2>4. /\ t \in Seq(Byte) /\ Len(t) = B + B
        /\ \A j \in 1 .. B : t[j] = t1[j]
        /\ \A j \in 1 .. B : t[B + j] = t2[j]
    <3>1. /\ t \in Seq(Byte) /\ Len(t) = Len(t1) + Len(t2)
          /\ \A j \in 1 .. Len(t1) : t[j] = t1[j]
          /\ \A j \in 1 .. Len(t2) : t[Len(t1) + j] = t2[j]
      <4>1. t1 \in Seq(Byte) /\ t2 \in Seq(Byte)
        BY <1>11
      <4> QED BY <4>1, Joined
    <3> QED BY <1>11, <3>1
  <2>5. s.fed \o t = (s.fed \o t1) \o t2
    BY <1>1, <1>13, JoinedPadding
  <2> HIDE DEF t
  <2>6. t = Marking(wait, Top, g, field)
    <3>1. Len(t) = Len(wait) + 1 + g + Len(field)
      <4>1. Len(t) = B + B /\ Len(wait) = u /\ Len(field) = L
        BY <1>1, <1>3, <2>4
      <4>2. u \in Nat /\ L \in Nat /\ B \in Nat
        BY <1>1, <1>2
      <4> QED BY <2>1, <4>1, <4>2
    <3>2. \A j \in 1 .. Len(wait) : t[j] = wait[j]
      <4>1. u \in Nat /\ B \in Nat /\ u < B /\ Len(wait) = u
        BY <1>1
      <4> SUFFICES ASSUME NEW j \in 1 .. u PROVE t[j] = wait[j]
        BY <4>1
      <4>2. j \in 1 .. B /\ ~(j > u + 1) /\ j # u + 1
        BY <4>1
      <4> QED BY <1>1, <2>3, <2>4, <4>2
    <3>3. t[Len(wait) + 1] = Top
      BY <1>1, <1>2, <2>1, <2>3, <2>4
    <3>4. \A i \in 1 .. g : t[Len(wait) + 1 + i] = 0
      <4> SUFFICES ASSUME NEW i \in 1 .. g PROVE t[u + 1 + i] = 0
        BY <1>1
      <4>1. CASE u + 1 + i <= B
        <5>1. u + 1 + i \in 1 .. B /\ u + 1 + i > u + 1
          BY <1>1, <2>1, <4>1
        <5> QED BY <2>3, <2>4, <5>1
      <4>2. CASE u + 1 + i > B
        <5> DEFINE k == (u + 1 + i) - B
        <5>1. k \in 1 .. B /\ ~(k > B - L) /\ B + k = u + 1 + i
          BY <1>1, <1>2, <2>1, <4>2
        <5> HIDE DEF k
        <5>2. t[B + k] = 0
          BY <2>3, <2>4, <5>1
        <5> QED BY <5>1, <5>2
      <4> QED BY <1>1, <4>1, <4>2
    <3>5. \A i \in 1 .. Len(field) : t[Len(wait) + 1 + g + i] = field[i]
      <4> SUFFICES ASSUME NEW i \in 1 .. Len(field) PROVE t[u + 1 + g + i] = field[i]
        BY <1>1
      <4> DEFINE k == (B - L) + i
      <4>1. k \in 1 .. B /\ k > B - L /\ k - (B - L) = i /\ B + k = u + 1 + g + i
        BY <1>1, <1>2, <1>3, <2>1
      <4> HIDE DEF k
      <4>2. t[B + k] = field[i]
        BY <2>3, <2>4, <4>1
      <4> QED BY <4>1, <4>2
    <3>6. wait \in Seq(Byte) /\ Top \in Byte /\ g \in Nat /\ field \in Seq(Byte) /\ t \in Seq(Byte)
      BY <1>1, <1>2, <1>3, <2>1, <2>4
    <3>7. MarkedAs(wait, Top, g, field, t)
      BY <3>1, <3>2, <3>3, <3>4, <3>5, <3>6, Zenon DEF MarkedAs
    <3> QED BY <3>7, MarkedTail
  <2>7. t = wait \o pad(g)
    BY <2>6 DEF Marking, Cat, pad
  <2>8. s.fed \o t = Padded(a, m)
    BY <1>14, <2>1, <2>2, <2>4, <2>7
  <2> QED BY <1>12, <1>16, <2>5, <2>8 DEF head
<1> QED BY <1>15, <1>16

(* crypto_lsh_finalize: the mark and zeros to the end of the block.        *)
LEMMA LshPadded ==
    ASSUME NEW a \in Algs, Family[a] = "LSH", NEW s \in State,
           NEW m \in Seq(Byte), Ready(a, s, m)
    PROVE  FinalizeLsh(a, s).fed = Padded(a, m)
<1> DEFINE B    == Block[a]
           u    == s.used
           none == <<>>
           base == Clear(s.block, u, B)
           last == Put(base, u, <<Top>>)
           t    == SubSeq(last, 1, B)
           wait == SubSeq(s.block, 1, u)
           g    == B - (u + 1)
           mark == <<Top>> \o Fill(g)
<1> HIDE DEF B, u, none, base, last, t, wait, g, mark
<1>1. /\ B \in 1 .. MaxBlock /\ B \in Nat \ {0} /\ MaxBlock \in Nat
      /\ u \in Nat /\ u < B /\ s.block \in BlockArray
  BY ReadyLengths DEF B, u
<1>2. wait \in Seq(Byte) /\ Len(wait) = u /\ \A j \in 1 .. u : wait[j] = s.block[j]
  BY ReadyLengths DEF u, wait
<1>3. s.fed \in Seq(Nat) /\ m = s.fed \o wait /\ Len(m) \in Nat
  BY SMTT(20), ReadyLengths DEF u, wait
<1>4. g \in Nat /\ g < B /\ (u + 1) + g = B /\ u + 1 + g = B
  BY <1>1 DEF g
<1>5. Gap(Len(m) + 1, B) = g
  <2>1. (u + 1) + g \in {B, 2 * B}
    BY <1>4
  <2> QED BY <1>4, <2>1, ReadyLengths DEF B, u
<1>6. Padded(a, m) = m \o mark
  <2>1. Padding(a, Len(m)) = <<Top>> \o Fill(Gap(Len(m) + 1, B))
    BY DEF Padding, B, LengthFamilies, SpongeFamilies
  <2> QED BY <1>5, <2>1 DEF Padded, mark
<1>7. /\ base \in BlockArray
      /\ \A j \in 1 .. MaxBlock : base[j] = IF j > u /\ j <= B THEN 0 ELSE s.block[j]
  <2>1. u \in Nat /\ B \in Int
    BY <1>1
  <2> QED BY <1>1, <2>1, ClearedBytes DEF base
<1>8. Top \in Byte
  BY HashConstants DEF Top, Byte
<1>9. MarkedAt(base, u, Top, last)
  BY <1>1, <1>7, <1>8, MarkedByte DEF last
<1>10. t \in Seq(Byte) /\ Len(t) = B /\ \A j \in 1 .. B : t[j] = last[j]
  <2>1. last \in BlockArray /\ B \in 0 .. MaxBlock
    BY <1>1, <1>9 DEF MarkedAt
  <2> QED BY <2>1, TakeBlock DEF t
<1>11. ASSUME NEW j \in 1 .. B
       PROVE  t[j] = IF j = u + 1 THEN Top ELSE IF j > u THEN 0 ELSE s.block[j]
  <2>1. j \in 1 .. MaxBlock /\ j \in Nat /\ j <= B
    BY <1>1
  <2>2. t[j] = IF j = u + 1 THEN Top ELSE base[j]
    BY <1>9, <1>10, <2>1 DEF MarkedAt
  <2>3. base[j] = IF j > u THEN 0 ELSE s.block[j]
    BY <1>7, <2>1
  <2> QED BY <2>2, <2>3
<1>12. none \in Seq(Byte) /\ Len(none) = 0
  BY DEF none
<1>13. MarkedAs(wait, Top, g, none, t)
  <2>1. Len(t) = Len(wait) + 1 + g + Len(none)
    BY <1>1, <1>2, <1>4, <1>10, <1>12
  <2>2. \A j \in 1 .. Len(wait) : t[j] = wait[j]
    <3> SUFFICES ASSUME NEW j \in 1 .. u PROVE t[j] = wait[j]
      BY <1>2
    <3>1. j \in 1 .. B /\ j # u + 1 /\ ~(j > u)
      BY <1>1
    <3> QED BY <1>2, <1>11, <3>1
  <2>3. t[Len(wait) + 1] = Top
    <3>1. u + 1 \in 1 .. B
      BY <1>1
    <3> QED BY <1>2, <1>11, <3>1
  <2>4. \A i \in 1 .. g : t[Len(wait) + 1 + i] = 0
    <3> SUFFICES ASSUME NEW i \in 1 .. g PROVE t[u + 1 + i] = 0
      BY <1>2
    <3>1. u + 1 + i \in 1 .. B /\ u + 1 + i # u + 1 /\ u + 1 + i > u
      BY <1>1, <1>4
    <3> QED BY <1>11, <3>1
  <2>5. \A i \in 1 .. Len(none) : t[Len(wait) + 1 + g + i] = none[i]
    BY <1>12
  <2>6. wait \in Seq(Byte) /\ g \in Nat /\ t \in Seq(Byte)
    BY <1>2, <1>4, <1>10
  <2> QED BY <1>8, <1>12, <2>1, <2>2, <2>3, <2>4, <2>5, <2>6, Zenon DEF MarkedAs
<1>14. mark \in Seq(Byte)
  <2>1. <<Top>> \in Seq(Byte) /\ Fill(g) \in Seq(Byte)
    BY <1>4, <1>8, HashConstants DEF Fill, Byte
  <2> HIDE DEF Fill
  <2> QED BY <2>1, ConcatProperties DEF mark
<1>15. t = wait \o mark
  <2>1. t = wait \o (mark \o none)
    BY <1>13, MarkedTail DEF Marking, Cat, mark
  <2>2. mark \o none = mark
    BY <1>14 DEF none
  <2> QED BY <2>1, <2>2
<1>16. s.fed \o t = Padded(a, m)
  <2>1. wait \in Seq(Nat) /\ mark \in Seq(Nat)
    BY <1>2, <1>14, ByteSeq
  <2> QED BY <1>3, <1>6, <1>15, <2>1, JoinedPadding
<1>17. FinalizeLsh(a, s).fed = s.fed \o t
  <2> DEFINE fed == s.fed \o t
  <2>1. FinalizeLsh(a, s) = Emptied(s, fed, Fill(MaxBlock))
    BY DEF Emptied, FinalizeLsh, t, last, base, B, u
  <2> HIDE DEF fed
  <2>2. Emptied(s, fed, Fill(MaxBlock)).fed = fed
    BY DEF Emptied, State
  <2> QED BY <2>1, <2>2 DEF fed
<1> QED BY <1>16, <1>17

(* crypto_sha3_finalize: the domain byte and the top bit are added to the  *)
(* zeros behind the message.                                               *)
LEMMA SpongePadded ==
    ASSUME NEW a \in Algs, Family[a] \in SpongeFamilies, NEW s \in State,
           NEW m \in Seq(Byte), Ready(a, s, m),
           \A j \in 1 .. MaxBlock : j > s.used => s.block[j] = 0
    PROVE  FinalizeSponge(a, s).fed = Padded(a, m)
<1> DEFINE B    == Block[a]
           u    == s.used
           wait == SubSeq(s.block, 1, u)
           g    == B - (u + 1)
           D    == Domain[a]
           last == [j \in 1 .. B |-> (s.block[j] + (IF j = u + 1 THEN D ELSE 0))
                                     + (IF j = B THEN Top ELSE 0)]
           pad  == [j \in 1 .. 1 + g |-> (IF j = 1 THEN D ELSE 0)
                                         + (IF j = 1 + g THEN Top ELSE 0)]
           t    == wait \o pad
<1> HIDE DEF B, u, wait, g, D, last, pad, t
<1>1. /\ B \in 1 .. MaxBlock /\ B \in Nat \ {0} /\ MaxBlock \in Nat
      /\ u \in Nat /\ u < B /\ s.block \in BlockArray
  BY ReadyLengths DEF B, u
<1>2. wait \in Seq(Nat) /\ Len(wait) = u /\ \A j \in 1 .. u : wait[j] = s.block[j]
  <2>1. wait \in Seq(Byte) /\ Len(wait) = u /\ \A j \in 1 .. u : wait[j] = s.block[j]
    BY ReadyLengths DEF u, wait
  <2> QED BY <2>1, ByteSeq
<1>3. s.fed \in Seq(Nat) /\ m = s.fed \o wait /\ Len(m) \in Nat
  <2>1. s.fed \in Seq(Nat) /\ m = s.fed \o SubSeq(s.block, 1, s.used) /\ Len(m) \in Nat
    BY DEF Ready, Taken, State
  <2> QED BY <2>1 DEF u, wait
<1>4. g \in Nat /\ g < B /\ (u + 1) + g = B
  BY <1>1 DEF g
<1>5. Gap(Len(m) + 1, B) = g
  <2>1. (u + 1) + g \in {B, 2 * B}
    BY <1>4
  <2> QED BY <1>4, <2>1, ReadyLengths DEF B, u
<1>6. Padded(a, m) = m \o pad
  <2>1. Padding(a, Len(m)) = pad
    <3>1. Padding(a, Len(m))
            = [j \in 1 .. 1 + Gap(Len(m) + 1, B) |->
                 (IF j = 1 THEN D ELSE 0)
                 + (IF j = 1 + Gap(Len(m) + 1, B) THEN Top ELSE 0)]
      BY DEF Padding, B, D, LengthFamilies, SpongeFamilies
    <3> QED BY <1>5, <3>1 DEF pad
  <2> QED BY <2>1 DEF Padded
<1>7. Top \in Nat /\ D \in Nat /\ \A j \in 1 .. B : s.block[j] \in Nat
  <2>1. Top \in Nat /\ D \in Nat
    BY HashConstants DEF Top, D
  <2>2. \A j \in 1 .. MaxBlock : s.block[j] \in Nat
    BY <1>1, HashConstants DEF BlockArray, Byte
  <2> QED BY <1>1, <2>1, <2>2
<1>8. /\ last \in Seq(Nat) /\ Len(last) = B
      /\ \A j \in 1 .. B : last[j] = (s.block[j] + (IF j = u + 1 THEN D ELSE 0))
                                    + (IF j = B THEN Top ELSE 0)
  <2>1. last \in [1 .. B -> Nat]
    BY <1>7 DEF last
  <2>2. last \in Seq(Nat) /\ DOMAIN last = 1 .. B
    BY <1>1, <2>1
  <2>3. Len(last) = B
    BY <1>1, <2>2
  <2> QED BY <2>2, <2>3 DEF last
<1>9. /\ pad \in Seq(Nat) /\ Len(pad) = 1 + g
      /\ \A j \in 1 .. 1 + g : pad[j] = (IF j = 1 THEN D ELSE 0)
                                        + (IF j = 1 + g THEN Top ELSE 0)
  <2>1. pad \in [1 .. 1 + g -> Nat] /\ 1 + g \in Nat
    BY <1>4, <1>7 DEF pad
  <2>2. pad \in Seq(Nat) /\ DOMAIN pad = 1 .. 1 + g
    BY <2>1
  <2>3. Len(pad) = 1 + g
    BY <2>1, <2>2
  <2> QED BY <2>2, <2>3 DEF pad
<1>10. /\ t \in Seq(Nat) /\ Len(t) = B
       /\ \A j \in 1 .. u : t[j] = s.block[j]
       /\ \A j \in 1 .. 1 + g : t[u + j] = pad[j]
  <2>1. /\ t \in Seq(Nat) /\ Len(t) = Len(wait) + Len(pad)
        /\ \A j \in 1 .. Len(wait) : t[j] = wait[j]
        /\ \A j \in 1 .. Len(pad) : t[Len(wait) + j] = pad[j]
    <3>1. wait \in Seq(Nat) /\ pad \in Seq(Nat)
      BY <1>2, <1>9
    <3> QED BY <3>1, Joined DEF t
  <2>2. u + (1 + g) = B
    BY <1>1, <1>4
  <2> QED BY <1>2, <1>9, <2>1, <2>2
<1>11. ASSUME NEW j \in 1 .. B
       PROVE  last[j] = t[j]
  <2>1. j \in Nat /\ j \in 1 .. MaxBlock
    BY <1>1
  <2>2. CASE j <= u
    <3>1. j \in 1 .. u /\ j # u + 1 /\ j # B
      BY <1>1, <2>1, <2>2
    <3>2. s.block[j] \in Nat
      BY <1>7
    <3>3. last[j] = (s.block[j] + 0) + 0
      BY <1>8, <3>1
    <3> QED BY <1>10, <3>1, <3>2, <3>3
  <2>3. CASE j > u
    <3> DEFINE k == j - u
    <3>1. /\ k \in 1 .. 1 + g /\ u + k = j
          /\ (k = 1 <=> j = u + 1) /\ (k = 1 + g <=> j = B)
      BY <1>1, <1>4, <2>1, <2>3
    <3> HIDE DEF k
    <3>2. s.block[j] = 0
      BY <2>1, <2>3 DEF u
    <3>3. t[j] = (IF j = u + 1 THEN D ELSE 0) + (IF j = B THEN Top ELSE 0)
      BY <1>9, <1>10, <3>1
    <3> QED BY <1>7, <1>8, <3>2, <3>3
  <2> QED BY <1>1, <2>1, <2>2, <2>3
<1>12. last = t
  BY <1>8, <1>10, <1>11, SeqEqual
<1>13. FinalizeSponge(a, s).fed = s.fed \o last
  <2> DEFINE fed == s.fed \o last
  <2>1. FinalizeSponge(a, s) = Emptied(s, fed, Fill(MaxBlock))
    BY DEF Emptied, FinalizeSponge, DomainByte, last, B, u, D
  <2> HIDE DEF fed
  <2>2. Emptied(s, fed, Fill(MaxBlock)).fed = fed
    BY DEF Emptied, State
  <2> QED BY <2>1, <2>2 DEF fed
<1> QED BY <1>3, <1>6, <1>2, <1>9, <1>12, <1>13, JoinedPadding DEF t

----------------------------------------------------------------------------
(* A context that accepts input.                                           *)
Open(a, s, m) ==
    /\ Ready(a, s, m)
    /\ Family[a] \in SpongeFamilies =>
          \A j \in 1 .. MaxBlock : j > s.used => s.block[j] = 0
    /\ s.perms = 0

(* LIBERAC_HASH_INIT leaves one that has accepted nothing.                 *)
LEMMA FreshOpen ==
    ASSUME NEW a \in Algs
    PROVE  Open(a, Fresh, <<>>)
<1> DEFINE none == <<>>
<1>1. /\ Fresh.low = 0 /\ Fresh.high = 0 /\ Fresh.perms = 0
      /\ \A j \in 1 .. MaxBlock : Fresh.block[j] = 0
  BY DEF Fresh, Fill
<1>2. Fresh.used = 0 /\ Fresh.fed = <<>> /\ Taken(Fresh) = <<>>
  BY FreshContext
<1>3. Len(none) = 0
  OBVIOUS
<1>4. Counters(a, Fresh, none)
  <2>1. Word \in Nat \ {0} /\ BitsPerByte \in Nat
    BY HashConstants, LengthConstants
  <2> HIDE DEF none
  <2> QED BY <1>1, <1>3, <2>1 DEF Counters
<1>5. Fits(a, 0)
  <2>1. MaxMessage \in Nat
    BY HashConstants, LengthConstants, Division DEF MaxMessage
  <2> QED BY <2>1 DEF Fits
<1>6. Fresh.used < Block[a] /\ Len(Fresh.fed) % Block[a] = 0
  BY EmptyIsWhole, FreshContext DEF KeptWhole
<1>7. Ready(a, Fresh, none)
  BY <1>2, <1>3, <1>4, <1>5, <1>6 DEF Ready
<1> QED BY <1>1, <1>7 DEF Open

(* The fields an update of the buffer leaves alone, and what the sponge    *)
(* holds behind the bytes that wait.                                       *)
LEMMA AbsorbFields ==
    ASSUME NEW B, NEW s \in State, NEW input
    PROVE  /\ AbsorbBuffered(B, s, input).low = s.low
           /\ AbsorbBuffered(B, s, input).high = s.high
           /\ AbsorbBuffered(B, s, input).perms = s.perms
           /\ AbsorbSponge(B, s, input).low = s.low
           /\ AbsorbSponge(B, s, input).high = s.high
           /\ AbsorbSponge(B, s, input).perms = s.perms
BY DEF AbsorbBuffered, AbsorbSponge, State

(* Behind the bytes that wait a sponge holds zeros.                        *)
LEMMA SpongeZeros ==
    ASSUME NEW R \in 1 .. MaxBlock, NEW s \in State, NEW input \in Seq(Byte),
           s.used < R
    PROVE  \A j \in 1 .. MaxBlock :
              j > AbsorbSponge(R, s, input).used => AbsorbSponge(R, s, input).block[j] = 0
<1> DEFINE pending == SubSeq(s.block, 1, s.used) \o input
           tail    == Drop(pending, Whole(Len(pending), R))
           t       == AbsorbSponge(R, s, input)
           zeros   == Fill(MaxBlock)
<1>1. tail \in Seq(Byte)
  <2>1. s.block \in BlockArray /\ s.used \in 0 .. MaxBlock
    BY DEF State, BlockArray
  <2>2. SubSeq(s.block, 1, s.used) \in Seq(Byte)
    BY <2>1, TakeBlock
  <2>3. pending \in Seq(Byte)
    BY <2>2, ConcatProperties
  <2>4. Whole(Len(pending), R) \in 0 .. Len(pending)
    <3>1. Len(pending) \in Nat /\ R \in Nat \ {0}
      BY <2>3, ContextConstants
    <3> QED BY <3>1, WholeBlocks
  <2> HIDE DEF pending
  <2> QED BY <2>3, <2>4, TakeDrop DEF Drop
<1>2. t.used = Len(tail) /\ t.block = Put(zeros, 0, tail)
  BY DEF AbsorbSponge, State
<1> HIDE DEF tail, t, zeros
<1>3. zeros \in BlockArray /\ \A j \in 1 .. MaxBlock : zeros[j] = 0
  BY HashConstants DEF zeros, Fill, BlockArray, Byte
<1>4. \A j \in 1 .. MaxBlock :
         Put(zeros, 0, tail)[j] = IF j > 0 /\ j <= 0 + Len(tail) THEN tail[j - 0] ELSE zeros[j]
  BY <1>1, <1>3, PutBytes
<1>5. ASSUME NEW j \in 1 .. MaxBlock, j > t.used
      PROVE  t.block[j] = 0
  <2>1. ~(j <= 0 + Len(tail))
    BY <1>1, <1>2, <1>5, ContextConstants
  <2> QED BY <1>2, <1>3, <1>4, <2>1
<1> QED BY <1>5 DEF t

(* LIBERAC_HASH_UPDATE keeps it so.                                        *)
LEMMA AbsorbedOpen ==
    ASSUME NEW a \in Algs, NEW s \in State, NEW m \in Seq(Byte), Open(a, s, m),
           NEW input \in Seq(Byte), Len(input) < Word, LengthFits(a, s, Len(input))
    PROVE  Absorb(a, s, input) \in State /\ Open(a, Absorb(a, s, input), m \o input)
<1> DEFINE n == Len(input)
           t == Absorb(a, s, input)
           r == AddLength(a, s, n)
           more == m \o input
<1>1. n \in 0 .. Word - 1 /\ n \in Nat
  BY LengthConstants
<1>2. Fits(a, Len(m)) /\ Counters(a, s, m) /\ s.used < Block[a]
      /\ Len(s.fed) % Block[a] = 0 /\ Taken(s) = m /\ s.perms = 0
  BY DEF Open, Ready
<1>3. TakesIn(Block[a], s, input, t)
  BY <1>2, AbsorbKeepsInput
<1>4. more \in Seq(Byte) /\ Len(more) = Len(m) + n
  BY ConcatProperties
<1>5. Fits(a, Len(m) + n)
  BY <1>1, <1>2, LimitHolds
<1>6. r \in State /\ r.perms = s.perms /\ Counters(a, r, more)
  <2> HIDE DEF n, more, r
  <2>1. LengthFits(a, s, n)
    BY DEF n
  <2>2. r = AddLength(a, s, n)
    BY DEF r
  <2> QED BY <1>1, <1>2, <1>4, <2>1, <2>2, CountersAdvance, AddLengthType
<1>7. /\ t \in State /\ t.used < Block[a] /\ Len(t.fed) % Block[a] = 0
      /\ Taken(t) = more /\ Fits(a, Len(more))
  <2> HIDE DEF t, more, n
  <2> QED BY <1>2, <1>3, <1>4, <1>5 DEF TakesIn, more
<1>8. CASE Family[a] \in SpongeFamilies
  <2>1. t = AbsorbSponge(Block[a], s, input)
    BY <1>8 DEF Absorb
  <2>2. t.perms = 0
    BY <1>2, <2>1, AbsorbFields
  <2>3. Block[a] \in 1 .. MaxBlock
    BY HashConstants, ContextConstants
  <2>4. \A j \in 1 .. MaxBlock : j > t.used => t.block[j] = 0
    BY <1>2, <2>1, <2>3, SpongeZeros
  <2>5. Counters(a, t, more)
    BY <1>8 DEF Counters, SpongeFamilies
  <2>6. Open(a, t, more)
    <3> HIDE DEF t, more
    <3> QED BY <1>7, <2>2, <2>4, <2>5 DEF Open, Ready
  <2> QED BY <1>7, <2>6 DEF t, more
<1>9. CASE Family[a] \notin SpongeFamilies
  <2>1. t = AbsorbBuffered(Block[a], r, input)
    BY <1>9 DEF Absorb
  <2> HIDE DEF t, r
  <2>2. t.low = r.low /\ t.high = r.high /\ t.perms = 0
    BY <1>2, <1>6, <2>1, AbsorbFields
  <2>3. Counters(a, t, more)
    BY <1>6, <2>2 DEF Counters
  <2>4. Open(a, t, more)
    <3> HIDE DEF more
    <3> QED BY <1>9, <1>7, <2>2, <2>3 DEF Open, Ready
  <2> QED BY <1>7, <2>4 DEF t, more
<1> QED BY <1>8, <1>9

(* LIBERAC_HASH_FINALIZE compresses the message padded as its standard     *)
(* says and is ready to deliver.                                           *)
LEMMA FinalizedStandard ==
    ASSUME NEW a \in Algs, NEW s \in State, NEW m \in Seq(Byte), Open(a, s, m)
    PROVE  /\ Finalize(a, s) \in State /\ Finalize(a, s).fed = Padded(a, m)
           /\ Finalize(a, s).used = 0 /\ Finalize(a, s).perms = 0
<1>1. Ready(a, s, m) /\ s.perms = 0
  BY DEF Open
<1>2. CASE Family[a] \in LengthFamilies
  <2>1. Finalize(a, s) = FinalizeLength(a, s)
    BY <1>2 DEF Finalize, LengthFamilies, SpongeFamilies
  <2>2. FinalizeLength(a, s).used = 0 /\ FinalizeLength(a, s).perms = s.perms
    BY DEF FinalizeLength, State
  <2>3. FinalizeLength(a, s).fed = Padded(a, m)
    BY <1>1, <1>2, LengthPadded
  <2> QED BY <1>1, <2>1, <2>2, <2>3, FinalizeType
<1>3. CASE Family[a] = "LSH"
  <2>1. Finalize(a, s) = FinalizeLsh(a, s)
    BY <1>3 DEF Finalize, LengthFamilies, SpongeFamilies
  <2>2. FinalizeLsh(a, s).used = 0 /\ FinalizeLsh(a, s).perms = s.perms
    BY DEF FinalizeLsh, State
  <2>3. FinalizeLsh(a, s).fed = Padded(a, m)
    BY <1>1, <1>3, LshPadded
  <2> QED BY <1>1, <2>1, <2>2, <2>3, FinalizeType
<1>4. CASE Family[a] \in SpongeFamilies
  <2>1. Finalize(a, s) = FinalizeSponge(a, s)
    BY <1>4 DEF Finalize, LengthFamilies, SpongeFamilies
  <2>2. FinalizeSponge(a, s).used = 0 /\ FinalizeSponge(a, s).perms = s.perms
    BY DEF FinalizeSponge, State
  <2>3. FinalizeSponge(a, s).fed = Padded(a, m)
    BY <1>1, <1>4, SpongePadded DEF Open
  <2> QED BY <1>1, <2>1, <2>2, <2>3, FinalizeType
<1> QED BY <1>2, <1>3, <1>4, HashConstants

----------------------------------------------------------------------------
(* What is delivered.                                                      *)

(* The position in the output that a sponge has been squeezed to.          *)
Position(a, s) == (Block[a] * s.perms) + s.used

(* crypto_sha3_squeeze delivers the bytes of the stream from there on.     *)
LEMMA SqueezeRight ==
    ASSUME NEW a \in Algs, NEW s \in State, NEW m \in Seq(Byte),
           Family[a] \in SpongeFamilies, s.fed = Padded(a, m),
           NEW n \in Nat, NEW i \in 1 .. n
    PROVE  SqueezeBytes(a, s, n)[i] = Stream(a, m, Position(a, s) + i - 1)
<1> DEFINE B  == Block[a]
           at == s.used + i - 1
           k  == Position(a, s) + i - 1
<1>1. /\ B \in Nat \ {0} /\ s.perms \in Nat /\ s.used \in Nat /\ i \in Nat /\ at \in Nat
  BY HashConstants, ContextConstants DEF State
<1>2. SqueezeBytes(a, s, n)[i] = OutByte(a, s.fed, s.perms + (at \div B), at % B)
  BY DEF SqueezeBytes
<1>3. k = B * s.perms + at
  <2> HIDE DEF B
  <2>1. B * s.perms \in Nat
    BY <1>1
  <2> QED BY <1>1, <2>1 DEF Position, B
<1>4. Stream(a, m, k) = OutByte(a, Padded(a, m), k \div B, k % B)
  BY DEF Stream
<1> HIDE DEF B, at, k
<1>5. k \div B = s.perms + (at \div B) /\ k % B = at % B
  BY <1>1, <1>3, PartsDivide
<1> QED BY <1>2, <1>4, <1>5 DEF k

(* and moves by the number of bytes delivered.                             *)
LEMMA SqueezeMoves ==
    ASSUME NEW a \in Algs, NEW s \in State, NEW n \in Nat
    PROVE  /\ SqueezeState(a, s, n).fed = s.fed
           /\ Position(a, SqueezeState(a, s, n)) = Position(a, s) + n
<1> DEFINE B == Block[a]
           t == SqueezeState(a, s, n)
<1>1. B \in Nat \ {0} /\ s.perms \in Nat /\ s.used \in Nat
  BY HashConstants, ContextConstants DEF State
<1>2. CASE n = 0
  <2>1. Position(a, s) \in Nat
    BY <1>1 DEF Position
  <2> QED BY <1>2, <2>1 DEF SqueezeState
<1>3. CASE n # 0
  <2> DEFINE last == s.used + n - 1
             q == last \div B
             r == last % B
  <2>1. last \in Nat
    BY <1>1, <1>3
  <2>2. t = [s EXCEPT !.perms = s.perms + q, !.used = r + 1]
    BY <1>3 DEF SqueezeState
  <2> HIDE DEF t
  <2>3. last = B * q + r /\ q \in Nat /\ r \in Nat
    <3> HIDE DEF last, B
    <3>1. last \in Nat /\ B \in Nat \ {0}
      BY <1>1, <2>1
    <3> QED BY <3>1, Division
  <2>4. last + 1 = s.used + n
    BY <1>1
  <2> HIDE DEF last, q, r
  <2>5. t.fed = s.fed /\ t.perms = s.perms + q /\ t.used = r + 1
    BY <2>2 DEF State
  <2> HIDE DEF B
  <2>6. B * (s.perms + q) + (r + 1) = (B * s.perms + s.used) + n
    <3>1. B * (s.perms + q) = B * s.perms + B * q /\ B * s.perms \in Nat /\ B * q \in Nat
      BY <1>1, <2>3
    <3> QED BY SMTT(20), <1>1, <2>3, <2>4, <3>1
  <2> QED BY <2>5, <2>6 DEF Position, B, t
<1> QED BY <1>2, <1>3

(* crypto_*_squeeze of a fixed-length digest delivers the digest.          *)
LEMMA DigestRight ==
    ASSUME NEW a \in Algs, NEW s \in State, NEW m \in Seq(Byte),
           s.fed = Padded(a, m), s.used = 0, s.perms = 0
    PROVE  DigestBytes(a, s) = Digest(a, m)
<1>1. DigestLen[a] \in Nat /\ Block[a] \in Nat
  BY HashConstants
<1>2. CASE Family[a] \in SpongeFamilies
  <2>1. \A i \in 1 .. DigestLen[a] : Position(a, s) + i - 1 = i - 1
    <3>1. Position(a, s) = 0
      BY <1>1 DEF Position
    <3> QED BY <3>1, <1>1
  <2>2. \A i \in 1 .. DigestLen[a] : SqueezeBytes(a, s, DigestLen[a])[i] = Stream(a, m, i - 1)
    BY <1>1, <1>2, <2>1, SqueezeRight
  <2>3. SqueezeBytes(a, s, DigestLen[a])
          = [i \in 1 .. DigestLen[a] |-> SqueezeBytes(a, s, DigestLen[a])[i]]
    BY DEF SqueezeBytes
  <2>4. DigestBytes(a, s) = SqueezeBytes(a, s, DigestLen[a])
    BY <1>2 DEF DigestBytes
  <2> QED BY <2>2, <2>3, <2>4, Zenon DEF Digest
<1>3. CASE Family[a] \notin SpongeFamilies
  BY <1>3 DEF DigestBytes, Digest, Stream
<1> QED BY <1>2, <1>3

----------------------------------------------------------------------------
(* The second inductive invariant: in each phase a context holds what its  *)
(* standard says.                                                          *)
Squeezed(a, s, m, o) ==
    /\ IsShake(a) /\ Len(o) = Position(a, s)
    /\ \A k \in 1 .. Len(o) : o[k] = Stream(a, m, k - 1)

Standard(p, a, s, m, o) ==
    /\ p = "CLEARED" => o = <<>>
    /\ p # "CLEARED" => Fits(a, Len(m))
    /\ p = "ABSORBING" => Open(a, s, m) /\ o = <<>>
    /\ p \in {"FINALIZED", "SQUEEZING"} => s.fed = Padded(a, m)
    /\ p = "FINALIZED" => s.used = 0 /\ s.perms = 0 /\ o = <<>>
    /\ p = "SQUEEZING" => Squeezed(a, s, m, o)
    /\ p = "CONSUMED" => ~IsShake(a) /\ o = Digest(a, m)

AllStandard ==
    \A c \in Contexts : Standard(phase[c], alg[c], st[c], absorbed[c], out[c])

SInv == IInv /\ AllStandard

(* A step that changes context c alone keeps it if it does for c.          *)
LEMMA OneStandard ==
    ASSUME SInv, NEW c \in Contexts,
           NEW p, NEW a, NEW s, NEW m, NEW o,
           phase' = [phase EXCEPT ![c] = p], alg' = [alg EXCEPT ![c] = a],
           st' = [st EXCEPT ![c] = s], absorbed' = [absorbed EXCEPT ![c] = m],
           out' = [out EXCEPT ![c] = o], Standard(p, a, s, m, o)
    PROVE  AllStandard'
<1>1. /\ phase \in [Contexts -> Phases] /\ alg \in [Contexts -> Algs \cup {NoAlg}]
      /\ st \in [Contexts -> State] /\ absorbed \in [Contexts -> Seq(Byte)]
      /\ out \in [Contexts -> Seq(OutBytes)]
  BY DEF SInv, IInv, TypeOK
<1>2. ASSUME NEW d \in Contexts
      PROVE  Standard(phase'[d], alg'[d], st'[d], absorbed'[d], out'[d])
  <2>1. CASE d = c
    <3>1. phase'[d] = p /\ alg'[d] = a /\ st'[d] = s /\ absorbed'[d] = m /\ out'[d] = o
      BY <1>1, <2>1
    <3> QED BY <3>1
  <2>2. CASE d # c
    <3>1. /\ phase'[d] = phase[d] /\ alg'[d] = alg[d] /\ st'[d] = st[d]
          /\ absorbed'[d] = absorbed[d] /\ out'[d] = out[d]
      BY <1>1, <2>2
    <3>2. Standard(phase[d], alg[d], st[d], absorbed[d], out[d])
      BY DEF SInv, AllStandard
    <3> QED BY <3>1, <3>2
  <2> QED BY <2>1, <2>2
<1> QED BY <1>2 DEF AllStandard

(* A step that leaves the contexts alone.                                  *)
LEMMA SameStandard ==
    ASSUME SInv, UNCHANGED <<phase, alg, st, absorbed, out>>
    PROVE  AllStandard'
BY DEF SInv, AllStandard

(* LIBERAC_HASH_INIT.                                                      *)
LEMMA InitStandard ==
    ASSUME SInv, NEW c \in Contexts, NEW a \in Algs, HashInit(c, a)
    PROVE  AllStandard'
<1>1. Open(a, Fresh, <<>>) /\ Len(<<>>) = 0
  BY FreshOpen
<1>2. Fits(a, Len(<<>>))
  BY <1>1 DEF Open, Ready
<1>3. Standard("ABSORBING", a, Fresh, <<>>, <<>>)
  BY <1>1, <1>2 DEF Standard
<1> QED BY <1>3, OneStandard DEF HashInit, Forget

(* LIBERAC_HASH_CLEAR and LIBERAC_HASH_INIT of an unknown identifier.      *)
LEMMA EraseStandard ==
    ASSUME SInv, NEW c \in Contexts, Erase(c)
    PROVE  AllStandard'
<1>1. Standard("CLEARED", NoAlg, Fresh, <<>>, <<>>)
  BY DEF Standard
<1> QED BY <1>1, OneStandard DEF Erase, Forget

(* The chunks of LIBERAC_HASH_UPDATE are bytes.                            *)
LEMMA InputsAreBytes ==
    ASSUME NEW input \in Inputs
    PROVE  input \in Seq(Byte) /\ Len(input) < Word
<1>1. PICK n \in 0 .. MaxChunk : input \in [1 .. n -> Data]
  BY DEF Inputs
<1>2. Data \subseteq Byte /\ MaxChunk \in Nat /\ Word \in Nat /\ MaxChunk < Word
  BY ContextConstants, LengthConstants
<1>3. input \in [1 .. n -> Byte] /\ n \in Nat
  BY <1>1, <1>2
<1> QED BY <1>2, <1>3

(* What the two invariants say of one context.                             *)
LEMMA ContextStandard ==
    ASSUME SInv, NEW c \in Contexts
    PROVE  /\ phase[c] \in Phases /\ alg[c] \in Algs \cup {NoAlg} /\ st[c] \in State
           /\ absorbed[c] \in Seq(Byte) /\ out[c] \in Seq(OutBytes)
           /\ phase[c] # "CLEARED" => alg[c] \in Algs
           /\ Standard(phase[c], alg[c], st[c], absorbed[c], out[c])
BY ContextTypes DEF SInv, AllStandard

(* LIBERAC_HASH_UPDATE.                                                    *)
LEMMA UpdateStandard ==
    ASSUME SInv, NEW c \in Contexts, NEW input \in Inputs, HashUpdate(c, input)
    PROVE  AllStandard'
<1> DEFINE a == alg[c]
           s == Absorb(a, st[c], input)
           m == absorbed[c] \o input
<1>1. phase[c] = "ABSORBING" /\ LengthFits(a, st[c], Len(input))
  BY DEF HashUpdate
<1>2. /\ a \in Algs /\ st[c] \in State /\ absorbed[c] \in Seq(Byte)
      /\ Open(a, st[c], absorbed[c]) /\ out[c] = <<>>
  BY <1>1, ContextStandard DEF Standard
<1>3. input \in Seq(Byte) /\ Len(input) < Word
  BY InputsAreBytes
<1>4. Open(a, s, m)
  BY <1>1, <1>2, <1>3, AbsorbedOpen
<1>5. /\ st' = [st EXCEPT ![c] = s] /\ absorbed' = [absorbed EXCEPT ![c] = m]
      /\ phase' = phase /\ alg' = alg /\ out' = out
  BY DEF HashUpdate
<1> HIDE DEF s, m
<1>6. /\ phase' = [phase EXCEPT ![c] = "ABSORBING"] /\ alg' = [alg EXCEPT ![c] = a]
      /\ out' = [out EXCEPT ![c] = <<>>]
  BY <1>1, <1>2, <1>5 DEF SInv, IInv, TypeOK
<1>7. Fits(a, Len(m))
  BY <1>4 DEF Open, Ready
<1> HIDE DEF a
<1>8. Standard("ABSORBING", a, s, m, <<>>)
  BY <1>4, <1>7 DEF Standard
<1> QED BY <1>5, <1>6, <1>8, OneStandard

(* LIBERAC_HASH_FINALIZE.                                                  *)
LEMMA FinalizeStandard ==
    ASSUME SInv, NEW c \in Contexts, HashFinalize(c)
    PROVE  AllStandard'
<1> DEFINE a == alg[c]
           s == Finalize(a, st[c])
           m == absorbed[c]
<1>1. phase[c] = "ABSORBING"
  BY DEF HashFinalize
<1>2. /\ a \in Algs /\ st[c] \in State /\ m \in Seq(Byte)
      /\ Open(a, st[c], m) /\ out[c] = <<>> /\ Fits(a, Len(m))
  BY <1>1, ContextStandard DEF Standard
<1>3. s.fed = Padded(a, m) /\ s.used = 0 /\ s.perms = 0
  BY <1>2, FinalizedStandard
<1>4. /\ st' = [st EXCEPT ![c] = s] /\ phase' = [phase EXCEPT ![c] = "FINALIZED"]
      /\ alg' = alg /\ absorbed' = absorbed /\ out' = out
  BY DEF HashFinalize
<1> HIDE DEF s
<1>5. /\ alg' = [alg EXCEPT ![c] = a] /\ absorbed' = [absorbed EXCEPT ![c] = m]
      /\ out' = [out EXCEPT ![c] = <<>>]
  BY <1>2, <1>4 DEF SInv, IInv, TypeOK
<1> HIDE DEF a, m
<1>6. Standard("FINALIZED", a, s, m, <<>>)
  BY <1>2, <1>3 DEF Standard
<1> QED BY ZenonT(40), <1>4, <1>5, <1>6, OneStandard

(* Pieces of an output joined: byte k of what was delivered.               *)
LEMMA StreamGoesOn ==
    ASSUME NEW a, NEW m, NEW o \in Seq(OutBytes), NEW b \in Seq(OutBytes),
           \A k \in 1 .. Len(o) : o[k] = Stream(a, m, k - 1),
           \A i \in 1 .. Len(b) : b[i] = Stream(a, m, Len(o) + i - 1)
    PROVE  /\ Len(o \o b) = Len(o) + Len(b)
           /\ \A k \in 1 .. Len(o \o b) : (o \o b)[k] = Stream(a, m, k - 1)
<1>1. /\ Len(o) \in Nat /\ Len(b) \in Nat /\ Len(o \o b) = Len(o) + Len(b)
      /\ \A j \in 1 .. Len(o) : (o \o b)[j] = o[j]
      /\ \A j \in 1 .. Len(b) : (o \o b)[Len(o) + j] = b[j]
  BY Joined
<1>2. ASSUME NEW k \in 1 .. Len(o \o b)
      PROVE  (o \o b)[k] = Stream(a, m, k - 1)
  <2>1. CASE k <= Len(o)
    BY <1>1, <2>1
  <2>2. CASE ~(k <= Len(o))
    <3>1. PICK i \in 1 .. Len(b) : k = Len(o) + i
      <4>1. k - Len(o) \in 1 .. Len(b) /\ k = Len(o) + (k - Len(o))
        BY <1>1, <2>2
      <4> QED BY <4>1
    <3> QED BY <1>1, <3>1
  <2> QED BY <2>1, <2>2
<1> QED BY <1>1, <1>2

(* LIBERAC_HASH_SQUEEZE of an XOF.                                         *)
LEMMA SqueezeXofStandard ==
    ASSUME SInv, NEW c \in Contexts, NEW n \in 0 .. MaxOut, SqueezeXof(c, n)
    PROVE  AllStandard'
<1> DEFINE a == alg[c]
           r == st[c]
           s == SqueezeState(a, r, n)
           m == absorbed[c]
           b == SqueezeBytes(a, r, n)
           o == out[c] \o b
<1>1. phase[c] \in {"FINALIZED", "SQUEEZING"} /\ IsShake(a)
  BY DEF SqueezeXof
<1>2. /\ a \in Algs /\ r \in State /\ m \in Seq(Byte) /\ out[c] \in Seq(OutBytes)
      /\ r.fed = Padded(a, m) /\ Fits(a, Len(m)) /\ n \in Nat
      /\ Family[a] \in SpongeFamilies
  <2>1. n \in Nat
    BY ContextConstants
  <2> QED BY <1>1, <2>1, ContextStandard DEF Standard, IsShake, SpongeFamilies
<1>3. Len(out[c]) = Position(a, r) /\ \A k \in 1 .. Len(out[c]) : out[c][k] = Stream(a, m, k - 1)
  <2>1. CASE phase[c] = "SQUEEZING"
    BY <2>1, ContextStandard DEF Standard, Squeezed
  <2>2. CASE phase[c] = "FINALIZED"
    <3>1. out[c] = <<>> /\ r.used = 0 /\ r.perms = 0
      BY <2>2, ContextStandard DEF Standard
    <3>2. Block[a] \in Nat
      BY <1>2, HashConstants
    <3>3. Position(a, r) = 0
      BY <3>1, <3>2 DEF Position
    <3> QED BY <3>1, <3>3
  <2> QED BY <1>1, <2>1, <2>2
<1>4. b \in Seq(OutBytes) /\ Len(b) = n
  <2>1. SqueezeBytes(a, r, n) \in Seq(OutBytes)
    BY <1>2, SqueezeType
  <2>2. DOMAIN SqueezeBytes(a, r, n) = 1 .. n
    BY DEF SqueezeBytes
  <2> QED BY <1>2, <2>1, <2>2
<1>5. \A i \in 1 .. n : b[i] = Stream(a, m, Len(out[c]) + i - 1)
  BY <1>2, <1>3, SqueezeRight
<1>6. s.fed = r.fed /\ Position(a, s) = Position(a, r) + n
  BY <1>2, SqueezeMoves
<1>7. /\ st' = [st EXCEPT ![c] = s] /\ phase' = [phase EXCEPT ![c] = "SQUEEZING"]
      /\ out' = [out EXCEPT ![c] = o] /\ alg' = alg /\ absorbed' = absorbed
  BY DEF SqueezeXof
<1>8. alg' = [alg EXCEPT ![c] = a] /\ absorbed' = [absorbed EXCEPT ![c] = m]
  BY <1>7 DEF SInv, IInv, TypeOK
<1> HIDE DEF b, a, r, s, m
<1>9. Len(o) = Position(a, s) /\ \A k \in 1 .. Len(o) : o[k] = Stream(a, m, k - 1)
  <2>1. \A i \in 1 .. Len(b) : b[i] = Stream(a, m, Len(out[c]) + i - 1)
    BY <1>4, <1>5
  <2>2. /\ Len(o) = Len(out[c]) + Len(b)
        /\ \A k \in 1 .. Len(o) : o[k] = Stream(a, m, k - 1)
    BY ZenonT(40), <1>2, <1>3, <1>4, <2>1, StreamGoesOn
  <2> QED BY <1>3, <1>4, <1>6, <2>2
<1> HIDE DEF o
<1>10. Standard("SQUEEZING", a, s, m, o)
  BY <1>1, <1>2, <1>6, <1>9 DEF Standard, Squeezed
<1> QED BY <1>7, <1>8, <1>10, OneStandard

(* LIBERAC_HASH_SQUEEZE of a fixed-length digest.                          *)
LEMMA SqueezeDigestStandard ==
    ASSUME SInv, NEW c \in Contexts, NEW n \in 0 .. MaxOut, SqueezeDigest(c, n)
    PROVE  AllStandard'
<1>1. CASE n < DigestLen[alg[c]]
  BY <1>1, SameStandard DEF SqueezeDigest, Reject
<1>2. CASE ~(n < DigestLen[alg[c]])
  <2> DEFINE a == alg[c]
             m == absorbed[c]
             d == DigestBytes(a, st[c])
  <2>1. phase[c] = "FINALIZED" /\ ~IsShake(a)
    BY DEF SqueezeDigest
  <2>2. /\ a \in Algs /\ st[c] \in State /\ m \in Seq(Byte) /\ Fits(a, Len(m))
        /\ st[c].fed = Padded(a, m) /\ st[c].used = 0 /\ st[c].perms = 0 /\ out[c] = <<>>
    BY <2>1, ContextStandard DEF Standard
  <2>3. d = Digest(a, m) /\ d \in Seq(OutBytes)
    BY <2>2, DigestRight, DigestType
  <2>4. /\ st' = [st EXCEPT ![c] = Fresh] /\ phase' = [phase EXCEPT ![c] = "CONSUMED"]
        /\ out' = [out EXCEPT ![c] = out[c] \o d] /\ alg' = alg /\ absorbed' = absorbed
    BY <1>2 DEF SqueezeDigest
  <2> HIDE DEF d
  <2>5. out[c] \o d = d
    BY <2>2, <2>3
  <2>6. /\ alg' = [alg EXCEPT ![c] = a] /\ absorbed' = [absorbed EXCEPT ![c] = m]
        /\ out' = [out EXCEPT ![c] = d]
    BY <2>4, <2>5 DEF SInv, IInv, TypeOK
  <2> HIDE DEF a, m
  <2>7. Standard("CONSUMED", a, Fresh, m, d)
    BY <2>1, <2>2, <2>3 DEF Standard
  <2>8. st' = [st EXCEPT ![c] = Fresh] /\ phase' = [phase EXCEPT ![c] = "CONSUMED"]
    BY <2>4
  <2> QED BY <2>6, <2>7, <2>8, OneStandard
<1> QED BY <1>1, <1>2

(* The second invariant is inductive with the first.                       *)
LEMMA NextStandard == SInv /\ [Next]_vars => SInv'
<1> SUFFICES ASSUME SInv, [Next]_vars
             PROVE  AllStandard'
  BY NextKeeps DEF SInv
<1>1. CASE UNCHANGED vars
  BY <1>1, SameStandard DEF vars
<1>2. ASSUME NEW c \in Contexts, NEW a \in Algs, HashInit(c, a)
      PROVE  AllStandard'
  BY <1>2, InitStandard
<1>3. ASSUME NEW c \in Contexts, HashInitUnknown(c) \/ HashClear(c)
      PROVE  AllStandard'
  BY <1>3, EraseStandard DEF HashInitUnknown, HashClear
<1>4. ASSUME NEW c \in Contexts, Update(c)
      PROVE  AllStandard'
  <2>1. ASSUME NEW input \in Inputs, HashUpdate(c, input)
        PROVE  AllStandard'
    BY <2>1, UpdateStandard
  <2>2. ASSUME NEW n \in 1 .. MaxChunk, HashUpdateTooLarge(c, n)
        PROVE  AllStandard'
    BY <2>2, SameStandard DEF HashUpdateTooLarge, Reject
  <2>3. ASSUME NEW isNull \in BOOLEAN, HashUpdateInvalid(c, isNull)
        PROVE  AllStandard'
    BY <2>3, SameStandard DEF HashUpdateInvalid, Reject
  <2> QED BY <1>4, <2>1, <2>2, <2>3 DEF Update
<1>5. ASSUME NEW c \in Contexts, HashFinalize(c)
      PROVE  AllStandard'
  BY <1>5, FinalizeStandard
<1>6. ASSUME NEW c \in Contexts, HashFinalizeInvalid(c)
      PROVE  AllStandard'
  BY <1>6, SameStandard DEF HashFinalizeInvalid, Reject
<1>7. ASSUME NEW c \in Contexts, Squeeze(c)
      PROVE  AllStandard'
  <2>1. ASSUME NEW n \in 0 .. MaxOut, SqueezeXof(c, n)
        PROVE  AllStandard'
    BY <2>1, SqueezeXofStandard
  <2>2. ASSUME NEW n \in 0 .. MaxOut, SqueezeDigest(c, n)
        PROVE  AllStandard'
    BY <2>2, SqueezeDigestStandard
  <2>3. ASSUME NEW isNull \in BOOLEAN, SqueezeInvalid(c, isNull)
        PROVE  AllStandard'
    BY <2>3, SameStandard DEF SqueezeInvalid, Reject
  <2> QED BY <1>7, <2>1, <2>2, <2>3 DEF Squeeze
<1> QED BY <1>1, <1>2, <1>3, <1>4, <1>5, <1>6, <1>7 DEF Next

(* Whatever calls were made, a context holds what the standard of its      *)
(* algorithm says: the length counted, the padding applied, the place in   *)
(* the output.                                                             *)
THEOREM StandardInvariant == Spec => []SInv
<1>1. Init => SInv
  <2> SUFFICES ASSUME Init PROVE AllStandard
    BY InitKeeps DEF SInv
  <2>1. \A c \in Contexts : phase[c] = "CLEARED" /\ out[c] = <<>>
    BY DEF Init
  <2> QED BY <2>1 DEF AllStandard, Standard
<1>2. SInv /\ [Next]_vars => SInv'
  BY NextStandard
<1> QED BY <1>1, <1>2, PTL DEF Spec

(* A digest has its length and is the start of the stream.                 *)
LEMMA DigestIsStream ==
    ASSUME NEW a \in Algs, NEW m
    PROVE  /\ Len(Digest(a, m)) = DigestLen[a]
           /\ \A k \in 1 .. Len(Digest(a, m)) : Digest(a, m)[k] = Stream(a, m, k - 1)
<1> DEFINE d == Digest(a, m)
<1>1. DigestLen[a] \in Nat
  BY HashConstants
<1>2. DOMAIN d = 1 .. DigestLen[a] /\ \A k \in 1 .. DigestLen[a] : d[k] = Stream(a, m, k - 1)
  BY DEF Digest
<1>3. d = [k \in 1 .. DigestLen[a] |-> d[k]]
  BY DEF Digest
<1> HIDE DEF d
<1>4. Len(d) = DigestLen[a]
  BY <1>1, <1>3
<1> QED BY <1>2, <1>4 DEF d

(* Then the bytes compressed by LIBERAC_HASH_FINALIZE are the padded       *)
(* message.                                                                *)
LEMMA PaddedIfStandard == SInv => PaddedAsStandard
BY ContextStandard DEF PaddedAsStandard, Closed, Standard

(* LIBERAC_HASH_UPDATE refuses exactly what the standard does not allow.   *)
LEMMA LimitIfStandard == SInv => LimitIsExact
<1> SUFFICES ASSUME SInv, NEW c \in Contexts, Absorbing(c), NEW n \in 0 .. MaxChunk
             PROVE  LengthFits(alg[c], st[c], n) <=> Fits(alg[c], Len(absorbed[c]) + n)
  BY DEF LimitIsExact
<1>1. /\ alg[c] \in Algs /\ st[c] \in State /\ absorbed[c] \in Seq(Byte)
      /\ Open(alg[c], st[c], absorbed[c])
  BY ContextStandard DEF Absorbing, Standard
<1>2. Fits(alg[c], Len(absorbed[c])) /\ Counters(alg[c], st[c], absorbed[c])
  BY <1>1 DEF Open, Ready
<1>3. n \in 0 .. Word - 1
  BY ContextConstants, LengthConstants
<1> QED BY <1>1, <1>2, <1>3, LimitHolds

(* LIBERAC_HASH_SQUEEZE has delivered the beginning of the stream.         *)
LEMMA StreamIfStandard == SInv => OutputIsTheStream
<1> SUFFICES ASSUME SInv, NEW c \in Contexts, phase[c] # "CLEARED"
             PROVE  /\ \A k \in 1 .. Len(out[c]) :
                           out[c][k] = Stream(alg[c], absorbed[c], k - 1)
                    /\ ~IsShake(alg[c]) =>
                           Len(out[c]) = IF phase[c] = "CONSUMED" THEN DigestLen[alg[c]] ELSE 0
  BY DEF OutputIsTheStream
<1>1. /\ phase[c] \in Phases /\ alg[c] \in Algs
      /\ Standard(phase[c], alg[c], st[c], absorbed[c], out[c])
  BY ContextStandard
<1>2. CASE phase[c] \in {"ABSORBING", "FINALIZED"}
  <2>1. out[c] = <<>>
    BY <1>1, <1>2 DEF Standard
  <2> QED BY <1>2, <2>1
<1>3. CASE phase[c] = "SQUEEZING"
  BY <1>1, <1>3 DEF Standard, Squeezed
<1>4. CASE phase[c] = "CONSUMED"
  <2>1. out[c] = Digest(alg[c], absorbed[c])
    BY <1>1, <1>4 DEF Standard
  <2> QED BY <1>1, <1>4, <2>1, DigestIsStream
<1> QED BY <1>1, <1>2, <1>3, <1>4 DEF Phases

(* LIBERAC_HASH on a context of its own: the message padded as standard.   *)
LEMMA OneShotOpen ==
    ASSUME NEW a \in Algs, NEW m \in Seq(Byte), Fits(a, Len(m)), Len(m) < Word
    PROVE  /\ LengthFits(a, Fresh, Len(m))
           /\ Finalize(a, Absorb(a, Fresh, m)) \in State
           /\ Finalize(a, Absorb(a, Fresh, m)).fed = Padded(a, m)
           /\ Finalize(a, Absorb(a, Fresh, m)).used = 0
           /\ Finalize(a, Absorb(a, Fresh, m)).perms = 0
<1> DEFINE e == <<>>
           n == Len(m)
<1>1. e \in Seq(Byte) /\ Len(e) = 0 /\ e \o m = m /\ n \in Nat /\ n \in 0 .. Word - 1
  BY LengthConstants
<1>2. Open(a, Fresh, e) /\ Fresh \in State
  BY FreshOpen, FreshContext
<1> HIDE DEF e
<1>3. Fits(a, Len(e)) /\ Counters(a, Fresh, e)
  BY <1>2 DEF Open, Ready
<1>4. LengthFits(a, Fresh, n)
  <2> HIDE DEF n
  <2>1. LengthFits(a, Fresh, n) <=> Fits(a, Len(e) + n)
    BY <1>1, <1>2, <1>3, LimitHolds
  <2>2. Len(e) + n = n
    BY <1>1
  <2> QED BY <2>1, <2>2 DEF n
<1>5. Absorb(a, Fresh, m) \in State /\ Open(a, Absorb(a, Fresh, m), e \o m)
  BY <1>1, <1>2, <1>4, AbsorbedOpen
<1>6. Open(a, Absorb(a, Fresh, m), m)
  BY <1>1, <1>5
<1> QED BY <1>4, <1>5, <1>6, FinalizedStandard

(* LIBERAC_HASH answers for the whole message what the calls answered.     *)
LEMMA OneShotIfStandard == SInv => OneShotAgrees
<1> SUFFICES ASSUME SInv, NEW c \in Contexts, Len(absorbed[c]) < Word
             PROVE  /\ out[c] # <<>> =>
                          OneShot(alg[c], absorbed[c], Len(out[c]))
                            = [ret |-> "SUCCESS", out |-> out[c]]
                    /\ phase[c] # "CLEARED" =>
                          OneShot(alg[c], absorbed[c], MaxOut + DigestLen[alg[c]]).ret
                            = "SUCCESS"
  BY DEF OneShotAgrees
<1> DEFINE a == alg[c]
           m == absorbed[c]
           o == out[c]
           done == Finalize(a, Absorb(a, Fresh, m))
<1>1. /\ phase[c] \in Phases /\ m \in Seq(Byte) /\ o \in Seq(OutBytes)
      /\ phase[c] # "CLEARED" => a \in Algs
      /\ Standard(phase[c], a, st[c], m, o)
  BY ContextStandard
<1>2. CASE phase[c] = "CLEARED"
  BY <1>1, <1>2 DEF Standard
<1>3. CASE phase[c] # "CLEARED"
  <2>1. a \in Algs /\ Fits(a, Len(m))
    BY <1>1, <1>3 DEF Standard
  <2>2. /\ LengthFits(a, Fresh, Len(m)) /\ done \in State
        /\ done.fed = Padded(a, m) /\ done.used = 0 /\ done.perms = 0
    BY <1>1, <2>1, OneShotOpen
  <2>3. MaxOut \in Nat /\ DigestLen[a] \in Nat
    BY <2>1, HashConstants, ContextConstants
  <2>4. OneShot(a, m, MaxOut + DigestLen[a]).ret = "SUCCESS"
    <3>1. ~(MaxOut + DigestLen[a] < DigestLen[a])
      BY <2>3
    <3> QED BY <2>1, <2>2, <3>1 DEF OneShot
  <2>5. ASSUME o # <<>>
        PROVE  OneShot(a, m, Len(o)) = [ret |-> "SUCCESS", out |-> o]
    <3>1. phase[c] \in {"SQUEEZING", "CONSUMED"}
      BY <1>1, <1>3, <2>5 DEF Standard, Phases
    <3>2. CASE phase[c] = "CONSUMED"
      <4>1. ~IsShake(a) /\ o = Digest(a, m)
        BY <1>1, <3>2 DEF Standard
      <4>2. Len(o) = DigestLen[a]
        BY <2>1, <4>1, DigestIsStream
      <4>3. DigestBytes(a, done) = o
        BY <1>1, <2>1, <2>2, <4>1, DigestRight
      <4>4. ~(Len(o) < DigestLen[a])
        BY <2>3, <4>2
      <4> HIDE DEF a, m, o
      <4> QED BY <2>1, <2>2, <4>1, <4>3, <4>4 DEF OneShot, done
    <3>3. CASE phase[c] = "SQUEEZING"
      <4> DEFINE n == Len(o)
                 b == SqueezeBytes(a, done, n)
      <4>1. /\ IsShake(a) /\ n \in Nat
            /\ \A k \in 1 .. n : o[k] = Stream(a, m, k - 1)
        BY <1>1, <3>3 DEF Standard, Squeezed
      <4>2. b \in Seq(OutBytes) /\ Len(b) = n
        <5>1. SqueezeBytes(a, done, n) \in Seq(OutBytes)
          BY <2>1, <2>2, <4>1, SqueezeType
        <5>2. DOMAIN SqueezeBytes(a, done, n) = 1 .. n
          BY DEF SqueezeBytes
        <5> HIDE DEF n
        <5> QED BY <4>1, <5>1, <5>2
      <4>3. \A k \in 1 .. n : b[k] = Stream(a, m, k - 1)
        <5>1. Family[a] \in SpongeFamilies
          BY <4>1 DEF IsShake, SpongeFamilies
        <5>2. Position(a, done) = 0
          <6>1. Block[a] \in Nat
            BY <2>1, HashConstants
          <6> QED BY <2>2, <6>1 DEF Position
        <5> HIDE DEF a, m, n, done
        <5>3. ASSUME NEW k \in 1 .. n
              PROVE  b[k] = Stream(a, m, k - 1)
          <6>1. b[k] = Stream(a, m, Position(a, done) + k - 1)
            BY <1>1, <2>1, <2>2, <4>1, <5>1, SqueezeRight
          <6>2. Position(a, done) + k - 1 = k - 1
            BY <5>2, <4>1
          <6> QED BY <6>1, <6>2
        <5> QED BY <5>3
      <4>4. b = o
        <5> HIDE DEF b, o, a, m
        <5>1. \A k \in 1 .. Len(b) : b[k] = o[k]
          BY <4>1, <4>2, <4>3
        <5> QED BY <1>1, <4>2, <5>1, SeqEqual
      <4> HIDE DEF a, m, o
      <4> QED BY <2>1, <2>2, <4>1, <4>4 DEF OneShot, done
    <3> QED BY <3>1, <3>2, <3>3
  <2> QED BY <2>4, <2>5
<1> QED BY <1>2, <1>3

(* Every call of the incremental interface and of LIBERAC_HASH answers as  *)
(* the standard does: padding, limit, output and one-shot, for all block   *)
(* lengths, length fields, chunks and messages.                            *)
THEOREM AnswersRight == Spec => []AnswersAreStandard
<1>1. SInv => AnswersAreStandard
  BY PaddedIfStandard, LimitIfStandard, StreamIfStandard, OneShotIfStandard
     DEF AnswersAreStandard
<1> QED BY <1>1, StandardInvariant, PTL

(* A joined sequence begins with its first part.                           *)
LEMMA JoinedPrefix ==
    ASSUME NEW S, NEW x \in Seq(S), NEW y \in Seq(S)
    PROVE  Len(x \o y) >= Len(x) /\ SubSeq(x \o y, 1, Len(x)) = x
<1>1. /\ x \o y \in Seq(S) /\ Len(x \o y) = Len(x) + Len(y)
      /\ Len(x) \in Nat /\ Len(y) \in Nat
      /\ \A j \in 1 .. Len(x) : (x \o y)[j] = x[j]
  BY Joined
<1> DEFINE z == x \o y
           n == Len(x)
           p == SubSeq(z, 1, n)
<1>2. z \in Seq(S) /\ n \in 0 .. Len(z) /\ \A j \in 1 .. n : z[j] = x[j]
  BY <1>1
<1> HIDE DEF z, n
<1>3. p \in Seq(S) /\ Len(p) = n /\ \A j \in 1 .. n : p[j] = z[j]
  BY <1>2
<1> HIDE DEF p
<1>4. p = x
  BY <1>2, <1>3, SeqEqual DEF n
<1> QED BY <1>1, <1>4 DEF p, z, n

(* The reference of HashSpec is the one of the context.                    *)
LEMMA SameReference ==
    ASSUME NEW a, NEW m, NEW n
    PROVE  /\ Promise!Bounded(a) <=> Bounded(a)
           /\ Promise!Fits(a, n) <=> Fits(a, n)
           /\ Promise!Stream(a, m, n) = Stream(a, m, n)
           /\ Promise!Digest(a, m) = Digest(a, m)
<1>1. Promise!Bounded(a) <=> Bounded(a)
  BY DEF Bounded, Promise!Bounded, LengthFamilies, Promise!LengthFamilies
<1>2. Promise!Fits(a, n) <=> Fits(a, n)
  BY <1>1 DEF Fits, Promise!Fits, MaxMessage, Promise!MaxMessage, LenMax, Promise!LenMax
<1>3. Promise!Padded(a, m) = Padded(a, m)
  BY DEF Padded, Promise!Padded, Padding, Promise!Padding, LengthFamilies,
         Promise!LengthFamilies, SpongeFamilies, Promise!SpongeFamilies, Top, Promise!Top,
         Fill, Promise!Fill, Gap, Promise!Gap, BigEndian, Promise!BigEndian
<1>4. \A k : Promise!Stream(a, m, k) = Stream(a, m, k)
  BY <1>3 DEF Stream, Promise!Stream, OutByte, Promise!OutByte, InitialValue,
         Promise!InitialValue, SpongeFamilies, Promise!SpongeFamilies
<1>5. Promise!Digest(a, m) = Digest(a, m)
  BY <1>4 DEF Digest, Promise!Digest
<1> QED BY <1>1, <1>2, <1>4, <1>5

(* LIBERAC_HASH_UPDATE appends to the message of HashSpec,                 *)
LEMMA UpdateAccepts ==
    ASSUME SInv, SInv', NEW c \in Contexts, NEW input \in Inputs, HashUpdate(c, input)
    PROVE  Promise!Accept(c)
<1>1. /\ phase[c] = "ABSORBING" /\ phase' = phase /\ alg' = alg /\ out' = out
      /\ ret' = "SUCCESS" /\ absorbed' = [absorbed EXCEPT ![c] = absorbed[c] \o input]
  BY DEF HashUpdate
<1>2. absorbed \in [Contexts -> Seq(Byte)] /\ input \in Seq(Byte)
  BY InputsAreBytes DEF SInv, IInv, TypeOK
<1>3. absorbed'[c] = absorbed[c] \o input
  BY <1>1, <1>2
<1>4. Len(absorbed'[c]) >= Len(absorbed[c])
      /\ SubSeq(absorbed'[c], 1, Len(absorbed[c])) = absorbed[c]
  BY <1>2, <1>3, JoinedPrefix
<1>5. Fits(alg[c], Len(absorbed'[c]))
  <2>1. AllStandard'
    BY DEF SInv
  <2>2. Standard(phase'[c], alg'[c], st'[c], absorbed'[c], out'[c])
    BY <2>1 DEF AllStandard
  <2> QED BY <1>1, <2>2 DEF Standard
<1> QED BY <1>1, <1>3, <1>4, <1>5, SameReference DEF Promise!Accept

(* or refuses what only a bounded family may refuse.                       *)
LEMMA TooLargeRefuses ==
    ASSUME SInv, NEW c \in Contexts, NEW n \in 1 .. MaxChunk, HashUpdateTooLarge(c, n)
    PROVE  Promise!Refuse
<1>1. phase[c] = "ABSORBING" /\ ~LengthFits(alg[c], st[c], n)
      /\ ret' = "MESSAGE_TOO_LARGE" /\ UNCHANGED <<phase, alg, absorbed, out>>
  BY DEF HashUpdateTooLarge, Reject
<1>2. n \in 0 .. MaxChunk
  BY ContextConstants
<1>3. ~Fits(alg[c], Len(absorbed[c]) + n)
  BY <1>1, <1>2, LimitIfStandard DEF LimitIsExact, Absorbing
<1>4. Bounded(alg[c])
  BY <1>3 DEF Fits
<1> QED BY <1>1, <1>4, SameReference DEF Promise!Refuse, Promise!state

(* LIBERAC_HASH_SQUEEZE of an XOF hands out the next bytes of the stream,  *)
LEMMA SqueezeExtends ==
    ASSUME SInv, SInv', NEW c \in Contexts, NEW n \in 0 .. MaxOut, SqueezeXof(c, n)
    PROVE  Promise!Extend(c)
<1> DEFINE b == SqueezeBytes(alg[c], st[c], n)
<1>1. /\ phase[c] \in {"FINALIZED", "SQUEEZING"} /\ Family[alg[c]] = "SHAKE"
      /\ phase' = [phase EXCEPT ![c] = "SQUEEZING"] /\ alg' = alg /\ absorbed' = absorbed
      /\ ret' = "SUCCESS" /\ out' = [out EXCEPT ![c] = out[c] \o b]
  BY DEF SqueezeXof, IsShake
<1>2. out \in [Contexts -> Seq(OutBytes)] /\ phase \in [Contexts -> Phases]
  BY DEF SInv, IInv, TypeOK
<1>3. b \in Seq(OutBytes)
  <2>1. n \in Nat /\ alg[c] \in Algs /\ st[c] \in State
    BY <1>1, ContextConstants, ContextStandard
  <2> QED BY <2>1, SqueezeType
<1> HIDE DEF b
<1>4. out'[c] = out[c] \o b /\ phase'[c] = "SQUEEZING"
  BY <1>1, <1>2
<1>5. Len(out'[c]) >= Len(out[c]) /\ SubSeq(out'[c], 1, Len(out[c])) = out[c]
      /\ Len(out[c]) \in Nat
  BY <1>2, <1>3, <1>4, JoinedPrefix
<1>6. \A k \in 1 .. Len(out'[c]) : out'[c][k] = Stream(alg[c], absorbed[c], k - 1)
  <2>1. AllStandard'
    BY DEF SInv
  <2>2. Standard(phase'[c], alg'[c], st'[c], absorbed'[c], out'[c])
    BY <2>1 DEF AllStandard
  <2>3. Squeezed(alg'[c], st'[c], absorbed'[c], out'[c])
    BY <1>4, <2>2 DEF Standard
  <2> QED BY <1>1, <2>3 DEF Squeezed
<1>7. \A k \in Len(out[c]) + 1 .. Len(out'[c]) : k \in 1 .. Len(out'[c])
  BY <1>5
<1>8. out' = [out EXCEPT ![c] = out'[c]]
  BY <1>1, <1>4
<1> QED BY <1>1, <1>5, <1>6, <1>7, <1>8, SameReference DEF Promise!Extend

(* and of a digest the whole digest, or nothing.                           *)
LEMMA SqueezeDelivers ==
    ASSUME SInv, SInv', NEW c \in Contexts, NEW n \in 0 .. MaxOut, SqueezeDigest(c, n)
    PROVE  Promise!Deliver(c) \/ Promise!Refuse
<1>1. phase[c] = "FINALIZED" /\ Family[alg[c]] # "SHAKE"
  BY DEF SqueezeDigest, IsShake
<1>2. CASE n < DigestLen[alg[c]]
  <2>1. ret' = "BUFFER_TOO_SMALL" /\ UNCHANGED <<phase, alg, absorbed, out>>
    BY <1>2 DEF SqueezeDigest, Reject
  <2> QED BY <1>1, <2>1 DEF Promise!Refuse, Promise!state
<1>3. CASE ~(n < DigestLen[alg[c]])
  <2>1. /\ phase' = [phase EXCEPT ![c] = "CONSUMED"] /\ alg' = alg /\ absorbed' = absorbed
        /\ ret' = "SUCCESS" /\ out' = [out EXCEPT ![c] = out[c] \o DigestBytes(alg[c], st[c])]
    BY <1>3 DEF SqueezeDigest
  <2>2. out \in [Contexts -> Seq(OutBytes)] /\ phase \in [Contexts -> Phases]
    BY DEF SInv, IInv, TypeOK
  <2>3. out' = [out EXCEPT ![c] = out'[c]] /\ phase'[c] = "CONSUMED"
    BY <2>1, <2>2
  <2>4. out'[c] = Digest(alg[c], absorbed[c])
    <3>1. AllStandard'
      BY DEF SInv
    <3>2. Standard(phase'[c], alg'[c], st'[c], absorbed'[c], out'[c])
      BY <3>1 DEF AllStandard
    <3> QED BY <2>1, <2>3, <3>2 DEF Standard
  <2>5. out' = [out EXCEPT ![c] = Promise!Digest(alg[c], absorbed[c])]
    <3>1. Promise!Digest(alg[c], absorbed[c]) = out'[c]
      BY <2>4, SameReference
    <3> QED BY <2>3, <3>1, Zenon
  <2> QED BY <1>1, <2>1, <2>5 DEF Promise!Deliver
<1> QED BY <1>2, <1>3

(* Every step of the context code is a step of HashSpec or none.           *)
LEMMA NextRefines ==
    SInv /\ SInv' /\ [Next]_vars => [Promise!Next]_(Promise!vars)
<1> SUFFICES ASSUME SInv, SInv', [Next]_vars
             PROVE  Promise!Next \/ UNCHANGED Promise!vars
  OBVIOUS
<1>1. CASE UNCHANGED vars
  BY <1>1 DEF vars, Promise!vars
<1>2. ASSUME NEW c \in Contexts, NEW a \in Algs, HashInit(c, a)
      PROVE  Promise!Next
  <2>1. Promise!Begin(c, a)
    BY <1>2 DEF HashInit, Forget, Promise!Begin
  <2> QED BY <2>1 DEF Promise!Next
<1>3. ASSUME NEW c \in Contexts, HashInitUnknown(c)
      PROVE  Promise!Next
  <2>1. Promise!Discard(c, "INVALID_ALG_ID")
    BY <1>3 DEF HashInitUnknown, Erase, Forget, Promise!Discard
  <2> QED BY <2>1 DEF Promise!Next
<1>4. ASSUME NEW c \in Contexts, HashClear(c)
      PROVE  Promise!Next
  <2>1. Promise!Discard(c, ret)
    BY <1>4 DEF HashClear, Erase, Forget, Promise!Discard
  <2> QED BY <2>1 DEF Promise!Next
<1>5. ASSUME Reject("INVALID_ARGUMENT")
      PROVE  Promise!Next
  BY <1>5 DEF Reject, Promise!Refuse, Promise!state, Promise!Next
<1>6. ASSUME NEW c \in Contexts, Update(c)
      PROVE  Promise!Next
  <2>1. ASSUME NEW input \in Inputs, HashUpdate(c, input)
        PROVE  Promise!Next
    BY <2>1, UpdateAccepts DEF Promise!Next
  <2>2. ASSUME NEW n \in 1 .. MaxChunk, HashUpdateTooLarge(c, n)
        PROVE  Promise!Next
    BY <2>2, TooLargeRefuses DEF Promise!Next
  <2>3. ASSUME NEW isNull \in BOOLEAN, HashUpdateInvalid(c, isNull)
        PROVE  Promise!Next
    BY <1>5, <2>3 DEF HashUpdateInvalid
  <2> QED BY <1>6, <2>1, <2>2, <2>3 DEF Update
<1>7. ASSUME NEW c \in Contexts, HashFinalize(c)
      PROVE  Promise!Next
  <2>1. Promise!Close(c)
    BY <1>7 DEF HashFinalize, Promise!Close
  <2> QED BY <2>1 DEF Promise!Next
<1>8. ASSUME NEW c \in Contexts, HashFinalizeInvalid(c)
      PROVE  Promise!Next
  BY <1>5, <1>8 DEF HashFinalizeInvalid
<1>9. ASSUME NEW c \in Contexts, Squeeze(c)
      PROVE  Promise!Next
  <2>1. ASSUME NEW n \in 0 .. MaxOut, SqueezeXof(c, n)
        PROVE  Promise!Next
    BY <2>1, SqueezeExtends DEF Promise!Next
  <2>2. ASSUME NEW n \in 0 .. MaxOut, SqueezeDigest(c, n)
        PROVE  Promise!Next
    BY <2>2, SqueezeDelivers DEF Promise!Next
  <2>3. ASSUME NEW isNull \in BOOLEAN, SqueezeInvalid(c, isNull)
        PROVE  Promise!Next
    BY <1>5, <2>3 DEF SqueezeInvalid
  <2> QED BY <1>9, <2>1, <2>2, <2>3 DEF Squeeze
<1> QED BY <1>1, <1>2, <1>3, <1>4, <1>6, <1>7, <1>8, <1>9 DEF Next

(* The context code implements HashSpec: no caller can tell that a message *)
(* is buffered, counted and padded.                                        *)
THEOREM Refinement == Spec => ImplementsHashSpec
<1>1. Init => Promise!Init
  BY DEF Init, Promise!Init
<1>2. SInv /\ SInv' /\ [Next]_vars => [Promise!Next]_(Promise!vars)
  BY NextRefines
<1> QED BY <1>1, <1>2, StandardInvariant, PTL DEF Spec, ImplementsHashSpec, Promise!Spec

----------------------------------------------------------------------------
(* The padding is injective.                                               *)

(* A message, its mark, zeros and a field, as one sequence.                *)
LEMMA MarkingIsMarked ==
    ASSUME NEW x \in Seq(Byte), NEW mark \in Byte, NEW g \in Nat, NEW field \in Seq(Byte)
    PROVE  MarkedAs(x, mark, g, field, x \o ((<<mark>> \o Fill(g)) \o field))
<1> DEFINE one == <<mark>>
           zero == Fill(g)
           y == one \o zero
           z == y \o field
           t == x \o z
<1>1. one \in Seq(Byte) /\ Len(one) = 1 /\ one[1] = mark
  OBVIOUS
<1>2. zero \in Seq(Byte) /\ Len(zero) = g /\ \A i \in 1 .. g : zero[i] = 0
  BY HashConstants DEF Fill, Byte
<1> HIDE DEF one, zero
<1>3. /\ y \in Seq(Byte) /\ Len(y) = 1 + g /\ y[1] = mark
      /\ \A i \in 1 .. g : y[1 + i] = 0
  <2>1. /\ y \in Seq(Byte) /\ Len(y) = Len(one) + Len(zero)
        /\ \A j \in 1 .. Len(one) : y[j] = one[j]
        /\ \A j \in 1 .. Len(zero) : y[Len(one) + j] = zero[j]
    <3>1. one \in Seq(Byte) /\ zero \in Seq(Byte)
      BY <1>1, <1>2
    <3> QED BY <3>1, Joined
  <2> HIDE DEF y
  <2>2. y[1] = mark
    BY <1>1, <2>1
  <2>3. \A i \in 1 .. g : y[1 + i] = 0
    BY <1>1, <1>2, <2>1
  <2>4. Len(y) = 1 + g
    BY <1>1, <1>2, <2>1
  <2> QED BY <2>1, <2>2, <2>3, <2>4
<1> HIDE DEF y
<1>4. /\ z \in Seq(Byte) /\ Len(z) = 1 + g + Len(field) /\ z[1] = mark
      /\ \A i \in 1 .. g : z[1 + i] = 0
      /\ \A i \in 1 .. Len(field) : z[1 + g + i] = field[i]
  <2>1. /\ z \in Seq(Byte) /\ Len(z) = Len(y) + Len(field)
        /\ \A j \in 1 .. Len(y) : z[j] = y[j]
        /\ \A j \in 1 .. Len(field) : z[Len(y) + j] = field[j]
    <3>1. y \in Seq(Byte)
      BY <1>3
    <3> QED BY <3>1, Joined
  <2> HIDE DEF z
  <2> QED BY <1>3, <2>1
<1> HIDE DEF z
<1>5. /\ t \in Seq(Byte) /\ Len(t) = Len(x) + Len(z)
      /\ \A j \in 1 .. Len(x) : t[j] = x[j]
      /\ \A j \in 1 .. Len(z) : t[Len(x) + j] = z[j]
  <2>1. z \in Seq(Byte)
    BY <1>4
  <2> QED BY <2>1, Joined
<1> HIDE DEF t
<1>6. Len(x) \in Nat /\ Len(field) \in Nat
  OBVIOUS
<1>7. t[Len(x) + 1] = mark
  BY <1>4, <1>5, <1>6
<1>8. ASSUME NEW i \in 1 .. g PROVE t[Len(x) + 1 + i] = 0
  <2>1. 1 + i \in 1 .. Len(z) /\ Len(x) + (1 + i) = Len(x) + 1 + i
    BY <1>4, <1>6
  <2> QED BY <1>4, <1>5, <2>1
<1>9. ASSUME NEW i \in 1 .. Len(field) PROVE t[Len(x) + 1 + g + i] = field[i]
  <2>1. 1 + g + i \in 1 .. Len(z) /\ Len(x) + (1 + g + i) = Len(x) + 1 + g + i
    BY <1>4, <1>6
  <2> QED BY <1>4, <1>5, <2>1
<1>10. Len(t) = Len(x) + 1 + g + Len(field)
  BY <1>4, <1>5, <1>6
<1>11. MarkedAs(x, mark, g, field, t)
  BY <1>5, <1>7, <1>8, <1>9, <1>10 DEF MarkedAs
<1> QED BY <1>11 DEF t, z, y, one, zero

(* One of two markings of the same bytes cannot be the shorter.            *)
LEMMA NoShorterMark ==
    ASSUME NEW x, NEW a, NEW g, NEW u, NEW y, NEW b, NEW h, NEW v, NEW t,
           MarkedAs(x, a, g, u, t), MarkedAs(y, b, h, v, t),
           Len(u) = Len(v), b # 0
    PROVE  ~(Len(x) < Len(y))
<1> SUFFICES ASSUME Len(x) < Len(y) PROVE FALSE
  OBVIOUS
<1>1. /\ Len(x) \in Nat /\ g \in Nat /\ Len(u) \in Nat
      /\ Len(t) = Len(x) + 1 + g + Len(u)
      /\ \A i \in 1 .. g : t[Len(x) + 1 + i] = 0
  BY DEF MarkedAs
<1>2. /\ Len(y) \in Nat /\ h \in Nat
      /\ Len(t) = Len(y) + 1 + h + Len(v) /\ t[Len(y) + 1] = b
  <2>1. y \in Seq(Byte) /\ h \in Nat
    BY DEF MarkedAs
  <2>2. Len(t) = Len(y) + 1 + h + Len(v)
    BY DEF MarkedAs
  <2>3. t[Len(y) + 1] = b
    BY DEF MarkedAs
  <2> QED BY <2>1, <2>2, <2>3
<1>3. PICK i \in 1 .. g : Len(y) + 1 = Len(x) + 1 + i
  <2>1. Len(y) - Len(x) \in 1 .. g /\ Len(y) + 1 = Len(x) + 1 + (Len(y) - Len(x))
    BY <1>1, <1>2
  <2> QED BY <2>1
<1> QED BY <1>1, <1>2, <1>3

(* The message and its mark can be read back.                              *)
LEMMA MarkReadBack ==
    ASSUME NEW x, NEW a, NEW g, NEW u, NEW y, NEW b, NEW h, NEW v, NEW t,
           MarkedAs(x, a, g, u, t), MarkedAs(y, b, h, v, t),
           Len(u) = Len(v), a # 0, b # 0
    PROVE  x = y /\ a = b
<1>1. /\ x \in Seq(Byte) /\ Len(x) \in Nat /\ t[Len(x) + 1] = a
      /\ \A j \in 1 .. Len(x) : t[j] = x[j]
  BY DEF MarkedAs
<1>2. /\ y \in Seq(Byte) /\ Len(y) \in Nat /\ t[Len(y) + 1] = b
      /\ \A j \in 1 .. Len(y) : t[j] = y[j]
  BY DEF MarkedAs
<1>3. ~(Len(x) < Len(y)) /\ ~(Len(y) < Len(x))
  BY NoShorterMark
<1>4. Len(x) = Len(y)
  BY <1>1, <1>2, <1>3
<1>5. \A j \in 1 .. Len(x) : x[j] = y[j]
  BY <1>1, <1>2, <1>4
<1>6. x = y
  BY <1>1, <1>2, <1>4, <1>5, SeqEqual
<1> QED BY <1>1, <1>2, <1>6

(* The marks: 0x80, and the domain byte alone or with the top bit.         *)
LEMMA Marks ==
    ASSUME NEW a \in Algs
    PROVE  /\ Top \in Byte /\ Top # 0 /\ Domain[a] \in Byte /\ Domain[a] # 0
           /\ Domain[a] + Top \in Byte /\ Domain[a] + Top # 0 /\ Domain[a] + Top # Top
<1>1. Radix \in Nat /\ Radix > 3 /\ Radix % 2 = 0 /\ Domain[a] \in 1 .. Top - 1
  BY HashConstants
<1>2. Top \in Nat /\ Top > 0 /\ Radix = 2 * Top
  BY <1>1 DEF Top
<1> QED BY <1>1, <1>2 DEF Byte

(* A gap is not negative.                                                  *)
LEMMA GapType ==
    ASSUME NEW a \in Algs, NEW n \in Nat
    PROVE  Gap(n, Block[a]) \in Nat
<1> DEFINE B == Block[a]
           r == n % B
<1>1. B \in Nat \ {0}
  BY HashConstants
<1>2. r \in 0 .. B - 1
  BY <1>1, Division
<1> HIDE DEF B, r
<1>3. B - r \in Nat
  BY <1>1, <1>2
<1>4. (B - r) % B \in 0 .. B - 1
  BY <1>1, <1>3, Division
<1> QED BY <1>1, <1>4 DEF B, r, Gap

(* A message padded by a family that ends with the length, or by LSH.      *)
LEMMA TailMarked ==
    ASSUME NEW a \in Algs, NEW m \in Seq(Byte), Family[a] \notin SpongeFamilies
    PROVE  \E g, field :
              /\ MarkedAs(m, Top, g, field, Padded(a, m))
              /\ Len(field) = IF Family[a] = "LSH" THEN 0 ELSE LenBytes
<1>1. CASE Family[a] = "LSH"
  <2> DEFINE g == Gap(Len(m) + 1, Block[a])
  <2>1. g \in Nat /\ <<>> \in Seq(Byte) /\ Len(<<>>) = 0 /\ Top \in Byte
    BY GapType, Marks
  <2>2. Padded(a, m) = m \o (<<Top>> \o Fill(g))
    BY <1>1 DEF Padded, Padding, LengthFamilies
  <2> HIDE DEF g
  <2>3. (<<Top>> \o Fill(g)) \o <<>> = <<Top>> \o Fill(g)
    <3>1. <<Top>> \in Seq(Byte) /\ Fill(g) \in Seq(Byte)
      BY <2>1, HashConstants DEF Fill, Byte
    <3> HIDE DEF Fill
    <3> QED BY <3>1
  <2>4. MarkedAs(m, Top, g, <<>>, m \o ((<<Top>> \o Fill(g)) \o <<>>))
    BY <2>1, MarkingIsMarked
  <2> QED BY <1>1, <2>1, <2>2, <2>3, <2>4
<1>2. CASE Family[a] \in LengthFamilies
  <2> DEFINE g == Gap(Len(m) + 1 + LenBytes, Block[a])
             field == BigEndian(Len(m) * BitsPerByte, LenBytes)
  <2>1. LenBytes \in Nat /\ BitsPerByte \in Nat
    BY HashConstants
  <2>2. g \in Nat /\ Top \in Byte
    <3>1. Len(m) + 1 + LenBytes \in Nat
      BY <2>1
    <3> QED BY <3>1, GapType, Marks
  <2>3. field \in Seq(Byte) /\ Len(field) = LenBytes
    <3>1. Len(m) * BitsPerByte \in Nat
      BY <2>1
    <3>2. LenBytes \in 0 .. LenBytes
      BY <2>1
    <3>3. field \in Seq(Byte)
      BY <3>1, <3>2, BigEndianBytes
    <3>4. DOMAIN field = 1 .. LenBytes
      BY DEF BigEndian
    <3> HIDE DEF field
    <3> QED BY <2>1, <3>3, <3>4
  <2>4. Padded(a, m) = m \o ((<<Top>> \o Fill(g)) \o field)
    <3>1. Padding(a, Len(m)) = (<<Top>> \o Fill(g)) \o field
      BY <1>2 DEF Padding, LengthFamilies, SpongeFamilies
    <3> HIDE DEF g, field
    <3> QED BY <3>1 DEF Padded
  <2> HIDE DEF g, field
  <2>5. MarkedAs(m, Top, g, field, m \o ((<<Top>> \o Fill(g)) \o field))
    BY <2>2, <2>3, MarkingIsMarked
  <2>6. Family[a] # "LSH"
    BY <1>2 DEF LengthFamilies
  <2> QED BY <2>3, <2>4, <2>5, <2>6
<1> QED BY <1>1, <1>2, HashConstants

(* A message padded by a sponge: a domain byte away from the last byte of  *)
(* the block, which has the top bit then, or a mark that is both.          *)
LEMMA SpongeMarked ==
    ASSUME NEW a \in Algs, NEW m \in Seq(Byte), Family[a] \in SpongeFamilies
    PROVE  LET t == Padded(a, m)
           IN  \/ \E g : /\ MarkedAs(m, Domain[a], g, <<Top>>, t)
                         /\ t[Len(t)] = Top
               \/ /\ MarkedAs(m, Domain[a] + Top, 0, <<>>, t)
                  /\ t[Len(t)] = Domain[a] + Top
<1> DEFINE D == Domain[a]
           G == Gap(Len(m) + 1, Block[a])
           p == [j \in 1 .. 1 + G |-> (IF j = 1 THEN D ELSE 0) + (IF j = 1 + G THEN Top ELSE 0)]
           n == Len(m)
           t == m \o p
<1>1. G \in Nat /\ n \in Nat
  BY GapType
<1>2. /\ Top \in Byte /\ D \in Byte /\ D + Top \in Byte /\ 0 \in Byte
      /\ Top \in Nat /\ D \in Nat
  <2>1. Radix \in Nat /\ Radix > 3
    BY HashConstants
  <2>2. Top \in Byte /\ D \in Byte /\ D + Top \in Byte
    BY Marks
  <2> HIDE DEF D
  <2> QED BY <2>1, <2>2 DEF Byte
<1>3. Padded(a, m) = t
  <2>1. Padding(a, Len(m)) = p
    BY DEF Padding, LengthFamilies, SpongeFamilies
  <2> HIDE DEF p
  <2> QED BY <2>1 DEF Padded
<1> HIDE DEF G, D
<1>4. p \in Seq(Byte) /\ Len(p) = 1 + G
  <2>1. ASSUME NEW j \in 1 .. 1 + G
        PROVE  (IF j = 1 THEN D ELSE 0) + (IF j = 1 + G THEN Top ELSE 0) \in Byte
    BY <1>1, <1>2
  <2>2. p \in [1 .. 1 + G -> Byte]
    BY <2>1
  <2> HIDE DEF p
  <2> QED BY <1>1, <2>2
<1>5. \A j \in 1 .. 1 + G :
         p[j] = (IF j = 1 THEN D ELSE 0) + (IF j = 1 + G THEN Top ELSE 0)
  OBVIOUS
<1> HIDE DEF p
<1>6. /\ t \in Seq(Byte) /\ Len(t) = Len(m) + Len(p)
      /\ \A j \in 1 .. Len(m) : t[j] = m[j]
      /\ \A j \in 1 .. Len(p) : t[Len(m) + j] = p[j]
  <2>1. p \in Seq(Byte)
    BY <1>4
  <2> QED BY <2>1, Joined
<1> HIDE DEF t
<1>7. CASE G = 0
  <2>1. p[1] = D + Top
    BY <1>2, <1>5, <1>7
  <2>2. Len(t) = n + 1 /\ t[n + 1] = D + Top
    BY <1>1, <1>4, <1>6, <1>7, <2>1
  <2>3. <<>> \in Seq(Byte) /\ Len(<<>>) = 0
    OBVIOUS
  <2>4. MarkedAs(m, D + Top, 0, <<>>, t)
    BY <1>1, <1>2, <1>6, <2>2, <2>3 DEF MarkedAs
  <2> QED BY <1>3, <2>2, <2>4 DEF D
<1>8. CASE G # 0
  <2> DEFINE g == G - 1
             u == <<Top>>
  <2>1. u \in Seq(Byte) /\ Len(u) = 1 /\ u[1] = Top
    BY <1>2
  <2>2. g \in Nat /\ G = 1 + g
    BY <1>1, <1>8
  <2> HIDE DEF g, u
  <2>3. /\ p[1] = D /\ p[1 + G] = Top
        /\ \A i \in 1 .. g : p[1 + i] = 0
    BY SMTT(20), <1>1, <1>2, <1>5, <2>2
  <2>4. Len(t) = Len(m) + 1 + g + Len(u) /\ Len(t) = n + (1 + G)
    BY <1>1, <1>4, <1>6, <2>1, <2>2
  <2>5. t[Len(m) + 1] = D
    BY <1>1, <1>4, <1>6, <2>3
  <2>6. t[n + (1 + G)] = Top
    BY <1>1, <1>4, <1>6, <2>3
  <2>7. ASSUME NEW i \in 1 .. g PROVE t[Len(m) + 1 + i] = 0
    <3>1. 1 + i \in 1 .. Len(p) /\ Len(m) + (1 + i) = Len(m) + 1 + i
      BY <1>1, <1>4, <2>2
    <3> QED BY <1>6, <2>3, <3>1
  <2>8. ASSUME NEW i \in 1 .. Len(u) PROVE t[Len(m) + 1 + g + i] = u[i]
    <3>1. i = 1 /\ Len(m) + 1 + g + i = n + (1 + G)
      BY <1>1, <2>1, <2>2
    <3> QED BY <2>1, <2>6, <3>1
  <2>9. MarkedAs(m, D, g, u, t)
    BY <1>2, <1>6, <2>1, <2>2, <2>4, <2>5, <2>7, <2>8 DEF MarkedAs
  <2> QED BY <1>3, <2>4, <2>6, <2>9 DEF D, u
<1> QED BY <1>7, <1>8

(* Two messages that pad to the same bytes, under algorithms that start    *)
(* from the same state with blocks of one length, are one.                 *)
LEMMA PaddingBinds ==
    ASSUME NEW a \in Algs, NEW b \in Algs, NEW m \in Seq(Byte), NEW w \in Seq(Byte),
           Padded(a, m) = Padded(b, w), InitialValue(a) = InitialValue(b),
           Block[a] = Block[b]
    PROVE  a = b /\ m = w
<1> DEFINE t == Padded(a, m)
<1>1. CASE Family[a] \in SpongeFamilies
  <2>1. Family[b] \in SpongeFamilies
    BY <1>1, SpongeConstants DEF InitialValue
  <2> DEFINE n == Len(t)
  <2>2. \/ \E g : MarkedAs(m, Domain[a], g, <<Top>>, t) /\ t[n] = Top
        \/ MarkedAs(m, Domain[a] + Top, 0, <<>>, t) /\ t[n] = Domain[a] + Top
    BY <1>1, SpongeMarked
  <2>3. \/ \E h : MarkedAs(w, Domain[b], h, <<Top>>, t) /\ t[n] = Top
        \/ MarkedAs(w, Domain[b] + Top, 0, <<>>, t) /\ t[n] = Domain[b] + Top
    BY <2>1, SpongeMarked
  <2> HIDE DEF t, n
  <2>4. /\ Domain[a] # 0 /\ Domain[a] + Top # 0 /\ Domain[a] + Top # Top
        /\ Domain[b] # 0 /\ Domain[b] + Top # 0 /\ Domain[b] + Top # Top
        /\ Domain[a] \in Nat /\ Domain[b] \in Nat /\ Top \in Nat
    BY Marks, HashConstants DEF Byte
  <2>5. m = w /\ Domain[a] = Domain[b]
    <3>1. CASE t[n] = Top
      <4>1. PICK g : MarkedAs(m, Domain[a], g, <<Top>>, t)
        BY <2>2, <2>4, <3>1
      <4>2. PICK h : MarkedAs(w, Domain[b], h, <<Top>>, t)
        BY <2>3, <2>4, <3>1
      <4> QED BY <2>4, <4>1, <4>2, MarkReadBack
    <3>2. CASE t[n] # Top
      <4>1. MarkedAs(m, Domain[a] + Top, 0, <<>>, t)
        BY <2>2, <3>2
      <4>2. MarkedAs(w, Domain[b] + Top, 0, <<>>, t)
        BY <2>3, <3>2
      <4>3. m = w /\ Domain[a] + Top = Domain[b] + Top
        BY <2>4, <4>1, <4>2, MarkReadBack
      <4> QED BY <2>4, <4>3
    <3> QED BY <3>1, <3>2
  <2>6. {Family[a], Family[b]} \subseteq SpongeFamilies
    BY <1>1, <2>1
  <2> QED BY <2>5, <2>6, SpongeConstants
<1>2. CASE Family[a] \notin SpongeFamilies
  <2>1. a = b
    BY <1>2, SpongeConstants DEF InitialValue
  <2>2. PICK g, u : /\ MarkedAs(m, Top, g, u, t)
                    /\ Len(u) = IF Family[a] = "LSH" THEN 0 ELSE LenBytes
    BY <1>2, TailMarked
  <2>3. PICK h, v : /\ MarkedAs(w, Top, h, v, t)
                    /\ Len(v) = IF Family[a] = "LSH" THEN 0 ELSE LenBytes
    BY <1>2, <2>1, TailMarked
  <2> HIDE DEF t
  <2>4. Len(u) = Len(v) /\ Top # 0
    BY <2>2, <2>3, Marks
  <2>5. m = w
    BY <2>2, <2>3, <2>4, MarkReadBack
  <2> QED BY <2>1, <2>5
<1> QED BY <1>1, <1>2

(* The first byte of an output names its message.                          *)
LEMMA FirstByteBinds ==
    ASSUME NEW a \in Algs, NEW b \in Algs, NEW m \in Seq(Byte), NEW w \in Seq(Byte),
           Stream(a, m, 0) = Stream(b, w, 0)
    PROVE  a = b /\ m = w
<1>1. \E k, l, i, j : OutByte(a, Padded(a, m), k, i) = OutByte(b, Padded(b, w), l, j)
  BY Zenon DEF Stream
<1>2. /\ Padded(a, m) = Padded(b, w) /\ InitialValue(a) = InitialValue(b)
      /\ Block[a] = Block[b]
  BY <1>1 DEF OutByte
<1> QED BY <1>2, PaddingBinds

(* No two messages and no two algorithms share an output byte: padding is  *)
(* injective and the domain byte tells SHA-3 from SHAKE.                   *)
THEOREM OutputNamesMessage == Spec => []OutputBindsMessage
<1>1. SInv => OutputBindsMessage
  <2> SUFFICES ASSUME SInv, NEW c \in Contexts, out[c] # <<>>,
                      NEW a \in Algs, NEW n \in 0 .. MaxBlock, NEW m \in [1 .. n -> Data],
                      Stream(a, m, 0) = out[c][1]
               PROVE  a = alg[c] /\ m = absorbed[c]
    BY DEF OutputBindsMessage
  <2>1. m \in Seq(Byte)
    <3>1. Data \subseteq Byte /\ n \in Nat
      BY ContextConstants
    <3>2. m \in [1 .. n -> Byte]
      BY <3>1
    <3> QED BY <3>1, <3>2
  <2>2. /\ out[c] \in Seq(OutBytes) /\ absorbed[c] \in Seq(Byte)
        /\ phase[c] # "CLEARED" /\ alg[c] \in Algs
    BY ContextStandard DEF Standard
  <2>3. 1 \in 1 .. Len(out[c]) /\ 1 - 1 = 0
    BY <2>2
  <2>4. out[c][1] = Stream(alg[c], absorbed[c], 0)
    BY <2>2, <2>3, StreamIfStandard DEF OutputIsTheStream
  <2> QED BY <2>1, <2>2, <2>4, FirstByteBinds
<1> QED BY <1>1, StandardInvariant, PTL
=============================================================================
