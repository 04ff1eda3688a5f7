---------------------------- MODULE Numbers_proofs ----------------------------
(*****************************************************************************)
(* The run numbers, for every size, exponent, number of attempts, limb width *)
(* and table of small primes: a search for primes and the key generations of *)
(* RSA and ElGamal leave nothing behind and hand over whole keys only,       *)
(* whatever fails and however often keys are made into the same objects; the *)
(* calls on big numbers are exact, from the lemmas of Bignum_proofs.         *)
(*****************************************************************************)
EXTENDS MCNumbers, Bignum_proofs

-----------------------------------------------------------------------------
(* The search for primes.                                                    *)

(* A prime passes the division by small primes: the only one of the table    *)
(* that can divide it is itself.                                             *)
LEMMA PrimePassesDivision ==
    ASSUME NEW v \in Nat, v % 2 = 1, v > 1, TRUE \in Verdicts(v)
    PROVE  SearchSmallDivision(v)
<1>1. CASE SearchSmallDivision(v)
  BY <1>1
<1>2. CASE SearchIsPrime(v) \/ v = 3
  <2>1. ASSUME NEW p \in SearchSmallPrimes, p # v
        PROVE  v % p # 0
    <3>1. p \in Nat /\ p > 2
      BY SearchAssumption
    <3>2. CASE p > v
      <4>1. v % p = v
        BY <3>1, <3>2
      <4> QED BY <4>1
    <3>3. CASE p \in 2 .. v - 1
      BY <1>2, <3>1, <3>3 DEF SearchIsPrime
    <3> QED BY <2>1, <3>1, <3>2, <3>3
  <2> QED BY <2>1 DEF SearchSmallDivision
<1>3. v # 2
  OBVIOUS
<1> QED BY <1>1, <1>2, <1>3 DEF Verdicts

(* A candidate has exactly the bits drawn, and is odd.                       *)
Candidate(v) ==
  /\ v \in Nat /\ v % 2 = 1 /\ CandidateBits >= 2
  /\ v \in 2^(CandidateBits - 1) .. 2^CandidateBits - 1

OnlyCandidate == heap = [candidate |-> heap.candidate, p |-> 0, twice |-> 0]

(* What is on the heap at each place of the search.                          *)
HeapFits ==
  /\ searchPc \in {"draw", "done"} => heap = SearchNone
  /\ searchPc = "test" => OnlyCandidate /\ Candidate(heap.candidate)
  /\ searchPc \in {"double", "testp"} =>
       /\ kind = "safe" /\ Candidate(heap.candidate)
       /\ SearchSmallDivision(heap.candidate)
  /\ searchPc = "double" => OnlyCandidate
  /\ searchPc = "testp" =>
       heap = [candidate |-> heap.candidate, p |-> 2 * heap.candidate + 1, twice |-> 0]

SearchInv ==
  /\ kind \in {"prime", "safe"} /\ searchBits \in Bits
  /\ searchPc \in {"draw", "test", "double", "testp", "done"}
  /\ searchPc # "done" => searchStatus = "running"
  /\ HeapFits
  /\ OutputsAreWanted

\* The numbers that a search is about do not change.
SameSearch == kind' = kind /\ searchBits' = searchBits

(* Without a new result the caller's numbers are as wanted.                  *)
LEMMA OutputsKept ==
    ASSUME SearchInv, searchPc # "done", out' = out, SameSearch, searchStatus' # "ok"
    PROVE  OutputsAreWanted'
<1>1. out = [p |-> 0, q |-> 0]
  BY DEF SearchInv, OutputsAreWanted
<1> QED BY <1>1 DEF OutputsAreWanted

(* A candidate stays one while the size asked for stays the same.            *)
LEMMA CandidateKept ==
    ASSUME NEW v, Candidate(v), SameSearch
    PROVE  Candidate(v)'
<1>1. CandidateBits' = CandidateBits
  BY DEF CandidateBits, SameSearch
<1> QED BY <1>1 DEF Candidate

(* The initial states of a search.                                           *)
LEMMA SearchStarts == SearchInit => SearchInv
BY DEF SearchInit, SearchInv, HeapFits, OutputsAreWanted

(* Sizes that prime.c refuses leave nothing allocated.                       *)
LEMMA RefuseKeeps == SearchInv /\ SearchRefuse => SearchInv'
<1> SUFFICES ASSUME SearchInv, SearchRefuse PROVE SearchInv'
  OBVIOUS
<1>1. SameSearch /\ out' = out /\ searchStatus' = "refused" /\ searchPc = "draw"
      /\ searchPc' = "done" /\ heap' = heap
  BY DEF SearchRefuse, SearchReturn, SameSearch
<1>2. OutputsAreWanted'
  BY <1>1, OutputsKept
<1> QED BY <1>1, <1>2 DEF SearchInv, HeapFits, SameSearch

(* A draw sets the top and the bottom bit of the candidate.                  *)
LEMMA DrawKeeps == SearchInv /\ SearchDraw => SearchInv'
<1> SUFFICES ASSUME SearchInv, SearchDraw PROVE SearchInv'
  OBVIOUS
<1>1. PICK v \in 2^(CandidateBits - 1) .. 2^CandidateBits - 1 :
        v % 2 = 1 /\ heap' = [heap EXCEPT !.candidate = v]
  BY DEF SearchDraw
<1>2. SameSearch /\ out' = out /\ searchStatus' = searchStatus /\ searchPc = "draw"
      /\ searchPc' = "test" /\ CandidateBits >= 2 /\ searchStatus = "running"
  BY DEF SearchDraw, SameSearch, SearchInv
<1>3. heap' = [candidate |-> v, p |-> 0, twice |-> 0]
  BY <1>1, <1>2 DEF SearchInv, HeapFits, SearchNone
<1>4. Candidate(v)
  <2>1. CandidateBits \in 0 .. searchBits /\ CandidateBits - 1 \in 0 .. searchBits
    BY <1>2, SearchAssumption DEF CandidateBits, SearchInv
  <2>2. 2^(CandidateBits - 1) \in Nat /\ 2^CandidateBits \in Nat
    BY <2>1, SearchAssumption DEF SearchInv
  <2> HIDE DEF CandidateBits
  <2>3. v \in Nat
    BY <2>2
  <2> QED BY <1>1, <1>2, <2>3 DEF Candidate
<1>5. OnlyCandidate' /\ Candidate(heap.candidate)'
  BY <1>2, <1>3, <1>4, CandidateKept DEF OnlyCandidate
<1>6. OutputsAreWanted'
  BY <1>2, OutputsKept
<1> QED BY <1>2, <1>5, <1>6 DEF SearchInv, HeapFits, SameSearch

(* The tests of a candidate: it is handed over, freed or doubled.            *)
LEMMA TestKeeps == SearchInv /\ Test => SearchInv'
<1> SUFFICES ASSUME SearchInv, Test PROVE SearchInv'
  OBVIOUS
<1>1. PICK probable \in IF SearchSmallDivision(heap.candidate)
                        THEN Verdicts(heap.candidate) ELSE {FALSE} :
        IF ~probable
        THEN Retry /\ heap' = Freed /\ out' = out
        ELSE IF kind = "prime"
        THEN /\ out' = [out EXCEPT !.p = heap.candidate]
             /\ SearchReturn("ok", [heap EXCEPT !.candidate = 0])
        ELSE searchPc' = "double" /\ UNCHANGED <<heap, out, searchStatus>>
  BY DEF Test
<1>2. SameSearch /\ searchPc = "test" /\ searchStatus = "running"
  BY DEF Test, SameSearch, SearchInv
<1>3. OnlyCandidate /\ Candidate(heap.candidate)
  BY <1>2 DEF SearchInv, HeapFits
<1>4. CASE ~probable
  <2>1. searchPc' = "draw" /\ searchStatus' = "running" /\ heap' = SearchNone /\ out' = out
    BY <1>1, <1>2, <1>3, <1>4 DEF Retry, Freed, OnlyCandidate, SearchNone
  <2>2. OutputsAreWanted'
    BY <1>2, <2>1, OutputsKept
  <2> QED BY <1>2, <2>1, <2>2 DEF SearchInv, HeapFits, SameSearch
<1>5. CASE probable
  <2>1. SearchSmallDivision(heap.candidate)
    BY <1>1, <1>5
  <2>2. CASE kind = "prime"
    <3>1. /\ searchPc' = "done" /\ searchStatus' = "ok" /\ heap' = SearchNone
          /\ out' = [out EXCEPT !.p = heap.candidate]
      BY <1>1, <1>3, <1>5, <2>2 DEF SearchReturn, OnlyCandidate, SearchNone
    <3>2. out = [p |-> 0, q |-> 0]
      BY <1>2 DEF SearchInv, OutputsAreWanted
    <3>3. out'.p = heap.candidate
      BY <3>1, <3>2
    <3>4. CandidateBits = searchBits
      BY <2>2 DEF CandidateBits
    <3>5. OutputsAreWanted'
      BY <1>2, <1>3, <2>1, <2>2, <3>1, <3>3, <3>4
         DEF OutputsAreWanted, Candidate, SameSearch, SearchSmallDivision
    <3> QED BY <1>2, <3>1, <3>5 DEF SearchInv, HeapFits, SameSearch
  <2>3. CASE kind # "prime"
    <3>1. searchPc' = "double" /\ heap' = heap /\ out' = out /\ searchStatus' = "running"
      BY <1>1, <1>2, <1>5, <2>3
    <3>2. OutputsAreWanted'
      BY <1>2, <3>1, OutputsKept
    <3>3. Candidate(heap.candidate)' /\ OnlyCandidate' /\ SearchSmallDivision(heap.candidate)'
      BY <1>2, <1>3, <2>1, <3>1, CandidateKept DEF OnlyCandidate, SearchSmallDivision
    <3> QED BY <1>2, <2>3, <3>1, <3>2, <3>3 DEF SearchInv, HeapFits, SameSearch
  <2> QED BY <2>2, <2>3
<1> QED BY <1>4, <1>5

(* The number 2 q + 1 beside the candidate of a safe prime.                  *)
LEMMA DoubleKeeps == SearchInv /\ SearchDouble => SearchInv'
<1> SUFFICES ASSUME SearchInv, SearchDouble PROVE SearchInv'
  OBVIOUS
<1>1. SameSearch /\ searchPc = "double" /\ searchPc' = "testp" /\ out' = out
      /\ searchStatus = "running" /\ searchStatus' = "running"
      /\ heap' = [heap EXCEPT !.p = 2 * heap.candidate + 1]
  BY DEF SearchDouble, SameSearch, SearchInv
<1>2. /\ kind = "safe" /\ Candidate(heap.candidate) /\ SearchSmallDivision(heap.candidate)
      /\ OnlyCandidate
  BY <1>1 DEF SearchInv, HeapFits
<1>3. heap' = [candidate |-> heap.candidate, p |-> 2 * heap.candidate + 1, twice |-> 0]
  BY <1>1, <1>2 DEF OnlyCandidate
<1>4. heap'.candidate = heap.candidate
  BY <1>3
<1>5. Candidate(heap.candidate)' /\ SearchSmallDivision(heap.candidate)'
  BY <1>1, <1>2, <1>4, CandidateKept DEF SearchSmallDivision
<1>6. OutputsAreWanted'
  BY <1>1, OutputsKept
<1> QED BY <1>1, <1>2, <1>3, <1>4, <1>5, <1>6 DEF SearchInv, HeapFits, SameSearch

(* The tests of 2 q + 1 free both numbers or hand one over.                  *)
LEMMA TestSafeKeeps == SearchInv /\ TestSafe => SearchInv'
<1> SUFFICES ASSUME SearchInv, TestSafe PROVE SearchInv'
  OBVIOUS
<1>1. PICK probable \in IF Wanted(heap.p) THEN Verdicts(heap.p) ELSE {FALSE} :
        IF probable
        THEN /\ out' = [p |-> heap.p, q |-> heap.candidate]
             /\ SearchReturn("ok", SearchNone)
        ELSE Retry /\ heap' = SearchNone /\ out' = out
  BY DEF TestSafe
<1>2. SameSearch /\ searchPc = "testp" /\ searchStatus = "running"
  BY DEF TestSafe, SameSearch, SearchInv
<1>3. /\ kind = "safe" /\ Candidate(heap.candidate) /\ SearchSmallDivision(heap.candidate)
      /\ heap = [candidate |-> heap.candidate, p |-> 2 * heap.candidate + 1, twice |-> 0]
  BY <1>2 DEF SearchInv, HeapFits
<1>4. heap.p = 2 * heap.candidate + 1 /\ heap.candidate \in Nat /\ heap.candidate > 0
  BY <1>3 DEF Candidate
<1>5. heap.p \in Nat /\ heap.p % 2 = 1 /\ heap.p > 1
  BY <1>4
<1>6. CASE ~probable
  <2>1. searchPc' = "draw" /\ searchStatus' = "running" /\ heap' = SearchNone /\ out' = out
    BY <1>1, <1>2, <1>6 DEF Retry
  <2>2. OutputsAreWanted'
    BY <1>2, <2>1, OutputsKept
  <2> QED BY <1>2, <2>1, <2>2 DEF SearchInv, HeapFits, SameSearch
<1>7. CASE probable
  <2>1. Wanted(heap.p) /\ TRUE \in Verdicts(heap.p)
    BY <1>1, <1>7 DEF Verdicts
  <2>2. SearchSmallDivision(heap.p)
    BY <1>5, <2>1, PrimePassesDivision
  <2>3. /\ searchPc' = "done" /\ searchStatus' = "ok" /\ heap' = SearchNone
        /\ out' = [p |-> heap.p, q |-> heap.candidate]
    BY <1>1, <1>7 DEF SearchReturn
  <2>4. out'.p = heap.p /\ out'.q = heap.candidate
    BY <2>3
  <2>5. heap.p \in 2^(searchBits - 1) .. 2^searchBits - 1
    <3>1. searchBits \in 0 .. searchBits /\ searchBits - 1 \in 0 .. searchBits
      BY <1>3, SearchAssumption DEF SearchInv, Candidate, CandidateBits
    <3>2. 2^(searchBits - 1) \in Nat /\ 2^searchBits \in Nat
      BY <3>1, SearchAssumption DEF SearchInv
    <3> QED BY <1>5, <2>1, <3>2 DEF Wanted
  <2>6. OutputsAreWanted'
    BY <1>2, <1>3, <1>4, <1>5, <2>2, <2>3, <2>4, <2>5
       DEF OutputsAreWanted, SameSearch, SearchSmallDivision
  <2> QED BY <1>2, <2>3, <2>6 DEF SearchInv, HeapFits, SameSearch
<1>8. probable \in BOOLEAN
  BY <1>1 DEF Verdicts
<1> QED BY <1>6, <1>7, <1>8

(* Giving up and failing free what is held.                                  *)
LEMMA WayOutKeeps == SearchInv /\ (GiveUp \/ SearchFails) => SearchInv'
<1> SUFFICES ASSUME SearchInv, GiveUp \/ SearchFails PROVE SearchInv'
  OBVIOUS
<1>1. /\ SameSearch /\ out' = out /\ searchStatus' \in {"exhausted", "error"}
      /\ searchPc # "done" /\ searchPc' = "done" /\ heap' = SearchNone
  BY DEF GiveUp, SearchFails, SearchReturn, SameSearch
<1>2. OutputsAreWanted'
  BY <1>1, OutputsKept
<1> QED BY <1>1, <1>2 DEF SearchInv, HeapFits, SameSearch

(* Every step of a search.                                                   *)
LEMMA SearchStep == SearchInv /\ [SearchNext]_searchVars => SearchInv'
<1>1. ASSUME SearchInv, UNCHANGED searchVars
      PROVE  SearchInv'
  BY <1>1 DEF searchVars, SearchInv, HeapFits, OutputsAreWanted, OnlyCandidate, Candidate,
              CandidateBits, SearchSmallDivision
<1> QED
  BY <1>1, RefuseKeeps, DrawKeeps, TestKeeps, DoubleKeeps, TestSafeKeeps, WayOutKeeps
     DEF SearchNext, SearchFinished

-----------------------------------------------------------------------------
(* RSA key generation.  First that the exponent it computes is the inverse.  *)

\* What rsa_inverse_u32 keeps between two rounds: remainders are not negative.
EuclidState == [t : Int, newT : Int, r : Nat, newR : Nat]

EuclidRound(e) ==
  IF e.newR = 0 THEN e
  ELSE [t |-> e.newT, newT |-> e.t - (e.r \div e.newR) * e.newT,
        r |-> e.newR, newR |-> e.r - (e.r \div e.newR) * e.newR]

(* A round of rsa_inverse_u32 keeps its four numbers integers.               *)
LEMMA RoundKeepsState ==
    ASSUME NEW e \in EuclidState
    PROVE  EuclidRound(e) \in EuclidState
<1>1. CASE e.newR = 0
  BY <1>1 DEF EuclidRound
<1>2. CASE e.newR # 0
  <2>1. PICK k : k = e.r \div e.newR
    OBVIOUS
  <2>2. e.t \in Int /\ e.newT \in Int /\ e.r \in Nat /\ e.newR \in Nat \ {0}
    BY <1>2 DEF EuclidState
  <2> DEFINE m == e.newR
             n == e.r
  <2>a. m \in Nat \ {0} /\ n \in Nat /\ k = n \div m
    BY <2>1, <2>2
  <2> HIDE DEF m, n
  <2>b. k \in Nat /\ n = m * k + (n % m) /\ n % m \in 0 .. m - 1
    BY <2>a, Division
  <2>c. n % m \in Nat
    BY <2>a, <2>b
  <2>3. k \in Nat /\ e.r = e.newR * k + (e.r % e.newR) /\ e.r % e.newR \in Nat
    BY <2>b, <2>c DEF m, n
  <2>4. e.newR * k = k * e.newR /\ k * e.newR \in Nat /\ k * e.newT \in Int
    BY <2>2, <2>3
  <2>5. e.r - k * e.newR \in Nat /\ e.t - k * e.newT \in Int
    BY <2>2, <2>3, <2>4
  <2>6. EuclidRound(e) = [t |-> e.newT, newT |-> e.t - k * e.newT,
                          r |-> e.newR, newR |-> e.r - k * e.newR]
    BY <1>2, <2>1 DEF EuclidRound
  <2> QED BY <2>2, <2>5, <2>6 DEF EuclidState
<1> QED BY <1>1, <1>2

(* rsa_inverse_u32 stays within integers; its quotients divide by what is    *)
(* not zero.                                                                 *)
LEMMA EuclidInState ==
    ASSUME NEW a \in Nat, NEW m \in Nat
    PROVE  Euclid(a, m) \in EuclidState
<1> DEFINE first == [t |-> 0, newT |-> 1, r |-> m, newR |-> a]
           Rounds1(w) == w = [s \in 0 .. m |->
                               IF s = 0 THEN [t |-> 0, newT |-> 1, r |-> m, newR |-> a]
                               ELSE IF w[s - 1].newR = 0 THEN w[s - 1]
                               ELSE [t |-> w[s - 1].newT,
                                     newT |-> w[s - 1].t
                                                - (w[s - 1].r \div w[s - 1].newR) * w[s - 1].newT,
                                     r |-> w[s - 1].newR,
                                     newR |-> w[s - 1].r
                                                - (w[s - 1].r \div w[s - 1].newR) * w[s - 1].newR]]
           chosen == CHOOSE w : Rounds1(w)
           g == [e \in EuclidState |-> EuclidRound(e)]
<1>1. Euclid(a, m) = chosen[m]
  BY DEF Euclid
<1>2. first \in EuclidState
  BY DEF EuclidState
<1>3. g \in [EuclidState -> EuclidState]
  BY RoundKeepsState
<1>4. PICK f : /\ f \in [0 .. m -> EuclidState]
               /\ f[0] = first /\ \A s \in 1 .. m : f[s] = g[f[s - 1]]
  <2> HIDE DEF first, g
  <2>1. PICK f : Iterates(f, EuclidState, first, g, m)
    BY <1>2, <1>3, Iteration
  <2> QED BY <2>1 DEF Iterates
<1>5. Rounds1(f)
  <2>1. ASSUME NEW s \in 0 .. m
        PROVE  f[s] = IF s = 0 THEN first ELSE EuclidRound(f[s - 1])
    <3>1. CASE s = 0
      BY <1>4, <3>1
    <3>2. CASE s # 0
      <4>1. s \in 1 .. m /\ s - 1 \in 0 .. m
        BY <3>2
      <4>2. f[s - 1] \in EuclidState
        BY <1>4, <4>1
      <4>3. g[f[s - 1]] = EuclidRound(f[s - 1])
        BY <4>2
      <4> HIDE DEF g, first
      <4> QED BY <1>4, <3>2, <4>1, <4>3
    <3> QED BY <3>1, <3>2
  <2>2. f = [s \in 0 .. m |-> f[s]]
    BY <1>4
  <2>3. f = [s \in 0 .. m |-> IF s = 0 THEN first ELSE EuclidRound(f[s - 1])]
    <3> HIDE DEF first
    <3> QED BY <2>1, <2>2
  <2> QED BY <2>3 DEF EuclidRound
<1>6. Rounds1(chosen)
  <2> HIDE DEF Rounds1
  <2> QED BY <1>5
<1> HIDE DEF chosen
<1>7. \A s \in 0 .. m : chosen[s] = IF s = 0 THEN first ELSE EuclidRound(chosen[s - 1])
  BY <1>6 DEF EuclidRound
<1> HIDE DEF Rounds1, first, g
<1> DEFINE T == {s \in Nat : s <= m => chosen[s] \in EuclidState}
<1>8. 0 \in T
  <2>1. 0 \in 0 .. m
    OBVIOUS
  <2>2. chosen[0] = first
    BY <1>7, <2>1
  <2> QED BY <1>2, <2>2
<1>9. ASSUME NEW s \in Nat, s \in T PROVE s + 1 \in T
  <2> SUFFICES ASSUME s + 1 <= m PROVE chosen[s + 1] \in EuclidState
    OBVIOUS
  <2>1. s + 1 \in 0 .. m /\ s + 1 # 0 /\ (s + 1) - 1 = s /\ chosen[s] \in EuclidState
    BY <1>9
  <2>2. chosen[s + 1] = EuclidRound(chosen[s])
    BY <1>7, <2>1
  <2> QED BY <2>1, <2>2, RoundKeepsState
<1>10. m \in T
  <2> HIDE DEF T
  <2> QED BY <1>8, <1>9, SetInduction
<1> QED BY <1>1, <1>10

(* One more than a multiple leaves one, also below zero.                     *)
LEMMA OneOverMultiple ==
    ASSUME NEW k \in Int, NEW m \in Nat, m > 1
    PROVE  (k * m + 1) % m = 1
<1>1. PICK n : n = k * m + 1
  OBVIOUS
<1>2. n \in Int
  BY <1>1
<1>3. PICK c \in Int, d \in Int : n = m * c + d /\ c = n \div m /\ d = n % m /\ d \in 0 .. m - 1
  BY <1>2
<1>4. m * (k - c) = d - 1
  <2>1. m * (k - c) = k * m - m * c
    BY <1>3
  <2> QED BY <1>1, <1>3, <2>1
<1>5. k = c
  <2>1. CASE k > c
    <3>1. m * (k - c) >= m
      BY <1>3, <2>1
    <3> QED BY <1>3, <1>4, <3>1
  <2>2. CASE k < c
    <3>1. m * (c - k) >= m /\ m * (k - c) = -(m * (c - k))
      BY <1>3, <2>2
    <3>2. m * (c - k) \in Int
      BY <1>3
    <3> QED BY <1>3, <1>4, <3>1, <3>2
  <2> QED BY <1>3, <2>1, <2>2
<1>6. m * (k - c) = 0
  BY <1>5
<1> QED BY <1>1, <1>3, <1>4, <1>6

(* make_private_exponent returns an exponent only after a division without   *)
(* a rest, so that E times it is one modulo phi whatever the inverse was.    *)
LEMMA ExponentInverts ==
    ASSUME NEW phi \in Nat, phi > 1, PrivateExponent(phi) # 0
    PROVE  (E * PrivateExponent(phi)) % phi = 1
<1>1. E \in Nat /\ E > 2
  BY EAssumption
<1>2. PICK k : k = IF E - InverseU32[phi % E] = E THEN 0 ELSE E - InverseU32[phi % E]
  OBVIOUS
<1>3. k \in Int
  <2>1. phi % E \in 0 .. E - 1
    BY <1>1
  <2>2. Euclid(phi % E, E) \in EuclidState
    BY <1>1, <2>1, EuclidInState
  <2>3. PICK e : e = Euclid(phi % E, E)
    OBVIOUS
  <2>4. InverseU32[phi % E] = IF e.r # 1 THEN 0 ELSE IF e.t < 0 THEN e.t + E ELSE e.t
    BY <2>1, <2>3 DEF InverseU32
  <2>5. e.t \in Int
    BY <2>2, <2>3 DEF EuclidState
  <2>6. InverseU32[phi % E] \in Int
    BY <1>1, <2>4, <2>5
  <2> QED BY <1>1, <1>2, <2>6
<1>4. PICK n : n = k * phi + 1
  OBVIOUS
<1>5. n \in Int
  BY <1>3, <1>4
<1>6. n % E = 0 /\ PrivateExponent(phi) = n \div E
  BY <1>2, <1>4 DEF PrivateExponent
<1>7. E * (n \div E) = n
  BY <1>1, <1>5, <1>6
<1>8. n % phi = 1
  BY <1>3, <1>4, OneOverMultiple
<1> QED BY <1>6, <1>7, <1>8

(* The calls.                                                                *)
GoodPrime(p) == p \in Nat /\ p > 1 /\ p % 2 = 1 /\ IsPrime(p)

\* Temporaries that passed every check: the modulus, its factors, the exponent.
OneKey(bits, t) ==
  /\ GoodPrime(t.p) /\ GoodPrime(t.q) /\ t.p # t.q
  /\ t.n = t.p * t.q /\ t.n \in OfBits(bits)
  /\ (E * t.d) % ((t.p - 1) * (t.q - 1)) = 1

\* The public and the private object after k of the six copies.
Filled(k, t, pub, priv) ==
  /\ k \in 0 .. 6
  /\ pub = [N |-> IF k > 0 THEN t.n ELSE 0, E |-> IF k > 1 THEN E ELSE 0]
  /\ priv = [N |-> IF k > 2 THEN t.n ELSE 0, D |-> IF k > 3 THEN t.d ELSE 0,
             P |-> IF k > 4 THEN t.p ELSE 0, Q |-> IF k > 5 THEN t.q ELSE 0]

KeyShapes(pub, priv) ==
  /\ pub = [N |-> pub.N, E |-> pub.E]
  /\ priv = [N |-> priv.N, D |-> priv.D, P |-> priv.P, Q |-> priv.Q]

\* NoMixedPair of two objects.
Unmixed(pub, priv) ==
  /\ priv.N # 0 => priv.N = pub.N
  /\ priv.P # 0 /\ priv.N # 0 => priv.N % priv.P = 0
  /\ priv.N = 0 => priv = NoPrivate

RsaShapes ==
  /\ rsaTmp = [p |-> rsaTmp.p, q |-> rsaTmp.q, n |-> rsaTmp.n, p1 |-> rsaTmp.p1,
               q1 |-> rsaTmp.q1, phi |-> rsaTmp.phi, d |-> rsaTmp.d]
  /\ KeyShapes(public, private)

\* What the temporaries hold at each place of a key generation.
RsaTmpFits ==
  /\ rsaPc \in {"idle", "attempt"} => rsaTmp = RsaNoTmp
  /\ rsaPc \in {"second", "check"} => GoodPrime(rsaTmp.p)
  /\ rsaPc = "check" => GoodPrime(rsaTmp.q)
  /\ rsaPc \in {"promote", "copy"} => OneKey(rsaBits, rsaTmp)

RsaInv ==
  /\ rsaPc \in {"idle", "attempt", "second", "check", "promote", "copy"}
  /\ rsaPc # "idle" =>
       rsaBits \in RsaSizes /\ rsaBits >= RsaMinBits /\ rsaStatus = "running"
  /\ rsaPc \notin {"idle", "copy"} => rsaCopied = 0
  /\ RsaShapes /\ RsaTmpFits /\ NoMixedPair
  /\ rsaPc = "copy" => Filled(rsaCopied, rsaTmp, public, private)
  /\ KeyIsAsAsked

(* A prime of some bits is odd and above one.                                *)
LEMMA DrawnPrime ==
    ASSUME NEW b \in Nat \ {0}, 2^(b - 1) \in Nat, 2^b \in Nat, NEW p \in PrimesOfBits(b)
    PROVE  GoodPrime(p)
<1>1. p \in 2^(b - 1) .. 2^b - 1 /\ IsPrime(p) /\ p % 2 = 1
  BY DEF PrimesOfBits, OfBits
<1>2. p \in Nat
  BY <1>1
<1> QED BY <1>1, <1>2 DEF GoodPrime, IsPrime

(* phi of two different odd primes is above one.                             *)
LEMMA PhiAboveOne ==
    ASSUME NEW p, NEW q, GoodPrime(p), GoodPrime(q)
    PROVE  (p - 1) * (q - 1) \in Nat /\ (p - 1) * (q - 1) > 1
<1>1. p \in Nat /\ q \in Nat /\ p > 2 /\ q > 2
  BY DEF GoodPrime
<1>2. PICK x \in Nat, y \in Nat : x = p - 1 /\ y = q - 1
  BY <1>1
<1>3. x >= 2 /\ y >= 2
  BY <1>1, <1>2
<1>4. x * y >= 2 * y /\ x * y \in Nat
  BY <1>3
<1> QED BY <1>2, <1>3, <1>4

(* While they are filled the objects hold parts of one key.                  *)
LEMMA FilledIsOnePair ==
    ASSUME NEW k, NEW t, NEW pub, NEW priv, NEW bits,
           Filled(k, t, pub, priv), OneKey(bits, t)
    PROVE  KeyShapes(pub, priv) /\ Unmixed(pub, priv)
<1>1. PICK p, q, n : p = t.p /\ q = t.q /\ n = t.n
  OBVIOUS
<1>2. p \in Nat \ {0} /\ q \in Nat \ {0} /\ n = p * q
  BY <1>1 DEF OneKey, GoodPrime
<1>3. n \in Nat \ {0} /\ n % p = 0
  <2>1. n % p = 0 /\ p * q > 0
    BY <1>2, MultipleHasNoRest
  <2> QED BY <1>2, <2>1
<1>4. k \in 0 .. 6
  BY DEF Filled
<1>5. /\ pub.N = IF k > 0 THEN n ELSE 0
      /\ priv.N = IF k > 2 THEN n ELSE 0
      /\ priv.P = IF k > 4 THEN p ELSE 0
      /\ priv.D = IF k > 3 THEN t.d ELSE 0
      /\ priv.Q = IF k > 5 THEN q ELSE 0
  BY <1>1 DEF Filled
<1>6. priv.N = 0 => priv = [N |-> 0, D |-> 0, P |-> 0, Q |-> 0]
  BY <1>1, <1>3, <1>4, <1>5 DEF Filled
<1>7. KeyShapes(pub, priv)
  BY DEF Filled, KeyShapes
<1> QED BY <1>3, <1>4, <1>5, <1>6, <1>7 DEF Unmixed, NoPrivate

(* The initial states of RSA: two empty key objects.                         *)
LEMMA RsaStarts == RsaInit => RsaInv
BY DEF RsaInit, RsaInv, RsaShapes, KeyShapes, RsaTmpFits, NoMixedPair, KeyIsAsAsked,
       RsaNoTmp, NoPublic, NoPrivate

\* The objects of the caller and the size asked for stay as they are.
SameKeys == public' = public /\ private' = private /\ rsaBits' = rsaBits

(* Untouched key objects stay of one generation.                             *)
LEMMA PairKept ==
    ASSUME NoMixedPair, public' = public, private' = private
    PROVE  NoMixedPair'
BY DEF NoMixedPair

(* The entry of rsa_keygen and the sizes and exponents it refuses.           *)
LEMMA KeygenKeeps == RsaInv /\ RsaKeygen => RsaInv'
<1> SUFFICES ASSUME RsaInv, RsaKeygen PROVE RsaInv'
  OBVIOUS
<1>1. /\ rsaPc = "idle" /\ rsaCopied' = 0 /\ rsaTmp' = rsaTmp
      /\ public' = public /\ private' = private
  BY DEF RsaKeygen
<1>2. RsaShapes' /\ NoMixedPair' /\ rsaTmp' = RsaNoTmp
  BY <1>1, PairKept DEF RsaInv, RsaShapes, RsaTmpFits
<1>3. PICK s \in RsaSizes :
        IF s < RsaMinBits
        THEN rsaStatus' = "invalid_argument" /\ UNCHANGED <<rsaPc, rsaBits>>
        ELSE rsaPc' = "attempt" /\ rsaBits' = s /\ rsaStatus' = "running"
  BY DEF RsaKeygen
<1>4. CASE s < RsaMinBits
  BY <1>1, <1>2, <1>3, <1>4 DEF RsaInv, RsaTmpFits, KeyIsAsAsked
<1>5. CASE ~ (s < RsaMinBits)
  <2>1. s >= RsaMinBits
    BY <1>5, RsaAssumption
  <2> QED BY <1>1, <1>2, <1>3, <1>5, <2>1 DEF RsaInv, RsaTmpFits, KeyIsAsAsked
<1> QED BY <1>4, <1>5

(* The sizes of the two primes.                                              *)
LEMMA HalvesAreSizes ==
    ASSUME rsaBits \in RsaSizes, rsaBits >= RsaMinBits
    PROVE  \A b \in {rsaBits \div 2, SecondBits} :
             b \in Nat \ {0} /\ 2^(b - 1) \in Nat /\ 2^b \in Nat
<1>1. rsaBits \in Nat /\ rsaBits > 3
  BY RsaAssumption
<1>2. ASSUME NEW b \in {rsaBits \div 2, SecondBits}
      PROVE  b \in Nat \ {0} /\ b \in 0 .. rsaBits /\ b - 1 \in 0 .. rsaBits
  BY <1>1 DEF SecondBits
<1> QED BY <1>2, RsaAssumption

(* The search of p and of q.                                                 *)
LEMMA PrimesKeep == RsaInv /\ (FirstPrime \/ SecondPrime) => RsaInv'
<1> SUFFICES ASSUME RsaInv, FirstPrime \/ SecondPrime PROVE RsaInv'
  OBVIOUS
<1>1. /\ SameKeys /\ rsaStatus' = rsaStatus /\ rsaCopied' = rsaCopied
      /\ rsaPc \in {"attempt", "second"}
  BY DEF FirstPrime, SecondPrime, SameKeys
<1>2. /\ rsaBits \in RsaSizes /\ rsaBits >= RsaMinBits /\ rsaStatus = "running"
      /\ rsaCopied = 0
  BY <1>1 DEF RsaInv
<1>3. NoMixedPair' /\ KeyIsAsAsked'
  BY <1>1, <1>2, PairKept DEF RsaInv, SameKeys, KeyIsAsAsked
<1>4. CASE FirstPrime
  <2>1. PICK p \in PrimesOfBits(rsaBits \div 2) : rsaTmp' = [RsaNoTmp EXCEPT !.p = p]
    BY <1>4 DEF FirstPrime
  <2>2. GoodPrime(p)
    BY <1>2, HalvesAreSizes, DrawnPrime
  <2>3. rsaTmp' = [p |-> p, q |-> 0, n |-> 0, p1 |-> 0, q1 |-> 0, phi |-> 0, d |-> 0]
    BY <2>1 DEF RsaNoTmp
  <2>4. rsaPc' = "second"
    BY <1>4 DEF FirstPrime
  <2> QED BY <1>1, <1>2, <1>3, <2>2, <2>3, <2>4
          DEF RsaInv, RsaShapes, RsaTmpFits, SameKeys, GoodPrime
<1>5. CASE SecondPrime
  <2>1. PICK q \in PrimesOfBits(SecondBits) : rsaTmp' = [rsaTmp EXCEPT !.q = q]
    BY <1>5 DEF SecondPrime
  <2>2. GoodPrime(q)
    BY <1>2, HalvesAreSizes, DrawnPrime
  <2>3. rsaTmp' = [p |-> rsaTmp.p, q |-> q, n |-> rsaTmp.n, p1 |-> rsaTmp.p1,
                   q1 |-> rsaTmp.q1, phi |-> rsaTmp.phi, d |-> rsaTmp.d]
    BY <2>1 DEF RsaInv, RsaShapes
  <2>4. rsaPc = "second" /\ rsaPc' = "check" /\ GoodPrime(rsaTmp.p)
    BY <1>5 DEF SecondPrime, RsaInv, RsaTmpFits
  <2> QED BY <1>1, <1>2, <1>3, <2>2, <2>3, <2>4
          DEF RsaInv, RsaShapes, RsaTmpFits, SameKeys, GoodPrime
<1> QED BY <1>4, <1>5

(* A new attempt frees all seven temporaries.                                *)
LEMMA AttemptKeeps ==
    ASSUME RsaInv, rsaPc = "check", rsaPc' = "attempt", rsaTmp' = RsaNoTmp,
           SameKeys, rsaCopied' = rsaCopied, rsaStatus' = rsaStatus
    PROVE  RsaInv'
<1>1. NoMixedPair' /\ KeyIsAsAsked' /\ RsaShapes'
  BY PairKept DEF RsaInv, SameKeys, KeyIsAsAsked, RsaShapes, RsaNoTmp
<1> QED BY <1>1 DEF RsaInv, RsaTmpFits, SameKeys

(* The tests of a pair: it is kept or all seven numbers are freed.           *)
LEMMA CheckKeeps == RsaInv /\ (Check \/ CheckFails) => RsaInv'
<1> SUFFICES ASSUME RsaInv, Check \/ CheckFails PROVE RsaInv'
  OBVIOUS
<1>1. /\ SameKeys /\ rsaStatus' = rsaStatus /\ rsaCopied' = rsaCopied /\ rsaPc = "check"
      /\ rsaCopied = 0 /\ rsaStatus = "running"
      /\ rsaBits \in RsaSizes /\ rsaBits >= RsaMinBits
  BY DEF Check, CheckFails, SameKeys, RsaInv
<1>2. PICK p, q : p = rsaTmp.p /\ q = rsaTmp.q
  OBVIOUS
<1>3. PICK n, phi, d : n = p * q /\ phi = (p - 1) * (q - 1) /\ d = PrivateExponent(phi)
  OBVIOUS
<1>4. \/ rsaPc' = "attempt" /\ rsaTmp' = RsaNoTmp
      \/ /\ p # q /\ ~TooShort(n) /\ d # 0 /\ rsaPc' = "promote"
         /\ rsaTmp' = [rsaTmp EXCEPT !.n = n, !.p1 = p - 1, !.q1 = q - 1,
                                     !.phi = phi, !.d = d]
  BY <1>2, <1>3 DEF Check, CheckFails
<1>5. CASE rsaPc' = "attempt" /\ rsaTmp' = RsaNoTmp
  BY <1>1, <1>5, AttemptKeeps
<1>6. CASE /\ p # q /\ ~TooShort(n) /\ d # 0 /\ rsaPc' = "promote"
           /\ rsaTmp' = [rsaTmp EXCEPT !.n = n, !.p1 = p - 1, !.q1 = q - 1,
                                       !.phi = phi, !.d = d]
  <2>1. rsaTmp' = [p |-> p, q |-> q, n |-> n, p1 |-> p - 1, q1 |-> q - 1,
                   phi |-> phi, d |-> d]
    <3>1. PICK t : t = rsaTmp
      OBVIOUS
    <3>2. t = [p |-> p, q |-> q, n |-> t.n, p1 |-> t.p1, q1 |-> t.q1, phi |-> t.phi, d |-> t.d]
      BY <1>2, <3>1 DEF RsaInv, RsaShapes
    <3>3. PICK p1, q1 : p1 = p - 1 /\ q1 = q - 1
      OBVIOUS
    <3>4. PICK u : u = [t EXCEPT !.n = n]
      OBVIOUS
    <3>5. u = [p |-> p, q |-> q, n |-> n, p1 |-> t.p1, q1 |-> t.q1, phi |-> t.phi, d |-> t.d]
      BY <3>2, <3>4
    <3>6. PICK v : v = [u EXCEPT !.p1 = p1]
      OBVIOUS
    <3>7. v = [p |-> p, q |-> q, n |-> n, p1 |-> p1, q1 |-> t.q1, phi |-> t.phi, d |-> t.d]
      BY <3>5, <3>6
    <3>8. PICK w : w = [v EXCEPT !.q1 = q1]
      OBVIOUS
    <3>9. w = [p |-> p, q |-> q, n |-> n, p1 |-> p1, q1 |-> q1, phi |-> t.phi, d |-> t.d]
      BY <3>7, <3>8
    <3>10. rsaTmp' = [w EXCEPT !.phi = phi, !.d = d]
      BY <1>6, <3>1, <3>3, <3>4, <3>6, <3>8
    <3>11. rsaTmp' = [p |-> p, q |-> q, n |-> n, p1 |-> p1, q1 |-> q1, phi |-> phi, d |-> d]
      BY <3>9, <3>10
    <3> QED BY <3>3, <3>11
  <2>2. GoodPrime(p) /\ GoodPrime(q)
    BY <1>1, <1>2 DEF RsaInv, RsaTmpFits
  <2>3. phi \in Nat /\ phi > 1
    BY <1>3, <2>2, PhiAboveOne
  <2>4. (E * d) % phi = 1
    BY <1>3, <1>6, <2>3, ExponentInverts
  <2>5. OneKey(rsaBits, rsaTmp')
    <3>1. rsaTmp'.p = p /\ rsaTmp'.q = q /\ rsaTmp'.n = n /\ rsaTmp'.d = d
      BY <2>1
    <3>2. (E * rsaTmp'.d) % ((rsaTmp'.p - 1) * (rsaTmp'.q - 1)) = 1
      BY <1>3, <2>4, <3>1
    <3> QED BY <1>3, <1>6, <2>2, <3>1, <3>2 DEF OneKey, TooShort
  <2>6. NoMixedPair' /\ KeyIsAsAsked' /\ RsaShapes'
    BY <1>1, <2>1, PairKept DEF RsaInv, SameKeys, KeyIsAsAsked, RsaShapes
  <2> QED BY <1>1, <1>6, <2>5, <2>6 DEF RsaInv, RsaTmpFits, SameKeys
<1> QED BY <1>4, <1>5, <1>6

(* The exponent found and the start of the copies.                           *)
LEMMA PromoteKeeps == RsaInv /\ Promote => RsaInv'
<1> SUFFICES ASSUME RsaInv, Promote PROVE RsaInv'
  OBVIOUS
<1>1. /\ rsaPc = "promote" /\ rsaPc' = "copy" /\ public' = NoPublic /\ private' = NoPrivate
      /\ rsaBits' = rsaBits /\ rsaTmp' = rsaTmp /\ rsaCopied' = rsaCopied
      /\ rsaStatus' = rsaStatus /\ rsaCopied = 0 /\ rsaStatus = "running"
  BY DEF Promote, RsaEmptied, RsaInv
<1>2. Filled(rsaCopied', rsaTmp', public', private')
  BY <1>1 DEF Filled, NoPublic, NoPrivate
<1>3. OneKey(rsaBits', rsaTmp')
  BY <1>1 DEF RsaInv, RsaTmpFits
<1>4. NoMixedPair' /\ KeyIsAsAsked' /\ RsaShapes'
  BY <1>1 DEF NoMixedPair, KeyIsAsAsked, RsaShapes, KeyShapes, RsaInv, NoPublic, NoPrivate
<1> QED BY <1>1, <1>2, <1>3, <1>4 DEF RsaInv, RsaTmpFits

(* One copy after another.                                                   *)
LEMMA OneMoreCopy ==
    ASSUME NEW k \in 0 .. 5, NEW t, NEW pub, NEW priv, NEW pub1, NEW priv1,
           Filled(k, t, pub, priv),
           pub1 = CASE k = 0 -> [pub EXCEPT !.N = t.n]
                    [] k = 1 -> [pub EXCEPT !.E = E]
                    [] OTHER -> pub,
           priv1 = CASE k = 2 -> [priv EXCEPT !.N = t.n]
                     [] k = 3 -> [priv EXCEPT !.D = t.d]
                     [] k = 4 -> [priv EXCEPT !.P = t.p]
                     [] k = 5 -> [priv EXCEPT !.Q = t.q]
                     [] OTHER -> priv
    PROVE  Filled(k + 1, t, pub1, priv1)
<1>1. k + 1 \in 0 .. 6
  OBVIOUS
<1>2. pub1 = [N |-> IF k + 1 > 0 THEN t.n ELSE 0, E |-> IF k + 1 > 1 THEN E ELSE 0]
  <2>1. PICK x, y, x1, y1 :
           /\ x = IF k > 0 THEN t.n ELSE 0
           /\ y = IF k > 1 THEN E ELSE 0
           /\ x1 = IF k + 1 > 0 THEN t.n ELSE 0
           /\ y1 = IF k + 1 > 1 THEN E ELSE 0
    OBVIOUS
  <2>2. pub = [N |-> x, E |-> y]
    BY <2>1 DEF Filled
  <2>3. CASE k = 0
    <3>1. x1 = t.n /\ y1 = y /\ pub1 = [pub EXCEPT !.N = x1]
      BY <2>1, <2>3
    <3> QED BY <2>1, <2>2, <3>1
  <2>4. CASE k = 1
    <3>1. y1 = E /\ x1 = x /\ pub1 = [pub EXCEPT !.E = y1]
      BY <2>1, <2>4
    <3> QED BY <2>1, <2>2, <3>1
  <2>5. CASE k > 1
    <3>1. x1 = x /\ y1 = y /\ pub1 = pub
      BY <2>1, <2>5
    <3> QED BY <2>1, <2>2, <3>1
  <2> QED BY <2>3, <2>4, <2>5
<1>3. priv1 = [N |-> IF k + 1 > 2 THEN t.n ELSE 0, D |-> IF k + 1 > 3 THEN t.d ELSE 0,
               P |-> IF k + 1 > 4 THEN t.p ELSE 0, Q |-> IF k + 1 > 5 THEN t.q ELSE 0]
  <2>1. PICK x, y, z, w :
           /\ x = IF k > 2 THEN t.n ELSE 0
           /\ y = IF k > 3 THEN t.d ELSE 0
           /\ z = IF k > 4 THEN t.p ELSE 0
           /\ w = IF k > 5 THEN t.q ELSE 0
    OBVIOUS
  <2>2. PICK x1, y1, z1, w1 :
           /\ x1 = IF k + 1 > 2 THEN t.n ELSE 0
           /\ y1 = IF k + 1 > 3 THEN t.d ELSE 0
           /\ z1 = IF k + 1 > 4 THEN t.p ELSE 0
           /\ w1 = IF k + 1 > 5 THEN t.q ELSE 0
    OBVIOUS
  <2>3. priv = [N |-> x, D |-> y, P |-> z, Q |-> w]
    BY <2>1 DEF Filled
  <2> SUFFICES priv1 = [N |-> x1, D |-> y1, P |-> z1, Q |-> w1]
    BY <2>2
  <2>4. CASE k < 2
    <3>1. x1 = x /\ y1 = y /\ z1 = z /\ w1 = w /\ priv1 = priv
      BY <2>1, <2>2, <2>4
    <3> QED BY <2>3, <3>1
  <2>5. CASE k = 2
    <3>1. x1 = t.n /\ y1 = y /\ z1 = z /\ w1 = w /\ priv1 = [priv EXCEPT !.N = x1]
      BY <2>1, <2>2, <2>5
    <3> QED BY <2>3, <3>1
  <2>6. CASE k = 3
    <3>1. x1 = x /\ y1 = t.d /\ z1 = z /\ w1 = w /\ priv1 = [priv EXCEPT !.D = y1]
      BY <2>1, <2>2, <2>6
    <3> QED BY <2>3, <3>1
  <2>7. CASE k = 4
    <3>1. x1 = x /\ y1 = y /\ z1 = t.p /\ w1 = w /\ priv1 = [priv EXCEPT !.P = z1]
      BY <2>1, <2>2, <2>7
    <3> QED BY <2>3, <3>1
  <2>8. CASE k = 5
    <3>1. x1 = x /\ y1 = y /\ z1 = z /\ w1 = t.q /\ priv1 = [priv EXCEPT !.Q = w1]
      BY <2>1, <2>2, <2>8
    <3> QED BY <2>3, <3>1
  <2> QED BY <2>4, <2>5, <2>6, <2>7, <2>8
<1> QED BY <1>1, <1>2, <1>3 DEF Filled

(* One of the copies into the key objects.                                   *)
LEMMA CopyKeeps == RsaInv /\ RsaCopy => RsaInv'
<1> SUFFICES ASSUME RsaInv, RsaCopy PROVE RsaInv'
  OBVIOUS
<1>1. /\ rsaPc = "copy" /\ rsaPc' = "copy" /\ rsaBits' = rsaBits /\ rsaTmp' = rsaTmp
      /\ rsaStatus' = rsaStatus /\ rsaStatus = "running"
      /\ rsaCopied < 6 /\ rsaCopied' = rsaCopied + 1
  BY DEF RsaCopy, RsaInv
<1>2. OneKey(rsaBits, rsaTmp) /\ Filled(rsaCopied, rsaTmp, public, private)
  BY <1>1 DEF RsaInv, RsaTmpFits
<1>3. rsaCopied \in 0 .. 5
  BY <1>1, <1>2 DEF Filled
<1>4. Filled(rsaCopied', rsaTmp', public', private')
  BY <1>1, <1>2, <1>3, OneMoreCopy DEF RsaCopy
<1>5. OneKey(rsaBits', rsaTmp')
  BY <1>1, <1>2
<1>6. KeyShapes(public', private') /\ Unmixed(public', private')
  BY <1>4, <1>5, FilledIsOnePair
<1>7. NoMixedPair' /\ RsaShapes'
  BY <1>1, <1>6 DEF NoMixedPair, Unmixed, RsaInv, RsaShapes
<1> QED BY <1>1, <1>4, <1>5, <1>7 DEF RsaInv, RsaTmpFits, KeyIsAsAsked

(* The last copy makes a whole key.                                          *)
LEMMA CompleteKeeps == RsaInv /\ RsaComplete => RsaInv'
<1> SUFFICES ASSUME RsaInv, RsaComplete PROVE RsaInv'
  OBVIOUS
<1>1. /\ rsaPc = "copy" /\ rsaPc' = "idle" /\ rsaTmp' = RsaNoTmp /\ rsaCopied = 6
      /\ SameKeys
  BY DEF RsaComplete, RsaExit, RsaReleased, SameKeys
<1>2. OneKey(rsaBits, rsaTmp) /\ Filled(6, rsaTmp, public, private)
  BY <1>1 DEF RsaInv, RsaTmpFits
<1>3. /\ public.N = rsaTmp.n /\ public.E = E /\ private.N = rsaTmp.n
      /\ private.D = rsaTmp.d /\ private.P = rsaTmp.p /\ private.Q = rsaTmp.q
  BY <1>2 DEF Filled
<1>4. KeyIsAsAsked'
  BY <1>1, <1>2, <1>3 DEF KeyIsAsAsked, SameKeys, OneKey, GoodPrime
<1>5. NoMixedPair' /\ RsaShapes'
  BY <1>1, PairKept DEF RsaInv, SameKeys, RsaShapes, RsaNoTmp
<1> QED BY <1>1, <1>4, <1>5 DEF RsaInv, RsaTmpFits

(* A failure frees the temporaries and leaves the objects as far as they     *)
(* were filled.                                                              *)
LEMMA RsaFailureKeeps == RsaInv /\ (Exhausted \/ RsaFails) => RsaInv'
<1> SUFFICES ASSUME RsaInv, Exhausted \/ RsaFails PROVE RsaInv'
  OBVIOUS
<1>1. /\ rsaPc' = "idle" /\ rsaTmp' = RsaNoTmp /\ SameKeys
      /\ rsaStatus' \in {"prime_generation_failed", "prime_error", "arithmetic",
                         "allocation_failed"}
  BY DEF Exhausted, RsaFails, RsaExit, RsaReleased, SameKeys
<1>2. NoMixedPair' /\ RsaShapes' /\ KeyIsAsAsked'
  BY <1>1, PairKept DEF RsaInv, SameKeys, RsaShapes, RsaNoTmp, KeyIsAsAsked
<1> QED BY <1>1, <1>2 DEF RsaInv, RsaTmpFits

(* Freeing both objects.                                                     *)
LEMMA FreeKeeps == RsaInv /\ RsaFree => RsaInv'
<1> SUFFICES ASSUME RsaInv, RsaFree PROVE RsaInv'
  OBVIOUS
<1>1. /\ rsaPc = "idle" /\ rsaPc' = "idle" /\ rsaTmp' = rsaTmp
      /\ public' = NoPublic /\ private' = NoPrivate /\ rsaStatus' = "none"
  BY DEF RsaFree
<1>2. NoMixedPair' /\ RsaShapes' /\ KeyIsAsAsked'
  BY <1>1 DEF NoMixedPair, RsaInv, RsaShapes, KeyShapes, KeyIsAsAsked, NoPublic, NoPrivate
<1> QED BY <1>1, <1>2 DEF RsaInv, RsaTmpFits

(* Every step of RSA.                                                        *)
LEMMA RsaStep == RsaInv /\ [RsaNext]_rsaVars => RsaInv'
<1>1. ASSUME RsaInv, UNCHANGED rsaVars
      PROVE  RsaInv'
  BY <1>1 DEF rsaVars, RsaInv, RsaShapes, RsaTmpFits, NoMixedPair, KeyIsAsAsked
<1> QED
  BY <1>1, KeygenKeeps, PrimesKeep, CheckKeeps, PromoteKeeps, CopyKeeps, CompleteKeeps,
     RsaFailureKeeps, FreeKeeps
     DEF RsaNext, RsaFinished

-----------------------------------------------------------------------------
(* ElGamal: key generation into objects that may hold a key already.         *)

\* A safe prime with its half, and what the later draws add.
Parameters(t) ==
  IsPrime(t.p) /\ IsPrime(t.q) /\ t.q \in Nat /\ t.q = (t.p - 1) \div 2
SecretDrawn(t) == t.x \in 1 .. t.q - 1 /\ t.h = PowMod(t.g, t.x, t.p)

\* The key objects after k of the five copies.
ElGamalFilled(k, t, key) ==
  key = [P |-> t.p, Q |-> IF k > 1 THEN t.q ELSE 0, G |-> IF k > 2 THEN t.g ELSE 0,
         H |-> IF k > 3 THEN t.h ELSE 0, X |-> IF k > 4 THEN t.x ELSE 0]

\* A secret belongs to the parameters beside it.
OneGeneration(key) ==
  /\ key = [P |-> key.P, Q |-> key.Q, G |-> key.G, H |-> key.H, X |-> key.X]
  /\ key.X # 0 =>
       /\ IsPrime(key.P) /\ IsPrime(key.Q) /\ key.Q = (key.P - 1) \div 2
       /\ key.G # 1 /\ key.X \in 1 .. key.Q - 1
       /\ key.H = PowMod(key.G, key.X, key.P)

ElGamalTmpFits ==
  /\ elGamalTmp = [p |-> elGamalTmp.p, q |-> elGamalTmp.q, hseed |-> elGamalTmp.hseed,
                   g |-> elGamalTmp.g, x |-> elGamalTmp.x, h |-> elGamalTmp.h]
  /\ elGamalPc = "idle" => elGamalTmp = ElGamalNoTmp
  /\ elGamalPc # "idle" => Parameters(elGamalTmp)
  /\ elGamalPc \in {"secret", "copy"} => elGamalTmp.g # 1
  /\ elGamalPc = "copy" => SecretDrawn(elGamalTmp)

ElGamalInv ==
  /\ elGamalPc \in {"idle", "generator", "secret", "copy"}
  /\ elGamalPc # "idle" => op = "keygen" /\ elGamalStatus = "running"
  /\ elGamalPc \in {"generator", "secret"} => elGamalCopied = 0
  /\ elGamalPc = "copy" =>
       /\ elGamalCopied \in 0 .. 5
       /\ elGamalCopied > 0 => ElGamalFilled(elGamalCopied, elGamalTmp, elGamalKey)
  /\ ElGamalTmpFits
  /\ OneGeneration(elGamalKey)
  /\ op = "keygen" /\ elGamalStatus = "ok" => elGamalKey.X # 0

(* The initial states of ElGamal: one empty key object.                      *)
LEMMA ElGamalStarts == ElGamalInit => ElGamalInv
BY DEF ElGamalInit, ElGamalInv, ElGamalTmpFits, OneGeneration, ElGamalNoTmp, NoKey

(* The entry of the key generation, with a safe prime or refused.            *)
LEMMA ElGamalKeygenKeeps == ElGamalInv /\ ElGamalKeygen => ElGamalInv'
<1> SUFFICES ASSUME ElGamalInv, ElGamalKeygen PROVE ElGamalInv'
  OBVIOUS
<1>1. /\ elGamalPc = "idle" /\ op' = "keygen" /\ elGamalCopied' = 0
      /\ elGamalKey' = elGamalKey
  BY DEF ElGamalKeygen
<1>2. PICK bits \in ElGamalSizes :
        IF bits < ElGamalMinBits
        THEN elGamalStatus' = "invalid_argument" /\ UNCHANGED <<elGamalPc, elGamalTmp>>
        ELSE \E p \in SafePrimes(bits) :
               /\ elGamalTmp' = [ElGamalNoTmp EXCEPT !.p = p, !.q = (p - 1) \div 2]
               /\ elGamalPc' = "generator" /\ elGamalStatus' = "running"
  BY DEF ElGamalKeygen
<1>3. CASE bits < ElGamalMinBits
  BY <1>1, <1>2, <1>3 DEF ElGamalInv, ElGamalTmpFits
<1>4. CASE ~ (bits < ElGamalMinBits)
  <2>1. PICK p \in SafePrimes(bits) :
          /\ elGamalTmp' = [ElGamalNoTmp EXCEPT !.p = p, !.q = (p - 1) \div 2]
          /\ elGamalPc' = "generator" /\ elGamalStatus' = "running"
    BY <1>2, <1>4
  <2>2. PICK q : q = (p - 1) \div 2
    OBVIOUS
  <2>3. bits \in Nat \ {0} /\ 2^(bits - 1) \in Nat /\ 2^bits \in Nat
    <3>1. bits \in Nat \ {0}
      BY <1>4, ElGamalAssumption
    <3>2. bits \in 0 .. bits /\ bits - 1 \in 0 .. bits
      BY <3>1
    <3> QED BY <3>1, <3>2, ElGamalAssumption
  <2>4. p \in Nat /\ p > 1 /\ IsPrime(p) /\ IsPrime(q)
    <3>1. p \in PrimesOfBits(bits) /\ IsPrime(q)
      BY <2>2 DEF SafePrimes
    <3>2. GoodPrime(p)
      BY <2>3, <3>1, DrawnPrime
    <3> QED BY <3>1, <3>2 DEF GoodPrime
  <2>5. q \in Nat
    BY <2>2, <2>4
  <2>6. elGamalTmp' = [p |-> p, q |-> q, hseed |-> 0, g |-> 0, x |-> 0, h |-> 0]
    BY <2>1, <2>2 DEF ElGamalNoTmp
  <2>7. Parameters(elGamalTmp')
    BY <2>2, <2>4, <2>5, <2>6 DEF Parameters
  <2> QED BY <1>1, <2>1, <2>6, <2>7 DEF ElGamalInv, ElGamalTmpFits
<1> QED BY <1>3, <1>4

(* The draw of a generator, repeated until it is usable.                     *)
LEMMA GeneratorKeeps == ElGamalInv /\ FindGenerator => ElGamalInv'
<1> SUFFICES ASSUME ElGamalInv, FindGenerator PROVE ElGamalInv'
  OBVIOUS
<1>1. /\ elGamalPc = "generator" /\ op' = op /\ elGamalStatus' = elGamalStatus
      /\ elGamalKey' = elGamalKey /\ elGamalCopied' = elGamalCopied
  BY DEF FindGenerator
<1>2. PICK r, g :
        /\ elGamalTmp' = [elGamalTmp EXCEPT !.hseed = r + 2, !.g = g]
        /\ IF Usable(g) THEN elGamalPc' = "secret" ELSE elGamalPc' = elGamalPc
  BY DEF FindGenerator
<1>3. PICK t : t = elGamalTmp
  OBVIOUS
<1>4. /\ t = [p |-> t.p, q |-> t.q, hseed |-> t.hseed, g |-> t.g, x |-> t.x, h |-> t.h]
      /\ Parameters(t)
  BY <1>1, <1>3 DEF ElGamalInv, ElGamalTmpFits
<1>5. elGamalTmp' = [p |-> t.p, q |-> t.q, hseed |-> r + 2, g |-> g, x |-> t.x, h |-> t.h]
  <2>1. PICK u : u = r + 2
    OBVIOUS
  <2> QED BY <1>2, <1>3, <1>4, <2>1
<1>6. Parameters(elGamalTmp')
  BY <1>4, <1>5 DEF Parameters
<1>7. elGamalPc' \in {"generator", "secret"} /\ (elGamalPc' = "secret" => g # 1)
  BY <1>1, <1>2 DEF Usable
<1> QED BY <1>1, <1>5, <1>6, <1>7 DEF ElGamalInv, ElGamalTmpFits

(* The draw of the secret exponent, repeated while it is zero.               *)
LEMMA SecretKeeps == ElGamalInv /\ DrawSecret => ElGamalInv'
<1> SUFFICES ASSUME ElGamalInv, DrawSecret PROVE ElGamalInv'
  OBVIOUS
<1>1. /\ elGamalPc = "secret" /\ op' = op /\ elGamalStatus' = elGamalStatus
      /\ elGamalKey' = elGamalKey /\ elGamalCopied' = elGamalCopied /\ elGamalCopied = 0
  BY DEF DrawSecret, ElGamalInv
<1>2. PICK x \in 0 .. elGamalTmp.q - 1 :
       IF Nonzero(x)
       THEN /\ elGamalTmp' = [elGamalTmp EXCEPT !.x = x,
                                 !.h = PowMod(elGamalTmp.g, x, elGamalTmp.p)]
            /\ elGamalPc' = "copy"
       ELSE UNCHANGED <<elGamalTmp, elGamalPc>>
  BY DEF DrawSecret
<1>3. CASE x = 0
  BY <1>1, <1>2, <1>3 DEF Nonzero, ElGamalInv, ElGamalTmpFits
<1>4. CASE x # 0
  <2>1. PICK t : t = elGamalTmp
    OBVIOUS
  <2>2. /\ t = [p |-> t.p, q |-> t.q, hseed |-> t.hseed, g |-> t.g, x |-> t.x, h |-> t.h]
        /\ Parameters(t) /\ t.g # 1
    BY <1>1, <2>1 DEF ElGamalInv, ElGamalTmpFits
  <2>3. PICK h : h = PowMod(t.g, x, t.p)
    OBVIOUS
  <2>4. elGamalTmp' = [t EXCEPT !.x = x, !.h = h] /\ elGamalPc' = "copy"
    BY <1>2, <1>4, <2>1, <2>3 DEF Nonzero
  <2>5. elGamalTmp' = [p |-> t.p, q |-> t.q, hseed |-> t.hseed, g |-> t.g, x |-> x, h |-> h]
    BY <2>2, <2>4
  <2>6. x \in 1 .. t.q - 1
    BY <1>2, <1>4, <2>1, <2>2 DEF Parameters
  <2>7. Parameters(elGamalTmp') /\ SecretDrawn(elGamalTmp') /\ elGamalTmp'.g # 1
    BY <2>2, <2>3, <2>5, <2>6 DEF Parameters, SecretDrawn
  <2>8. ElGamalTmpFits'
    BY <2>4, <2>5, <2>7 DEF ElGamalTmpFits
  <2>9. OneGeneration(elGamalKey') /\ op = "keygen" /\ elGamalStatus = "running"
    BY <1>1 DEF ElGamalInv
  <2> QED BY <1>1, <2>4, <2>8, <2>9 DEF ElGamalInv
<1> QED BY <1>3, <1>4

(* The first copy empties the objects, so that nothing of an older key is    *)
(* left beside the new one.                                                  *)
LEMMA OneMoreOfElGamal ==
    ASSUME NEW k \in 0 .. 4, NEW t, NEW key, NEW old, NEW new,
           k > 0 => ElGamalFilled(k, t, key),
           old = IF k = 0 THEN NoKey ELSE key,
           new = CASE k = 0 -> [old EXCEPT !.P = t.p]
                   [] k = 1 -> [old EXCEPT !.Q = t.q]
                   [] k = 2 -> [old EXCEPT !.G = t.g]
                   [] k = 3 -> [old EXCEPT !.H = t.h]
                   [] k = 4 -> [old EXCEPT !.X = t.x]
    PROVE  ElGamalFilled(k + 1, t, new)
<1>1. PICK x, y, z, w :
         /\ x = IF k > 1 THEN t.q ELSE 0
         /\ y = IF k > 2 THEN t.g ELSE 0
         /\ z = IF k > 3 THEN t.h ELSE 0
         /\ w = IF k > 4 THEN t.x ELSE 0
  OBVIOUS
<1>2. PICK x1, y1, z1, w1 :
         /\ x1 = IF k + 1 > 1 THEN t.q ELSE 0
         /\ y1 = IF k + 1 > 2 THEN t.g ELSE 0
         /\ z1 = IF k + 1 > 3 THEN t.h ELSE 0
         /\ w1 = IF k + 1 > 4 THEN t.x ELSE 0
  OBVIOUS
<1>3. k > 0 => old = [P |-> t.p, Q |-> x, G |-> y, H |-> z, X |-> w]
  BY <1>1 DEF ElGamalFilled
<1> SUFFICES new = [P |-> t.p, Q |-> x1, G |-> y1, H |-> z1, X |-> w1]
  BY <1>2 DEF ElGamalFilled
<1>4. CASE k = 0
  <2>1. x1 = 0 /\ y1 = 0 /\ z1 = 0 /\ w1 = 0 /\ new = [old EXCEPT !.P = t.p] /\ old = NoKey
    BY <1>2, <1>4
  <2> QED BY <2>1 DEF NoKey
<1>5. CASE k = 1
  <2>1. x1 = t.q /\ y1 = y /\ z1 = z /\ w1 = w /\ new = [old EXCEPT !.Q = x1]
    BY <1>1, <1>2, <1>5
  <2> QED BY <1>3, <1>5, <2>1
<1>6. CASE k = 2
  <2>1. x1 = x /\ y1 = t.g /\ z1 = z /\ w1 = w /\ new = [old EXCEPT !.G = y1]
    BY <1>1, <1>2, <1>6
  <2> QED BY <1>3, <1>6, <2>1
<1>7. CASE k = 3
  <2>1. x1 = x /\ y1 = y /\ z1 = t.h /\ w1 = w /\ new = [old EXCEPT !.H = z1]
    BY <1>1, <1>2, <1>7
  <2> QED BY <1>3, <1>7, <2>1
<1>8. CASE k = 4
  <2>1. x1 = x /\ y1 = y /\ z1 = z /\ w1 = t.x /\ new = [old EXCEPT !.X = w1]
    BY <1>1, <1>2, <1>8
  <2> QED BY <1>3, <1>8, <2>1
<1> QED BY <1>4, <1>5, <1>6, <1>7, <1>8

(* The objects are of one generation at every copy.                          *)
LEMMA FilledIsOneGeneration ==
    ASSUME NEW k \in 1 .. 5, NEW t, NEW key, ElGamalFilled(k, t, key),
           Parameters(t), SecretDrawn(t), t.g # 1
    PROVE  OneGeneration(key) /\ (k = 5 => key.X # 0)
<1>1. PICK x, y, z, w :
         /\ x = IF k > 1 THEN t.q ELSE 0
         /\ y = IF k > 2 THEN t.g ELSE 0
         /\ z = IF k > 3 THEN t.h ELSE 0
         /\ w = IF k > 4 THEN t.x ELSE 0
  OBVIOUS
<1>2. key = [P |-> t.p, Q |-> x, G |-> y, H |-> z, X |-> w]
  BY <1>1 DEF ElGamalFilled
<1>3. key.P = t.p /\ key.Q = x /\ key.G = y /\ key.H = z /\ key.X = w
  BY <1>2
<1>4. CASE k = 5
  <2>1. x = t.q /\ y = t.g /\ z = t.h /\ w = t.x
    BY <1>1, <1>4
  <2>2. t.x # 0
    BY DEF Parameters, SecretDrawn
  <2> QED BY <1>2, <1>3, <2>1, <2>2 DEF OneGeneration, Parameters, SecretDrawn
<1>5. CASE k # 5
  <2>1. w = 0
    BY <1>1, <1>5
  <2> QED BY <1>2, <1>3, <1>5, <2>1 DEF OneGeneration
<1> QED BY <1>4, <1>5

(* One of the five copies into the key object.                               *)
LEMMA ElGamalCopyKeeps == ElGamalInv /\ ElGamalCopy => ElGamalInv'
<1> SUFFICES ASSUME ElGamalInv, ElGamalCopy PROVE ElGamalInv'
  OBVIOUS
<1>1. /\ elGamalPc = "copy" /\ elGamalPc' = "copy" /\ op' = op
      /\ elGamalStatus' = elGamalStatus /\ elGamalTmp' = elGamalTmp
      /\ elGamalCopied < 5 /\ elGamalCopied' = elGamalCopied + 1
  BY DEF ElGamalCopy
<1>2. /\ elGamalCopied \in 0 .. 5
      /\ elGamalCopied > 0 => ElGamalFilled(elGamalCopied, elGamalTmp, elGamalKey)
      /\ Parameters(elGamalTmp) /\ SecretDrawn(elGamalTmp) /\ elGamalTmp.g # 1
      /\ op = "keygen" /\ elGamalStatus = "running"
  BY <1>1 DEF ElGamalInv, ElGamalTmpFits
<1>3. elGamalCopied \in 0 .. 4 /\ elGamalCopied' \in 1 .. 5
  BY <1>1, <1>2
<1>4. PICK old : old = IF elGamalCopied = 0 THEN NoKey ELSE elGamalKey
  OBVIOUS
<1>5. elGamalKey' = CASE elGamalCopied = 0 -> [old EXCEPT !.P = elGamalTmp.p]
                      [] elGamalCopied = 1 -> [old EXCEPT !.Q = elGamalTmp.q]
                      [] elGamalCopied = 2 -> [old EXCEPT !.G = elGamalTmp.g]
                      [] elGamalCopied = 3 -> [old EXCEPT !.H = elGamalTmp.h]
                      [] elGamalCopied = 4 -> [old EXCEPT !.X = elGamalTmp.x]
  BY <1>4 DEF ElGamalCopy, ElGamalEmptied
<1>6. ElGamalFilled(elGamalCopied', elGamalTmp', elGamalKey')
  BY <1>1, <1>2, <1>3, <1>4, <1>5, OneMoreOfElGamal
<1>7. OneGeneration(elGamalKey')
  BY <1>1, <1>2, <1>3, <1>6, FilledIsOneGeneration
<1> QED BY <1>1, <1>2, <1>3, <1>6, <1>7 DEF ElGamalInv, ElGamalTmpFits

(* The end of a key generation, successful or failed.                        *)
LEMMA ElGamalEndKeeps == ElGamalInv /\ (ElGamalComplete \/ ElGamalFails) => ElGamalInv'
<1> SUFFICES ASSUME ElGamalInv, ElGamalComplete \/ ElGamalFails PROVE ElGamalInv'
  OBVIOUS
<1>1. elGamalPc # "idle" /\ elGamalPc' = "idle" /\ elGamalTmp' = ElGamalNoTmp /\ op' = op
  BY DEF ElGamalComplete, ElGamalFails, ElGamalExit, ElGamalReleased
<1>2. ElGamalTmpFits'
  BY <1>1 DEF ElGamalTmpFits, ElGamalNoTmp
<1>3. CASE ElGamalComplete
  <2>1. elGamalKey' = elGamalKey /\ elGamalPc = "copy" /\ elGamalCopied = 5
    BY <1>3 DEF ElGamalComplete
  <2>2. ElGamalFilled(5, elGamalTmp, elGamalKey)
    BY <2>1 DEF ElGamalInv
  <2>3. Parameters(elGamalTmp) /\ SecretDrawn(elGamalTmp) /\ elGamalTmp.g # 1
    BY <2>1 DEF ElGamalInv, ElGamalTmpFits
  <2>4. OneGeneration(elGamalKey) /\ elGamalKey.X # 0
    BY <2>2, <2>3, FilledIsOneGeneration
  <2> QED BY <1>1, <1>2, <2>1, <2>4 DEF ElGamalInv
<1>4. CASE ElGamalFails
  <2>1. elGamalStatus' = "failed" /\ elGamalKey' \in {NoKey, elGamalKey}
    BY <1>4 DEF ElGamalFails, ElGamalExit, ElGamalEmptied
  <2>2. OneGeneration(NoKey)
    BY DEF OneGeneration, NoKey
  <2>3. OneGeneration(elGamalKey')
    BY <2>1, <2>2 DEF ElGamalInv
  <2> QED BY <1>1, <1>2, <2>1, <2>3 DEF ElGamalInv
<1> QED BY <1>3, <1>4

(* Encryption and decryption leave the key object alone.                     *)
LEMMA RawKeeps == ElGamalInv /\ (ElGamalEncrypt \/ ElGamalDecrypt) => ElGamalInv'
<1> SUFFICES ASSUME ElGamalInv, ElGamalEncrypt \/ ElGamalDecrypt PROVE ElGamalInv'
  OBVIOUS
<1>1. /\ elGamalPc = "idle" /\ elGamalPc' = "idle" /\ elGamalTmp' = elGamalTmp
      /\ elGamalKey' = elGamalKey /\ op' \in {"encrypt", "decrypt"}
  BY DEF ElGamalEncrypt, ElGamalDecrypt, Ready
<1> QED BY <1>1 DEF ElGamalInv, ElGamalTmpFits

(* Every step of ElGamal.                                                    *)
LEMMA ElGamalStep == ElGamalInv /\ [ElGamalNext]_elGamalVars => ElGamalInv'
<1>1. ASSUME ElGamalInv, UNCHANGED elGamalVars
      PROVE  ElGamalInv'
  BY <1>1 DEF elGamalVars, ElGamalInv, ElGamalTmpFits
<1> QED
  BY <1>1, ElGamalKeygenKeeps, GeneratorKeeps, SecretKeeps, ElGamalCopyKeeps,
     ElGamalEndKeeps, RawKeeps
     DEF ElGamalNext

-----------------------------------------------------------------------------
(* The suite: one call at a time, the variables of the others idle.          *)
NumbersInv ==
  /\ running = "search"  => SearchInv
  /\ running = "rsa"     => RsaInv
  /\ running = "elgamal" => ElGamalInv

(* Every state of a search and of a key generation has what its next step    *)
(* relies on: prime.c, rsa.c and elgamal.c, for all sizes and failures.      *)
THEOREM Invariant == Spec => []NumbersInv
<1>1. Init => NumbersInv
  BY SearchStarts, RsaStarts, ElGamalStarts DEF Init, NumbersInv
<1>2. NumbersInv /\ [Next]_vars => NumbersInv'
  <2> SUFFICES ASSUME NumbersInv, [Next]_vars PROVE NumbersInv'
    OBVIOUS
  <2>1. running' = running
    BY DEF Next, vars
  <2>2. CASE running = "search"
    <3>1. [SearchNext]_searchVars
      BY <2>2 DEF Next, vars
    <3> QED BY <2>1, <2>2, <3>1, SearchStep DEF NumbersInv
  <2>3. CASE running = "rsa"
    <3>1. [RsaNext]_rsaVars
      BY <2>3 DEF Next, vars
    <3> QED BY <2>1, <2>3, <3>1, RsaStep DEF NumbersInv
  <2>4. CASE running = "elgamal"
    <3>1. [ElGamalNext]_elGamalVars
      BY <2>4 DEF Next, vars
    <3> QED BY <2>1, <2>4, <3>1, ElGamalStep DEF NumbersInv
  <2>5. CASE running \notin {"search", "rsa", "elgamal"}
    BY <2>1, <2>5 DEF NumbersInv
  <2> QED BY <2>2, <2>3, <2>4, <2>5
<1> QED BY <1>1, <1>2, PTL DEF Spec

(* Whatever step fails and however often keys are generated into the same    *)
(* objects: crypto_prime_generate_internal and its twin for safe primes hand *)
(* over what was asked for, the objects of RSA and ElGamal never hold parts  *)
(* of two generations, a reported RSA key has e d = 1 modulo phi, and every  *)
(* temporary is freed.                                                       *)
THEOREM KeysWhole == Spec => []KeysAreWhole
<1>1. SearchInv => SearchTemporariesReturned /\ OutputsAreWanted
  BY DEF SearchInv, HeapFits, SearchTemporariesReturned
<1>2. RsaInv => RsaTemporariesReturned /\ NoMixedPair /\ KeyIsAsAsked
  BY DEF RsaInv, RsaTmpFits, RsaTemporariesReturned
<1>3. ElGamalInv => ElGamalTemporariesReturned /\ SecretFitsParameters
  BY DEF ElGamalInv, ElGamalTmpFits, OneGeneration, ElGamalTemporariesReturned,
         SecretFitsParameters
<1>4. NumbersInv => KeysAreWhole
  BY <1>1, <1>2, <1>3 DEF NumbersInv, KeysAreWhole
<1> QED BY <1>4, Invariant, PTL

-----------------------------------------------------------------------------
(* The limbs, from what the modules of their proofs show of each call.       *)

LimbsInv ==
  /\ BigInv
  /\ running = "product"  => ProductInv
  /\ running = "division" => DivInv

(* Registers, with zeros above their length, the operands of a product and   *)
(* the rest that a long division has left stay what the next call of         *)
(* bignum.c, or the next digit, relies on.                                   *)
THEOREM LimbsInvariant == Spec => []LimbsInv
<1>1. Init => LimbsInv
  BY BignumStarts, ProductStarts, DivisionStarts DEF Init, LimbsInv
<1>2. LimbsInv /\ [Next]_vars => LimbsInv'
  <2> SUFFICES ASSUME LimbsInv, [Next]_vars PROVE LimbsInv'
    OBVIOUS
  <2>1. running' = running
    BY DEF Next, vars
  <2>2. [BignumNext]_bignumVars
    BY DEF Next, vars
  <2>3. BigInv'
    BY <2>2, BignumSteps DEF LimbsInv
  <2>4. running = "product" => ProductInv'
    <3>1. running = "product" => [ProductNext]_productVars
      BY DEF Next, vars
    <3> QED BY <3>1, ProductStep DEF LimbsInv
  <2>5. running = "division" => DivInv'
    <3>1. running = "division" => [DivisionNext]_divisionVars
      BY DEF Next, vars
    <3> QED BY <3>1, DivisionStep DEF LimbsInv
  <2> QED BY <2>1, <2>3, <2>4, <2>5 DEF LimbsInv
<1> QED BY <1>1, <1>2, PTL DEF Spec

(* No carry is lost by any product, no register keeps a zero limb on top, and *)
(* none a limb of an earlier value above its length, whichever calls of       *)
(* bignum.c are made in whichever order and whichever allocations fail; and   *)
(* the digits of a long division need one add-back at most and leave the      *)
(* exact remainder, for every width of a limb and every length.               *)
THEOREM LimbsExact == Spec => []LimbsAreExact
<1>1. LimbsInv => LimbsAreExact
  BY RegistersAreExact, DivisionHolds, DivisionRemainderHolds
     DEF LimbsInv, LimbsAreExact, ProductInv
<1> QED BY <1>1, LimbsInvariant, PTL

(* The calls on registers implement BignumSpec: each computes the integer its *)
(* name says from the values before it, or fails and changes none.            *)
THEOREM BignumImplements == Spec => ImplementsBignumSpec
<1>1. Init => Abstract!Init
  BY BignumStarts DEF Init
<1>2. LimbsInv /\ [Next]_vars => [Abstract!Next]_<<value, call>>
  <2> SUFFICES ASSUME LimbsInv, [Next]_vars PROVE [Abstract!Next]_<<value, call>>
    OBVIOUS
  <2>1. [BignumNext]_bignumVars
    BY DEF Next, vars
  <2> QED BY <2>1, BignumSteps DEF LimbsInv
<1> QED BY <1>1, <1>2, LimbsInvariant, PTL DEF Spec, ImplementsBignumSpec, Abstract!Spec

=============================================================================
