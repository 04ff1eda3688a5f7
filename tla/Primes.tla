------------------------------- MODULE Primes -------------------------------
(*****************************************************************************)
(* Primality testing and prime generation (src/src/Util/Bignum/prime.c): the *)
(* Miller-Rabin test and the search for primes and safe primes with its      *)
(* bounded number of attempts.                                               *)
(*****************************************************************************)
EXTENDS Integers, Sequences, FiniteSetsExt, SequencesExt, FiniteSets

-----------------------------------------------------------------------------
(*****************************************************************************)
(* prime_is_probable_checked of src/src/Util/Prime: shortcuts, division by   *)
(* small primes, then rounds of Miller-Rabin with random bases.  Any draw or *)
(* allocation may fail, which the caller of the public test sees as          *)
(* "not prime" (crypto_prime_is_probable_internal).                          *)
(*****************************************************************************)
CONSTANTS
  Values,        \* the numbers tested
  TestSmallPrimes,   \* the odd primes divided by: 3 to 997 in the code
  Rounds         \* rounds asked for; 0 asks for DefaultRounds (32)
CONSTANT DefaultRounds

VARIABLES
  testValue,
  rounds,
  testD, testS,      \* value - 1 = 2^s d with d odd
  bases,     \* the bases drawn so far, the last one being tested
  testX,         \* the last base raised to d and squared j - 1 times
  testJ,
  verdict,   \* "open", "prime", "composite", or "error"
  testPc
testVars == <<testValue, rounds, testD, testS, bases, testX, testJ, verdict, testPc>>

TestInit ==
  /\ testValue \in Values /\ rounds \in Rounds
  /\ testD = 0 /\ testS = 0 /\ bases = <<>> /\ testX = 0 /\ testJ = 0
  /\ verdict = "open" /\ testPc = "called"

Decide(v) == verdict' = v /\ testPc' = "done" /\ UNCHANGED <<testValue, rounds, testD,
                                                             testS, bases, testX, testJ>>

\* prime_small_division: TRUE for the small primes and for what none divides.
TestSmallDivision ==
  \/ testValue = 2
  \/ /\ testValue % 2 = 1
     /\ testValue \in TestSmallPrimes \/ \A p \in TestSmallPrimes : testValue % p # 0

Shortcut ==
  /\ testPc = "called"
  /\ \/ testValue = 0 /\ Decide("error")
     \/ testValue \in {2, 3} /\ Decide("prime")
     \/ testValue = 1 /\ Decide("composite")
     \/ testValue > 3 /\ ~TestSmallDivision /\ Decide("composite")

\* value - 1 halved until odd.
Decompose ==
  /\ testPc = "called" /\ testValue > 3 /\ TestSmallDivision
  /\ testS' = Max({k \in 0 .. 16 : (testValue - 1) % 2^k = 0})
  /\ testD' = (testValue - 1) \div 2^testS'
  /\ rounds' = IF rounds = 0 THEN DefaultRounds ELSE rounds
  /\ testPc' = "draw"
  /\ UNCHANGED <<testValue, bases, testX, testJ, verdict>>

Power(a, k) ==
  LET times(y, i) == (y * a) % testValue
  IN FoldLeft(times, 1, [i \in 1 .. k |-> i])

\* The bases 2 .. value - 2: a number below value - 3, and two more.
TestDraw ==
  /\ testPc = "draw" /\ Len(bases) < rounds
  /\ \E a \in 2 .. testValue - 2 :
       /\ bases' = Append(bases, a)
       /\ testX' = Power(a, testD)
       /\ testPc' = IF testX' \in {1, testValue - 1} THEN "draw" ELSE "square"
  /\ testJ' = 1
  /\ UNCHANGED <<testValue, rounds, testD, testS, verdict>>

\* A base passes when one of its s - 1 squares is value - 1; a square that is
\* one, or no such square, is a proof that the value is composite.
FaultyMoreSquares == testJ < testS - 1
MoreSquares == testJ < testS
Passes(y) == y = testValue - 1
SquareAgain ==
  /\ testPc = "square" /\ MoreSquares
  /\ LET y == (testX * testX) % testValue IN
     /\ testX' = y
     /\ IF Passes(y) THEN testPc' = "draw" /\ verdict' = verdict
        ELSE IF y = 1 THEN testPc' = "done" /\ verdict' = "composite"
        ELSE testPc' = "square" /\ verdict' = verdict
  /\ testJ' = testJ + 1
  /\ UNCHANGED <<testValue, rounds, testD, testS, bases>>

\* The loop ends without a square that is value - 1.
Witness == testPc = "square" /\ ~MoreSquares /\ Decide("composite")
AllPassed == testPc = "draw" /\ Len(bases) = rounds /\ Decide("prime")

\* A draw or an allocation fails.
TestFails == testPc \in {"draw", "square"} /\ verdict = "open" /\ Decide("error")

TestFinished == testPc = "done" /\ UNCHANGED testVars
TestNext == \/ Shortcut \/ Decompose \/ TestDraw \/ SquareAgain \/ Witness
            \/ AllPassed \/ TestFails \/ TestFinished
TestSpec == TestInit /\ [][TestNext]_testVars

(* ------------------------------- properties ----------------------------- *)

TestIsPrime(v) == v > 1 /\ \A k \in 2 .. v - 1 : v % k # 0

\* The definition of a base that does not show value composite.
StrongLiar(a) ==
  \/ Power(a, testD) = 1
  \/ \E k \in 0 .. testS - 1 : Power(a, testD * 2^k) = testValue - 1

(* No base ever makes the test call a prime composite: key generation would *)
(* otherwise search for ever and the public test would refuse good keys.    *)
PrimesPass == TestIsPrime(testValue) => verdict # "composite"

(* A composite number passes only when every one of all the rounds drew a  *)
(* base that does not show it composite: no round is skipped or cut short. *)
CompositesNeedLiars ==
  verdict = "prime" /\ ~TestIsPrime(testValue) =>
    /\ Len(bases) = rounds /\ rounds > 0
    /\ \A k \in DOMAIN bases : StrongLiar(bases[k])

(* Only a base that shows the number composite makes the verdict composite.    *)
WitnessesAreReal ==
  verdict = "composite" /\ bases # <<>> => ~StrongLiar(Last(bases))


-----------------------------------------------------------------------------
(****************************************************************************)
(* The searches of src/src/Util/Prime: crypto_prime_generate_internal draws *)
(* candidates with their top and low bits set until one passes, and         *)
(* crypto_prime_generate_safe_internal draws such a q until 2 q + 1 passes  *)
(* too.  Candidates live in heap numbers that are handed to the caller or   *)
(* freed on every way out; a draw, an allocation or a test may fail.        *)
(* A composite that no small prime divides may pass a test; the machine     *)
(* above says when.                                                         *)
(****************************************************************************)
CONSTANTS
  Bits,          \* sizes asked for
  SearchSmallPrimes,
  SearchMaxTries       \* 1000000 in the code, for each of the two loops

\* Sizes and their powers of two are numbers, and the table holds odd primes.
ASSUME SearchAssumption ==
  /\ Bits \subseteq Nat /\ SearchMaxTries \in Nat
  /\ \A b \in Bits : \A k \in 0 .. b : 2^k \in Nat \ {0}
  /\ \A p \in SearchSmallPrimes : p \in Nat /\ p > 2

VARIABLES
  kind,      \* "prime" or "safe"
  searchBits,      \* size of the candidate
  heap,      \* temporaries: candidate (q of a safe prime), p, twice; 0 when free
  out,       \* the caller's numbers
  searchTries, safeTries,
  searchPc, searchStatus
searchVars == <<kind, searchBits, heap, out, searchTries, safeTries, searchPc, searchStatus>>

SearchNone == [candidate |-> 0, p |-> 0, twice |-> 0]

SearchInit ==
  /\ kind \in {"prime", "safe"} /\ searchBits \in Bits
  /\ heap = SearchNone
  /\ out = [p |-> 0, q |-> 0]
  /\ searchTries = 0 /\ safeTries = 0 /\ searchPc = "draw" /\ searchStatus = "running"

\* The size of the candidates: one bit less for the q of a safe prime.
CandidateBits == IF kind = "safe" THEN searchBits - 1 ELSE searchBits

SearchSmallDivision(v) ==
  v % 2 = 1 /\ (v \in SearchSmallPrimes \/ \A p \in SearchSmallPrimes : v % p # 0)
SearchIsPrime(v) == v > 1 /\ \A k \in 2 .. v - 1 : v % k # 0
\* What prime_is_probable_checked may say of v.
Verdicts(v) == IF SearchIsPrime(v) \/ v \in {2, 3} THEN {TRUE}
               ELSE IF SearchSmallDivision(v) THEN BOOLEAN ELSE {FALSE}

SearchReturn(s, h) == searchStatus' = s /\ searchPc' = "done" /\ heap' = h
Retry == searchPc' = "draw" /\ searchStatus' = searchStatus

SearchRefuse ==
  /\ searchPc = "draw" /\ (IF kind = "safe" THEN searchBits < 3 ELSE searchBits < 2)
  /\ SearchReturn("refused", heap)
  /\ UNCHANGED <<kind, searchBits, out, searchTries, safeTries>>

Tried == searchTries + 1
SearchDraw ==
  /\ searchPc = "draw" /\ CandidateBits >= 2 /\ searchTries < SearchMaxTries
  /\ \E v \in 2^(CandidateBits - 1) .. 2^CandidateBits - 1 :
       /\ v % 2 = 1
       /\ heap' = [heap EXCEPT !.candidate = v]
  /\ searchTries' = Tried
  /\ searchPc' = "test" /\ UNCHANGED <<kind, searchBits, out, safeTries, searchStatus>>

\* A rejected candidate is freed before the next is drawn.
Freed == [heap EXCEPT !.candidate = 0]
Test ==
  /\ searchPc = "test"
  /\ \E probable \in IF SearchSmallDivision(heap.candidate) THEN Verdicts(heap.candidate) ELSE {FALSE} :
       IF ~probable
       THEN Retry /\ heap' = Freed /\ out' = out
       ELSE IF kind = "prime"
       THEN /\ out' = [out EXCEPT !.p = heap.candidate]
            /\ SearchReturn("ok", [heap EXCEPT !.candidate = 0])
       ELSE searchPc' = "double" /\ UNCHANGED <<heap, out, searchStatus>>
  /\ UNCHANGED <<kind, searchBits, searchTries, safeTries>>

\* p = 2 q + 1 is made in two numbers, of which one is freed at once.
SearchDouble ==
  /\ searchPc = "double"
  /\ heap' = [heap EXCEPT !.p = 2 * heap.candidate + 1]
  /\ searchPc' = "testp"
  /\ UNCHANGED <<kind, searchBits, out, searchTries, safeTries, searchStatus>>

\* Of p's size only if no carry made it longer; a new q starts a new search.
Wanted(v) == 2^(searchBits - 1) <= v /\ v < 2^searchBits
TestSafe ==
  /\ searchPc = "testp"
  /\ safeTries < SearchMaxTries
  /\ \E probable \in IF Wanted(heap.p) THEN Verdicts(heap.p) ELSE {FALSE} :
       IF probable
       THEN /\ out' = [p |-> heap.p, q |-> heap.candidate]
            /\ SearchReturn("ok", SearchNone)
       ELSE Retry /\ heap' = SearchNone /\ out' = out
  /\ safeTries' = safeTries + 1
  /\ searchTries' = 0
  /\ UNCHANGED <<kind, searchBits>>

\* Both loops give up; a failing draw, test or allocation frees what there is.
GiveUp ==
  /\ searchPc = "draw" /\ (searchTries = SearchMaxTries \/ safeTries = SearchMaxTries)
  /\ SearchReturn("exhausted", SearchNone)
  /\ UNCHANGED <<kind, searchBits, out, searchTries, safeTries>>

SearchFails ==
  /\ searchPc \in {"draw", "test", "double", "testp"}
  /\ SearchReturn("error", SearchNone)
  /\ UNCHANGED <<kind, searchBits, out, searchTries, safeTries>>

SearchFinished == searchPc = "done" /\ UNCHANGED searchVars
SearchNext == \/ SearchRefuse \/ SearchDraw \/ Test \/ SearchDouble \/ TestSafe \/ GiveUp \/ SearchFails \/ SearchFinished
SearchSpec == SearchInit /\ [][SearchNext]_searchVars /\ WF_searchVars(SearchNext)

(* ------------------------------- properties ----------------------------- *)

(* Whatever way the search ends, every temporary was freed or handed over, and *)
(* a candidate is never still allocated when the next one is drawn (its secret *)
(* limbs would be lost without being zeroized).                                *)
SearchTemporariesReturned ==
  searchPc \in {"draw", "done"} => heap = SearchNone

(* What is handed over has exactly the bits asked for (the top bit of the  *)
(* candidate and the length test of the safe prime), is odd, and the safe  *)
(* prime is twice the prime handed over with it, plus one; a failed search *)
(* leaves the caller's numbers as they were.                               *)
OutputsAreWanted ==
  IF searchStatus = "ok"
  THEN /\ out.p \in 2^(searchBits - 1) .. 2^searchBits - 1 /\ out.p % 2 = 1
       /\ SearchSmallDivision(out.p)
       /\ kind = "safe" => out.p = 2 * out.q + 1 /\ SearchSmallDivision(out.q)
  ELSE out = [p |-> 0, q |-> 0]

(* Every search ends: both loops are bounded.                                   *)
SearchEnds == <>(searchPc = "done")

=============================================================================
