-------------------------- MODULE PostQuantum_proofs --------------------------
(*****************************************************************************)
(* The post-quantum schemes, for every value of the constants.               *)
(*                                                                           *)
(* The first part is about the calls of the signature schemes: what a caller *)
(* finds after any way out, what the backends may rely on, and that the      *)
(* string that is signed can be read back.                                   *)
(*                                                                           *)
(* The second part is key encapsulation, for every set of threads, parameter *)
(* sets and seeds.  Three invariants, each on top of the ones before: a      *)
(* thread's ML-KEM parameter set is its caller's (IInv); every call, buffer  *)
(* and result is right (CallsRight), from which the atomic KEM of KemSpec    *)
(* follows; and the random sources stay apart (SourcesRight).                *)
(*****************************************************************************)
EXTENDS Signatures, Kem, ProofLemmas

-----------------------------------------------------------------------------
(* The calls.  The inductive invariant: until a backend runs nothing of the  *)
(* caller is touched, a call goes on only when nothing is to be refused, and *)
(* the buffers it declares are clean when it ends.                           *)
Going == {"verify", "validate", "random", "backend", "running"}

\* Key generation has no context.
Contextless == req.call = "keygen" => ~req.longContext

CallsTypeOK ==
  /\ req \in Requests /\ Contextless /\ prefix \in BOOLEAN /\ callsDrawn \in Nat
  /\ callsPc \in {"check", "done"} \cup Going

Untouched == callsPc \notin {"running", "done"} => callsOutput = "old"

NothingToRefuse == callsPc \in Going => CallRefusal = "none"

OwnPath ==
  /\ callsPc \in {"check", "verify", "validate"} => callsDrawn = 0
  /\ callsPc \in {"check", "validate"} => ~prefix
  /\ callsPc = "verify" => req.call = "verify"
  /\ callsPc \in {"validate", "random", "backend", "running"} => req.call # "verify"

CallsInv ==
  CallsTypeOK /\ Untouched /\ NothingToRefuse /\ OwnPath /\ NothingHalfDone /\ OwnBuffersAreClean

(* What the checks before a backend let through.                             *)
LEMMA PassedChecks ==
  ASSUME CallsTypeOK, CallRefusal = "none"
  PROVE  /\ ~Null /\ req.known /\ ~Overlaps
         /\ req.call = "keygen" => req.key # "short" /\ req.signature # "short"
         /\ req.call # "keygen" => ~req.longContext /\ req.key = "exact"
         /\ req.call = "sign" => req.signature # "short"
         /\ req.call = "verify" => req.signature = "exact"
<1>1. req.known \in BOOLEAN
  BY DEF CallsTypeOK, Requests
<1> QED BY <1>1 DEF CallRefusal

(* A reason to refuse is not success.                                        *)
LEMMA RefusalIsNoSuccess ==
  /\ CallRefusal \in {"argument", "algorithm", "small", "key", "signature", "none"}
  /\ CallRefusal # "success"
BY DEF CallRefusal

(* The first checks.                                                         *)
LEMMA CheckKeeps == CallsInv /\ Check => CallsInv'
<1> SUFFICES ASSUME CallsInv, Check PROVE CallsInv'
  OBVIOUS
<1>1. /\ req' = req /\ callsOutput' = callsOutput /\ callsDrawn' = callsDrawn
      /\ callsPc = "check" /\ callsResult' = CallRefusal
  BY DEF Check
<1>2. /\ req \in Requests /\ callsOutput = "old" /\ callsDrawn = 0 /\ ~prefix
      /\ CallRefusal' = CallRefusal /\ Contextless /\ Contextless'
  BY <1>1 DEF CallsInv, CallsTypeOK, Contextless, Untouched, OwnPath, CallRefusal, Null, Overlaps
<1>3. req.call \in {"keygen", "sign", "verify"}
  BY <1>2 DEF Requests
<1>4. CASE CallRefusal # "none"
  <2>1. callsPc' = "done"
    BY <1>4 DEF Check
  <2>2. prefix' = FALSE
    BY <1>4, Zenon DEF Check
  <2>3. CallsTypeOK' /\ Untouched' /\ NothingToRefuse' /\ OwnPath'
    BY <1>1, <1>2, <2>1, <2>2 DEF CallsTypeOK, Contextless, Untouched, NothingToRefuse, OwnPath, Going
  <2>4. NothingHalfDone'
    BY <1>1, <1>2, <2>1 DEF NothingHalfDone
  <2>5. OwnBuffersAreClean'
    BY <1>1, <1>2, <2>1, <2>2 DEF OwnBuffersAreClean
  <2> QED BY <2>3, <2>4, <2>5 DEF CallsInv
<1>5. CASE CallRefusal = "none"
  <2>1. /\ req.call = "verify" => callsPc' = "verify"
        /\ req.call # "verify" => callsPc' \in {"validate", "random"}
        /\ callsPc' = "validate" => req.scheme = "aimer" /\ req.call = "sign"
    BY <1>5 DEF Check
  <2>2. prefix' = (/\ req.scheme # "slh_dsa"
                   /\ req.call = "verify" \/ (req.call = "sign" /\ req.scheme = "haetae"))
    BY <1>5 DEF Check, Prefixing
  <2>3. CASE req.call = "verify"
    BY <1>1, <1>2, <1>5, <2>1, <2>2, <2>3 DEF CallsInv, CallsTypeOK, Contextless, Untouched, NothingToRefuse,
       OwnPath, NothingHalfDone, OwnBuffersAreClean, Going
  <2>4. CASE req.call # "verify"
    BY <1>1, <1>2, <1>5, <2>1, <2>2, <2>4 DEF CallsInv, CallsTypeOK, Contextless, Untouched, NothingToRefuse,
       OwnPath, NothingHalfDone, OwnBuffersAreClean, Going
  <2> QED BY <2>3, <2>4
<1> QED BY <1>4, <1>5

(* crypto_aimer_validate_private_key.                                        *)
LEMMA ValidateKeeps == CallsInv /\ Validate => CallsInv'
<1> SUFFICES ASSUME CallsInv, Validate PROVE CallsInv'
  OBVIOUS
<1>1. /\ req' = req /\ callsDrawn' = callsDrawn /\ callsPc = "validate"
  BY DEF Validate
<1>2. /\ req \in Requests /\ callsOutput = "old" /\ callsDrawn = 0 /\ ~prefix
      /\ CallRefusal = "none" /\ CallRefusal' = "none" /\ req.call # "verify"
  BY <1>1 DEF CallsInv, CallsTypeOK, Contextless, Untouched, NothingToRefuse, OwnPath, Going, CallRefusal, Null,
              Overlaps
<1>3. CASE callsPc' = "random" /\ prefix' = TRUE /\ UNCHANGED <<callsOutput, callsResult>>
  BY <1>1, <1>2, <1>3 DEF CallsInv, CallsTypeOK, Contextless, Untouched, NothingToRefuse, OwnPath,
     NothingHalfDone, OwnBuffersAreClean, Going
<1>4. CASE /\ callsPc' = "done" /\ callsResult' \in {"key", "internal"}
           /\ callsOutput' = "zero" /\ UNCHANGED prefix
  BY <1>1, <1>2, <1>4 DEF CallsInv, CallsTypeOK, Contextless, Untouched, NothingToRefuse, OwnPath,
     NothingHalfDone, OwnBuffersAreClean, Going
<1> QED BY <1>3, <1>4 DEF Validate

(* A random string drawn, or a random source that fails.                     *)
LEMMA RandomKeeps == CallsInv /\ Random => CallsInv'
<1> SUFFICES ASSUME CallsInv, Random PROVE CallsInv'
  OBVIOUS
<1>1. req' = req /\ callsPc = "random"
  BY DEF Random
<1>2. /\ req \in Requests /\ callsOutput = "old" /\ callsDrawn \in Nat /\ prefix \in BOOLEAN
      /\ CallRefusal = "none" /\ CallRefusal' = "none" /\ req.call # "verify"
  BY <1>1 DEF CallsInv, CallsTypeOK, Contextless, Untouched, NothingToRefuse, OwnPath, Going, CallRefusal, Null,
              Overlaps
<1>3. CASE /\ callsDrawn' = callsDrawn + 1 /\ callsPc' \in {"random", "backend"}
           /\ UNCHANGED <<callsOutput, prefix, callsResult>>
  BY <1>1, <1>2, <1>3 DEF CallsInv, CallsTypeOK, Contextless, Untouched, NothingToRefuse, OwnPath,
     NothingHalfDone, OwnBuffersAreClean, Going
<1>4. CASE /\ callsPc' = "done" /\ callsResult' = "random" /\ callsOutput' = "zero"
           /\ callsDrawn' = 0 /\ prefix' = FALSE
  BY <1>1, <1>2, <1>4 DEF CallsInv, CallsTypeOK, Contextless, Untouched, NothingToRefuse, OwnPath,
     NothingHalfDone, OwnBuffersAreClean, Going
<1> QED BY <1>1, <1>3, <1>4 DEF Random, Abandoned

(* The backend starts to write.                                              *)
LEMMA BackendKeeps == CallsInv /\ Backend => CallsInv'
<1> SUFFICES ASSUME CallsInv, Backend PROVE CallsInv'
  OBVIOUS
<1>1. /\ req' = req /\ callsPc = "backend" /\ callsPc' = "running" /\ callsDrawn' = callsDrawn
      /\ prefix' \in BOOLEAN
  BY DEF Backend
<1>2. /\ req \in Requests /\ callsDrawn \in Nat
      /\ CallRefusal = "none" /\ CallRefusal' = "none" /\ req.call # "verify"
  BY <1>1 DEF CallsInv, CallsTypeOK, Contextless, NothingToRefuse, OwnPath, Going, CallRefusal, Null, Overlaps
<1> QED BY <1>1, <1>2 DEF CallsInv, CallsTypeOK, Contextless, Untouched, NothingToRefuse, OwnPath,
           NothingHalfDone, OwnBuffersAreClean, Going

(* The backend is done, or gives up half way.                                *)
LEMMA ReturnKeeps == CallsInv /\ Return => CallsInv'
<1> SUFFICES ASSUME CallsInv, Return PROVE CallsInv'
  OBVIOUS
<1>1. /\ req' = req /\ callsPc = "running" /\ callsPc' = "done" /\ callsDrawn' = 0
      /\ prefix' = FALSE
      /\ \/ callsResult' = "success" /\ callsOutput' = "whole"
         \/ /\ callsResult' \in {"allocation", "key", "argument", "internal"}
            /\ callsOutput' = "zero"
  BY DEF Return, CallsLeft
<1>2. /\ req \in Requests /\ CallRefusal = "none" /\ CallRefusal' = "none" /\ req.call # "verify"
  BY <1>1 DEF CallsInv, CallsTypeOK, Contextless, NothingToRefuse, OwnPath, Going, CallRefusal, Null, Overlaps
<1> QED BY <1>1, <1>2 DEF CallsInv, CallsTypeOK, Contextless, Untouched, NothingToRefuse, OwnPath,
           NothingHalfDone, OwnBuffersAreClean, Going

(* A verification, which writes nothing.                                     *)
LEMMA VerifyKeeps == CallsInv /\ CallsVerify => CallsInv'
<1> SUFFICES ASSUME CallsInv, CallsVerify PROVE CallsInv'
  OBVIOUS
<1>1. /\ req' = req /\ callsPc = "verify" /\ callsPc' = "done" /\ callsDrawn' = callsDrawn
      /\ prefix' = FALSE /\ callsOutput' = callsOutput
  BY DEF CallsVerify
<1>2. /\ req \in Requests /\ callsOutput = "old" /\ callsDrawn = 0 /\ req.call = "verify"
  BY <1>1 DEF CallsInv, CallsTypeOK, Contextless, Untouched, OwnPath
<1>3. CallsTypeOK' /\ Untouched' /\ NothingToRefuse' /\ OwnPath'
  BY <1>1, <1>2 DEF CallsTypeOK, Contextless, Untouched, NothingToRefuse, OwnPath, Going
<1>4. NothingHalfDone'
  BY <1>1, <1>2 DEF NothingHalfDone
<1>5. OwnBuffersAreClean'
  BY <1>1, <1>2 DEF OwnBuffersAreClean
<1> QED BY <1>3, <1>4, <1>5 DEF CallsInv

(* The invariant of the calls.                                               *)
THEOREM SignaturesInvariant == CallsSpec => []CallsInv
<1>1. CallsInit => CallsInv
  <2> SUFFICES ASSUME CallsInit PROVE CallsInv
    OBVIOUS
  <2>1. /\ req \in Requests /\ Contextless /\ callsPc = "check" /\ callsOutput = "old" /\ callsDrawn = 0
        /\ prefix = FALSE
    BY DEF CallsInit, Contextless
  <2>2. CallsTypeOK /\ Untouched /\ NothingToRefuse /\ OwnPath
    BY <2>1 DEF CallsTypeOK, Contextless, Untouched, NothingToRefuse, OwnPath, Going
  <2>3. NothingHalfDone /\ OwnBuffersAreClean
    BY <2>1 DEF NothingHalfDone, OwnBuffersAreClean
  <2> QED BY <2>2, <2>3 DEF CallsInv
<1>2. CallsInv /\ [CallsNext]_callsVars => CallsInv'
  <2> SUFFICES ASSUME CallsInv, [CallsNext]_callsVars PROVE CallsInv'
    OBVIOUS
  <2>1. CASE UNCHANGED callsVars
    BY <2>1 DEF callsVars, CallsInv, CallsTypeOK, Contextless, Untouched, NothingToRefuse, OwnPath,
       NothingHalfDone, OwnBuffersAreClean, CallRefusal, Null, Overlaps
  <2>2. CASE CallsFinished
    BY <2>1, <2>2 DEF CallsFinished
  <2> QED BY <2>1, <2>2, CheckKeeps, ValidateKeeps, RandomKeeps, BackendKeeps, ReturnKeeps,
             VerifyKeeps DEF CallsNext
<1> QED BY <1>1, <1>2, PTL DEF CallsSpec

(* What the checks let through is what the backends rely on.                 *)
LEMMA CheckedIsSafe == CallsInv => BackendIsSafe
<1> SUFFICES ASSUME CallsInv, callsPc \in {"running", "verify", "validate"}
             PROVE  /\ ~Null /\ req.known /\ ~req.longContext
                    /\ req.call # "keygen" => req.key = "exact"
                    /\ req.call = "keygen" => req.key # "short"
                    /\ req.signature # "short" /\ (req.call = "verify" => req.signature = "exact")
                    /\ (req.scheme \in {"aimer", "haetae"} /\ req.call # "verify" => ~req.overlap)
  BY DEF BackendIsSafe
<1>1. CallsTypeOK /\ CallRefusal = "none"
  BY DEF CallsInv, NothingToRefuse, Going
<1>2. /\ ~Null /\ req.known /\ ~Overlaps
      /\ req.call = "keygen" => req.key # "short" /\ req.signature # "short"
      /\ req.call # "keygen" => ~req.longContext /\ req.key = "exact"
      /\ req.call = "sign" => req.signature # "short"
      /\ req.call = "verify" => req.signature = "exact"
  BY <1>1, PassedChecks
<1>3. req.call \in {"keygen", "sign", "verify"} /\ Contextless
  BY <1>1 DEF CallsTypeOK, Requests
<1> QED BY <1>2, <1>3 DEF Contextless, Overlaps

-----------------------------------------------------------------------------
(* The signed string.  The inductive invariant: what has been put together   *)
(* so far, of a request that nothing is wrong with.                          *)
InFront == Domain \o LengthByte \o context \o hash

MessagesTypeOK ==
  /\ scheme \in {"ml_dsa", "slh_dsa", "short"}
  /\ hash \in {<<>>} \cup {<<h>> : h \in Hashes \cup {0}}
  /\ scheme = "short" => hash = <<>>
  /\ context \in Seq(MessagesByte) /\ body \in Seq(MessagesByte)
  /\ messagesPc \in {"prefix", "refused", "absorb", "signed"}

MessagesInv ==
  /\ MessagesTypeOK
  /\ messagesPc = "absorb" => ~Refused /\ pre = InFront
  /\ messagesPc = "signed" => ~Refused /\ signed = InFront \o body

(* A string of bounded length is a sequence.                                 *)
LEMMA StringsAreSeqs ==
  ASSUME NEW n \in Nat, NEW s \in Strings(n)
  PROVE  s \in Seq(MessagesByte)
<1>1. PICK k \in 0..n : s \in [1..k -> MessagesByte]
  BY DEF Strings
<1> QED BY <1>1

(* The invariant of the signed string.                                       *)
THEOREM MessagesInvariant == MessagesSpec => []MessagesInv
<1>1. MessagesInit => MessagesInv
  <2> SUFFICES ASSUME MessagesInit PROVE MessagesInv
    OBVIOUS
  <2>1. context \in Seq(MessagesByte) /\ body \in Seq(MessagesByte)
    BY MessagesAssumption, StringsAreSeqs DEF MessagesInit
  <2> QED BY <2>1 DEF MessagesInit, MessagesInv, MessagesTypeOK
<1>2. MessagesInv /\ [MessagesNext]_messagesVars => MessagesInv'
  <2> SUFFICES ASSUME MessagesInv, [MessagesNext]_messagesVars PROVE MessagesInv'
    OBVIOUS
  <2>1. UNCHANGED <<scheme, hash, context, body>>
    BY DEF MessagesNext, Prefix, Absorb, MessagesFinished, messagesVars
  <2>2. InFront' = InFront /\ Refused' = Refused
    BY <2>1 DEF InFront, Domain, LengthByte, Refused, TooLong, HashFits, Hashes
  <2>3. CASE Prefix
    BY <2>1, <2>2, <2>3 DEF Prefix, MessagesInv, MessagesTypeOK, InFront
  <2>4. CASE Absorb
    BY <2>1, <2>2, <2>4 DEF Absorb, MessagesInv, MessagesTypeOK
  <2>5. CASE UNCHANGED messagesVars
    BY <2>1, <2>2, <2>5 DEF messagesVars, MessagesInv, MessagesTypeOK
  <2> QED BY <2>3, <2>4, <2>5 DEF MessagesNext, MessagesFinished
<1> QED BY <1>1, <1>2, PTL DEF MessagesSpec

(* A part of a string in the middle, and what follows it.                    *)
LEMMA MiddleAndRest ==
  ASSUME NEW S, NEW p \in Seq(S), NEW c \in Seq(S), NEW r \in Seq(S)
  PROVE  LET s == p \o (c \o r)
         IN  /\ SubSeq(s, Len(p) + 1, Len(p) + Len(c)) = c
             /\ Tail_(s, Len(p) + Len(c)) = r
             /\ \A i \in 1..Len(p) : s[i] = p[i]
<1> DEFINE t == c \o r
           s == p \o t
<1>1. /\ t \in Seq(S) /\ Len(t) = Len(c) + Len(r)
      /\ \A j \in 1..Len(c) : t[j] = c[j]
      /\ \A j \in 1..Len(r) : t[Len(c) + j] = r[j]
  BY Joined
<1> HIDE DEF t
<1>2. /\ s \in Seq(S) /\ Len(s) = Len(p) + Len(t)
      /\ \A j \in 1..Len(p) : s[j] = p[j]
      /\ \A j \in 1..Len(t) : s[Len(p) + j] = t[j]
  <2>1. t \in Seq(S)
    BY <1>1
  <2> QED BY <2>1, Joined
<1> HIDE DEF s
<1>3. Len(p) \in Nat /\ Len(c) \in Nat /\ Len(r) \in Nat
  OBVIOUS
<1> DEFINE x == SubSeq(s, Len(p) + 1, Len(p) + Len(c))
           y == SubSeq(s, Len(p) + Len(c) + 1, Len(s))
<1>4. /\ x \in Seq(S) /\ Len(x) = Len(c)
      /\ \A j \in 1..Len(c) : x[j] = s[Len(p) + j]
  BY SMTT(20), <1>1, <1>2, <1>3
<1>5. /\ y \in Seq(S) /\ Len(y) = Len(r)
      /\ \A j \in 1..Len(r) : y[j] = s[Len(p) + Len(c) + j]
  BY SMTT(20), <1>1, <1>2, <1>3
<1> HIDE DEF x, y
<1>6. x = c
  <2>1. ASSUME NEW j \in 1..Len(c) PROVE x[j] = c[j]
    <3>1. j \in 1..Len(t)
      BY <1>1, <1>3
    <3> QED BY <1>1, <1>2, <1>4, <3>1
  <2> QED BY <1>4, <2>1, SeqEqual
<1>7. y = r
  <2>1. ASSUME NEW j \in 1..Len(r) PROVE y[j] = r[j]
    <3>1. Len(c) + j \in 1..Len(t) /\ Len(p) + Len(c) + j = Len(p) + (Len(c) + j)
      BY <1>1, <1>3
    <3> QED BY <1>1, <1>2, <1>5, <3>1
  <2> QED BY <1>5, <2>1, SeqEqual
<1> QED BY <1>2, <1>6, <1>7 DEF s, t, x, y, Tail_

(* What stands before the context: a domain byte, where the scheme has one,  *)
(* and the length of the context, which fits its byte.                       *)
LEMMA BeforeContext ==
  ASSUME MessagesTypeOK, ~TooLong
  PROVE  LET p == Domain \o LengthByte
             from == IF scheme = "short" THEN 1 ELSE 2
         IN  /\ p \in Seq(MessagesByte) /\ Len(p) = from
             /\ p[from] = Len(context)
             /\ scheme # "short" => (p[1] = 1 <=> hash # <<>>)
<1>1. /\ Bytes \in Nat /\ Bytes > 1 /\ context \in Seq(MessagesByte)
      /\ scheme \in {"ml_dsa", "slh_dsa", "short"}
  BY MessagesAssumption DEF MessagesTypeOK
<1>2. Len(context) \in Nat /\ Len(context) < Bytes
  BY <1>1 DEF TooLong
<1>3. Len(context) % Bytes = Len(context)
  BY <1>1, <1>2
<1> DEFINE n == Len(context)
<1>4. LengthByte = <<n>> /\ n \in MessagesByte
  BY <1>1, <1>2, <1>3 DEF LengthByte, MessagesByte
<1> HIDE DEF n
<1>5. CASE scheme = "short"
  <2>1. <<>> \o <<n>> = <<n>>
    OBVIOUS
  <2> QED BY <1>4, <1>5, <2>1 DEF Domain, n
<1>6. CASE scheme # "short"
  <2>1. PICK d \in {0, 1} : Domain = <<d>> /\ (d = 1 <=> hash # <<>>)
    BY <1>6 DEF Domain
  <2>2. d \in MessagesByte
    BY <1>1 DEF MessagesByte
  <2>3. <<d>> \o <<n>> = <<d, n>>
    <3>1. <<d>> \o <<n>> = Append(<<d>>, n)
      OBVIOUS
    <3> QED BY <3>1, AppendToOne
  <2> QED BY <1>4, <1>6, <2>1, <2>2, <2>3 DEF n
<1> QED BY <1>5, <1>6

(* The parts of the string that is signed, each with its kind.               *)
LEMMA SignedParts ==
  ASSUME MessagesInv, messagesPc = "signed"
  PROVE  /\ ~TooLong /\ (hash # <<>> => HashFits)
         /\ hash \in Seq(MessagesByte)
         /\ hash # <<>> => hash = <<hash[1]>> /\ Len(hash) = 1
         /\ Domain \o LengthByte \in Seq(MessagesByte)
         /\ signed = (Domain \o LengthByte) \o (context \o (hash \o body))
<1>1. MessagesTypeOK /\ ~Refused /\ signed = InFront \o body
  BY DEF MessagesInv
<1>2. ~TooLong /\ (hash # <<>> => HashFits)
  BY <1>1 DEF Refused
<1>3. hash \in Seq(MessagesByte) /\ (hash # <<>> => hash = <<hash[1]>> /\ Len(hash) = 1)
  <2>1. CASE hash = <<>>
    BY <2>1
  <2>2. CASE hash # <<>>
    <3>1. PICK h \in Hashes \cup {0} : hash = <<h>>
      BY <1>1, <2>2 DEF MessagesTypeOK
    <3>2. h \in MessagesByte
      BY MessagesAssumption DEF Hashes, MessagesByte
    <3> QED BY <3>1, <3>2
  <2> QED BY <2>1, <2>2
<1> DEFINE p == Domain \o LengthByte
<1>4. p \in Seq(MessagesByte)
  BY <1>1, <1>2, BeforeContext
<1>5. context \in Seq(MessagesByte) /\ body \in Seq(MessagesByte)
  BY <1>1 DEF MessagesTypeOK
<1>6. signed = ((p \o context) \o hash) \o body
  BY <1>1 DEF InFront
<1> HIDE DEF p
<1>7. signed = Cat(Cat(Cat(p, context), hash), body)
  BY <1>6 DEF Cat
<1>8. Cat(Cat(Cat(p, context), hash), body) = Cat(p, Cat(context, Cat(hash, body)))
  <2>1. Cat(p, context) \in Seq(MessagesByte) /\ Cat(hash, body) \in Seq(MessagesByte)
    BY <1>3, <1>4, <1>5, CatType
  <2>2. Cat(Cat(Cat(p, context), hash), body) = Cat(Cat(p, context), Cat(hash, body))
    BY <1>3, <1>4, <1>5, <2>1, Associative
  <2>3. Cat(Cat(p, context), Cat(hash, body)) = Cat(p, Cat(context, Cat(hash, body)))
    BY <1>3, <1>4, <1>5, <2>1, Associative
  <2> QED BY <2>2, <2>3
<1>9. signed = p \o (context \o (hash \o body))
  BY <1>7, <1>8 DEF Cat
<1> QED BY <1>2, <1>3, <1>4, <1>9 DEF p

(* The string is read back part by part.                                     *)
LEMMA ReadBack == MessagesInv => SignedCanBeRead
<1> SUFFICES ASSUME MessagesInv, messagesPc = "signed"
             PROVE  Read(signed) = [context |-> context, hash |-> hash, body |-> body]
  BY DEF SignedCanBeRead
<1> DEFINE p == Domain \o LengthByte
           from == IF scheme = "short" THEN 1 ELSE 2
           r == hash \o body
           rest == Tail_(signed, from + signed[from])
           hashed == scheme # "short" /\ signed[1] = 1
<1>1. /\ MessagesTypeOK /\ ~TooLong /\ hash \in Seq(MessagesByte)
      /\ hash # <<>> => hash = <<hash[1]>> /\ Len(hash) = 1
      /\ p \in Seq(MessagesByte) /\ signed = p \o (context \o r)
  BY SignedParts DEF MessagesInv
<1>2. /\ context \in Seq(MessagesByte) /\ body \in Seq(MessagesByte)
      /\ scheme = "short" => hash = <<>>
  BY <1>1 DEF MessagesTypeOK
<1>3. /\ Len(p) = from /\ p[from] = Len(context)
      /\ scheme # "short" => (p[1] = 1 <=> hash # <<>>)
  BY <1>1, BeforeContext
<1>4. /\ r \in Seq(MessagesByte) /\ Len(r) = Len(hash) + Len(body)
      /\ \A j \in 1..Len(hash) : r[j] = hash[j]
  BY <1>1, <1>2, Joined
<1>5. from \in {1, 2}
  OBVIOUS
<1> HIDE DEF p, r
<1>6. /\ SubSeq(signed, Len(p) + 1, Len(p) + Len(context)) = context
      /\ Tail_(signed, Len(p) + Len(context)) = r
      /\ \A i \in 1..Len(p) : signed[i] = p[i]
  <2>1. context \in Seq(MessagesByte) /\ p \in Seq(MessagesByte) /\ r \in Seq(MessagesByte)
    BY <1>1, <1>2, <1>4
  <2> DEFINE t == p \o (context \o r)
  <2>2. /\ SubSeq(t, Len(p) + 1, Len(p) + Len(context)) = context
        /\ Tail_(t, Len(p) + Len(context)) = r
        /\ \A i \in 1..Len(p) : t[i] = p[i]
    BY <2>1, MiddleAndRest
  <2>3. signed = t
    BY <1>1
  <2> HIDE DEF t
  <2> QED BY <2>2, <2>3
<1> HIDE DEF from
<1>7. signed[from] = Len(context) /\ signed[1] = p[1]
  BY <1>3, <1>5, <1>6
<1>8. rest = r /\ SubSeq(signed, from + 1, from + signed[from]) = context
  BY <1>3, <1>6, <1>7
<1>9. hashed <=> hash # <<>>
  BY <1>2, <1>3, <1>7
<1> HIDE DEF rest, hashed
<1>10. /\ (IF hashed THEN <<rest[1]>> ELSE <<>>) = hash
       /\ (IF hashed THEN Tail_(rest, 1) ELSE rest) = body
  <2>1. CASE hash = <<>>
    <3>1. <<>> \o body = body
      BY <1>2
    <3> QED BY <1>8, <1>9, <2>1, <3>1 DEF r
  <2>2. CASE hash # <<>>
    <3>1. r[1] = hash[1] /\ Len(hash) = 1
      <4>1. Len(hash) = 1
        BY <1>1, <2>2
      <4>2. 1 \in 1..Len(hash)
        BY <4>1
      <4> QED BY <1>4, <4>1, <4>2
    <3>2. Tail_(r, 1) = body
      <4>1. PICK q \in Seq(MessagesByte) : q = <<>> /\ Len(q) = 0
        <5>1. <<>> \in Seq(MessagesByte) /\ Len(<<>>) = 0
          OBVIOUS
        <5> QED BY <5>1
      <4>2. q \o (hash \o body) = r
        <5>1. <<>> \o r = r
          BY <1>4
        <5> QED BY <4>1, <5>1 DEF r
      <4>3. Tail_(q \o (hash \o body), Len(q) + Len(hash)) = body
        <5>1. hash \in Seq(MessagesByte) /\ body \in Seq(MessagesByte)
          BY <1>1, <1>2
        <5> QED BY <5>1, MiddleAndRest
      <4>4. Len(q) + Len(hash) = 1
        BY <3>1, <4>1
      <4> QED BY <4>2, <4>3, <4>4
    <3> QED BY <1>1, <1>8, <1>9, <2>2, <3>1, <3>2
  <2> QED BY <2>1, <2>2
<1>11. Read(signed) = [context |-> SubSeq(signed, from + 1, from + signed[from]),
                       hash |-> IF hashed THEN <<rest[1]>> ELSE <<>>,
                       body |-> IF hashed THEN Tail_(rest, 1) ELSE rest]
  BY DEF Read, hashed, rest, from
<1> QED BY <1>8, <1>10, <1>11

(* What follows the identifier of a hash is as long as that hash.            *)
LEMMA WholeHash == MessagesInv => HashIsWhole
<1> SUFFICES ASSUME MessagesInv, messagesPc = "signed", hash # <<>>
             PROVE  hash[1] \in Hashes /\ Len(signed) = 3 + Len(context) + HashLength[hash[1]]
  BY DEF HashIsWhole
<1> DEFINE p == Domain \o LengthByte
           r == hash \o body
<1>1. /\ MessagesTypeOK /\ ~TooLong /\ HashFits /\ hash \in Seq(MessagesByte) /\ Len(hash) = 1
      /\ p \in Seq(MessagesByte) /\ signed = p \o (context \o r)
  BY SignedParts DEF MessagesInv
<1>2. context \in Seq(MessagesByte) /\ body \in Seq(MessagesByte) /\ scheme # "short"
  BY <1>1 DEF MessagesTypeOK
<1>3. Len(p) = 2
  BY <1>1, <1>2, BeforeContext
<1>4. hash[1] \in Hashes /\ Len(body) = HashLength[hash[1]]
  BY <1>1 DEF HashFits
<1>5. r \in Seq(MessagesByte) /\ Len(r) = 1 + Len(body)
  <2>1. hash \in Seq(MessagesByte) /\ body \in Seq(MessagesByte)
    BY <1>1, <1>2
  <2>2. r \in Seq(MessagesByte) /\ Len(r) = Len(hash) + Len(body)
    BY <2>1, Joined
  <2> QED BY <1>1, <2>2
<1> HIDE DEF p, r
<1>6. context \o r \in Seq(MessagesByte) /\ Len(context \o r) = Len(context) + Len(r)
  BY <1>2, <1>5, Joined
<1>7. Len(signed) = Len(p) + Len(context \o r)
  BY <1>1, <1>6, Joined
<1>8. Len(context) \in Nat /\ Len(body) \in Nat
  BY <1>2
<1>9. Len(signed) = 3 + Len(context) + Len(body)
  BY <1>3, <1>5, <1>6, <1>7, <1>8
<1> QED BY <1>4, <1>9

(* The calls of the signature schemes are whole: a caller finds a whole      *)
(* result, zeros or its old bytes, the call's own buffers keep no secret, no *)
(* backend gets an argument that it does not check, and what is signed is    *)
(* read back as one context, one hash and one message.                       *)
THEOREM CallsAreWhole == CallsSpec /\ MessagesSpec => []SignatureCallsAreWhole
<1>1. CallsInv /\ MessagesInv => SignatureCallsAreWhole
  BY CheckedIsSafe, ReadBack, WholeHash DEF CallsInv, SignatureCallsAreWhole
<1> QED BY <1>1, SignaturesInvariant, MessagesInvariant, PTL

-----------------------------------------------------------------------------
(* Key encapsulation.                                                      *)
(* The record of a call has its seven fields.                              *)
Shaped(r) ==
    r = [op |-> r.op, alg |-> r.alg, step |-> r.step, key |-> r.key,
         ct |-> r.ct, coins |-> r.coins, msg |-> r.msg]

(* While a call of ML-KEM is under way its thread's parameter set is the   *)
(* one the caller named.                                                   *)
OwnSet(r, set) ==
    /\ Shaped(r)
    /\ r.step # "none" => r.alg \in Algs /\ (Family[r.alg] = "MLKEM" => set = r.alg)

(* The inductive invariant.                                                *)
IInv ==
    /\ call = [t \in Threads |-> call[t]]
    /\ active \in [Threads -> {a \in Algs : Family[a] = "MLKEM"} \cup {NoAlg}]
    /\ \A t \in Threads : OwnSet(call[t], active[t])
    /\ SetsNeverMix

----------------------------------------------------------------------------
(* A thread in no call may have any parameter set.                         *)
LEMMA IdleIsOwn == \A set : OwnSet(Idle, set)
BY DEF OwnSet, Shaped, Idle

(* A call that enters sets the parameter set of its own thread only.       *)
LEMMA EntersIsOwn ==
    ASSUME IInv, NEW t \in Threads, NEW op, NEW alg \in Algs, NEW key, NEW ct, NEW step,
           Enters(t, op, alg, key, ct, step)
    PROVE  IInv'
<1> DEFINE r == [op |-> op, alg |-> alg, step |-> step, key |-> key, ct |-> ct,
                 coins |-> <<>>, msg |-> None]
<1>1. Shaped(r) /\ r.alg = alg
  BY DEF Shaped
<1>2. call' = [call EXCEPT ![t] = r] /\ active' = Activated(t, alg)
  BY DEF Enters
<1>3. UNCHANGED results
  BY DEF Enters
<1> HIDE DEF r
<1>4. call' = [u \in Threads |-> call'[u]] /\ active' \in [Threads -> {a \in Algs : Family[a] = "MLKEM"} \cup {NoAlg}]
  BY <1>2 DEF IInv, Activated
<1>5. Family[alg] = "MLKEM" => active'[t] = alg
  BY <1>2 DEF IInv, Activated
<1>6. ASSUME NEW u \in Threads PROVE OwnSet(call'[u], active'[u])
  <2>1. CASE u = t
    BY <2>1, <1>1, <1>2, <1>5 DEF OwnSet, IInv
  <2>2. CASE u # t
    <3>1. call'[u] = call[u] /\ active'[u] = active[u]
      BY <2>2, <1>2 DEF IInv, Activated
    <3> QED BY <3>1 DEF IInv
  <2> QED BY <2>1, <2>2
<1>7. SetsNeverMix'
  BY <1>3 DEF IInv, SetsNeverMix, results
<1> QED BY <1>4, <1>6, <1>7 DEF IInv

(* A call that returns leaves every parameter set as it is.                *)
LEMMA ReturnsIsOwn ==
    ASSUME IInv, NEW t \in Threads, NEW status, NEW buffers,
           Returns(t, status, buffers), UNCHANGED active, SetsNeverMix'
    PROVE  IInv'
<1>1. call' = [call EXCEPT ![t] = Idle]
  BY DEF Returns
<1>2. call' = [u \in Threads |-> call'[u]] /\ active' \in [Threads -> {a \in Algs : Family[a] = "MLKEM"} \cup {NoAlg}]
  BY <1>1 DEF IInv
<1>3. ASSUME NEW u \in Threads PROVE OwnSet(call'[u], active'[u])
  <2>1. CASE u = t
    BY <2>1, <1>1, IdleIsOwn DEF IInv
  <2>2. CASE u # t
    BY <2>2, <1>1 DEF IInv
  <2> QED BY <2>1, <2>2
<1> QED BY <1>2, <1>3 DEF IInv

(* A call that goes on keeps its algorithm, and its parameter set.         *)
LEMMA GoesOnIsOwn ==
    ASSUME IInv, NEW t \in Threads, NEW r,
           Shaped(r), r.alg = call[t].alg, call[t].step # "none",
           call' = [call EXCEPT ![t] = r], UNCHANGED <<active, results>>
    PROVE  IInv'
<1>1. call' = [u \in Threads |-> call'[u]] /\ active' \in [Threads -> {a \in Algs : Family[a] = "MLKEM"} \cup {NoAlg}]
  BY DEF IInv
<1>2. ASSUME NEW u \in Threads PROVE OwnSet(call'[u], active'[u])
  <2>1. CASE u = t
    BY <2>1 DEF IInv, OwnSet
  <2>2. CASE u # t
    BY <2>2 DEF IInv
  <2> QED BY <2>1, <2>2
<1>3. SetsNeverMix'
  BY DEF IInv, SetsNeverMix, results
<1> QED BY <1>1, <1>2, <1>3 DEF IInv

(* A step that touches no call and no result keeps it.                     *)
LEMMA UnchangedKeeps ==
    ASSUME IInv, UNCHANGED <<call, active, results>>
    PROVE  IInv'
BY DEF IInv, SetsNeverMix, results

(* The parameter set a step works with is the one the caller named.        *)
LEMMA ParametersAreNamed ==
    ASSUME IInv, NEW t \in Threads, call[t].step # "none"
    PROVE  Parameters(t) = call[t].alg /\ call[t].alg \in Algs
BY DEF IInv, OwnSet, Parameters

(* A call that only returns, with no key or ciphertext.                    *)
LEMMA FailsIsOwn ==
    ASSUME IInv, NEW t \in Threads, NEW status, NEW buffers,
           Returns(t, status, buffers), UNCHANGED <<active, results>>
    PROVE  IInv'
<1>1. SetsNeverMix'
  BY DEF IInv, SetsNeverMix, results
<1> QED BY <1>1, ReturnsIsOwn

----------------------------------------------------------------------------
(* The steps.                                                              *)

(* Only the algorithms of the interface pass the argument checks.          *)
LEMMA NamedOnly ==
    ASSUME NEW alg, NEW null, NEW fits, NEW overlap,
           Refusal(alg, null, fits, overlap) = "SUCCESS"
    PROVE  alg \in Algs
BY DEF Refusal

(* A call refused for its arguments.                                       *)
LEMMA RefusesIsOwn ==
    ASSUME IInv, NEW t \in Threads, NEW op, NEW status, Refuses(t, op, status)
    PROVE  IInv'
BY FailsIsOwn DEF Refuses

(* The three entry points, whatever they answer.                           *)
LEMMA KeyGenStep ==
    ASSUME IInv, NEW t \in Threads, NEW alg, NEW null, NEW fits, NEW overlap,
           KeyGen(t, alg, null, fits, overlap)
    PROVE  IInv'
<1> DEFINE refusal == Refusal(alg, null, fits, overlap)
<1>1. CASE Refuses(t, "keygen", refusal)
  BY <1>1, RefusesIsOwn
<1>2. CASE refusal = "SUCCESS" /\ Enters(t, "keygen", alg, None, None, "draw")
  BY <1>2, NamedOnly, EntersIsOwn
<1> QED BY <1>1, <1>2 DEF KeyGen

(* LIBERAC_..._ENCAPS.                                                     *)
LEMMA EncapsStep ==
    ASSUME IInv, NEW t \in Threads, NEW alg, NEW null, NEW pk, NEW fits, NEW overlap,
           Encaps(t, alg, null, pk, fits, overlap)
    PROVE  IInv'
<1> DEFINE refusal == Refusal(alg, null, fits /\ Fits(pk.len, alg), overlap)
<1>1. CASE Refuses(t, "encaps", refusal)
  BY <1>1, RefusesIsOwn
<1>2. CASE Returns(t, "INVALID_KEY", Cleared("encaps")) /\ UNCHANGED <<active, results>>
  BY <1>2, FailsIsOwn
<1>3. CASE /\ refusal = "SUCCESS"
           /\ Enters(t, "encaps", alg, Beginning(pk, alg), None, "draw")
  BY <1>3, NamedOnly, EntersIsOwn
<1> QED BY <1>1, <1>2, <1>3 DEF Encaps

(* LIBERAC_..._DECAPS.                                                     *)
LEMMA DecapsStep ==
    ASSUME IInv, NEW t \in Threads, NEW alg, NEW null, NEW sk, NEW ct, NEW overlap,
           Decaps(t, alg, null, sk, ct, overlap)
    PROVE  IInv'
<1> DEFINE refusal == Refusal(alg, null, Fits(sk.len, alg) /\ Fits(ct.len, alg), overlap)
<1>1. CASE Refuses(t, "decaps", refusal)
  BY <1>1, RefusesIsOwn
<1>2. CASE Returns(t, "INVALID_KEY", Cleared("decaps")) /\ UNCHANGED <<active, results>>
  BY <1>2, FailsIsOwn
<1>3. CASE /\ refusal = "SUCCESS"
           /\ Enters(t, "decaps", alg, Beginning(sk, alg), BeginningOf(ct, alg), "open")
  BY <1>3, NamedOnly, EntersIsOwn
<1> QED BY <1>1, <1>2, <1>3 DEF Decaps

(* A call with another step, other coins or another message is a call, of  *)
(* the same algorithm.                                                     *)
LEMMA ChangedShape ==
    ASSUME NEW r, Shaped(r), NEW x
    PROVE  /\ Shaped([r EXCEPT !.step = x]) /\ [r EXCEPT !.step = x].alg = r.alg
           /\ Shaped([r EXCEPT !.coins = x]) /\ [r EXCEPT !.coins = x].alg = r.alg
           /\ Shaped([r EXCEPT !.msg = x]) /\ [r EXCEPT !.msg = x].alg = r.alg
<1>1. PICK op, alg, step, key, ct, coins, msg :
        r = [op |-> op, alg |-> alg, step |-> step, key |-> key,
             ct |-> ct, coins |-> coins, msg |-> msg]
  BY DEF Shaped
<1>2. Shaped([r EXCEPT !.step = x]) /\ [r EXCEPT !.step = x].alg = r.alg
  BY <1>1 DEF Shaped
<1>3. Shaped([r EXCEPT !.coins = x]) /\ [r EXCEPT !.coins = x].alg = r.alg
  BY <1>1 DEF Shaped
<1>4. Shaped([r EXCEPT !.msg = x]) /\ [r EXCEPT !.msg = x].alg = r.alg
  BY <1>1 DEF Shaped
<1> QED BY <1>2, <1>3, <1>4

(* The same for the two fields a step changes together.                    *)
LEMMA StillShaped ==
    ASSUME NEW r, Shaped(r), NEW step, NEW coins, NEW msg
    PROVE  /\ Shaped([r EXCEPT !.coins = coins, !.step = step])
           /\ [r EXCEPT !.coins = coins, !.step = step].alg = r.alg
           /\ Shaped([r EXCEPT !.msg = msg, !.step = step])
           /\ [r EXCEPT !.msg = msg, !.step = step].alg = r.alg
<1> DEFINE drawn  == [r EXCEPT !.coins = coins]
           told == [r EXCEPT !.msg = msg]
<1>1. Shaped(drawn) /\ drawn.alg = r.alg /\ Shaped(told) /\ told.alg = r.alg
  BY ChangedShape
<1> SUFFICES /\ Shaped([drawn EXCEPT !.step = step])
             /\ [drawn EXCEPT !.step = step].alg = r.alg
             /\ Shaped([told EXCEPT !.step = step])
             /\ [told EXCEPT !.step = step].alg = r.alg
  OBVIOUS
<1> HIDE DEF drawn, told
<1> QED BY <1>1, ChangedShape

(* A draw changes coins and step only.                                     *)
LEMMA DrawStep ==
    ASSUME IInv, NEW t \in Threads, Draw(t)
    PROVE  IInv'
<1>1. PICK coins, step :
        call' = [call EXCEPT ![t].coins = coins, ![t].step = step]
  BY DEF Draw
<1> DEFINE r == [call[t] EXCEPT !.coins = coins, !.step = step]
<1>2. call' = [call EXCEPT ![t] = r]
  BY <1>1 DEF IInv
<1>3. Shaped(r) /\ r.alg = call[t].alg
  BY StillShaped DEF IInv, OwnSet
<1>4. call[t].step # "none" /\ UNCHANGED <<active, results>>
  BY DEF Draw
<1> HIDE DEF r
<1> QED BY <1>2, <1>3, <1>4, GoesOnIsOwn

(* Decryption changes the message and the step only.                       *)
LEMMA OpenMlkemStep ==
    ASSUME IInv, NEW t \in Threads, OpenMlkem(t)
    PROVE  IInv'
<1>1. PICK msg : call' = [call EXCEPT ![t].msg = msg, ![t].step = "reencrypt"]
  BY DEF OpenMlkem
<1> DEFINE r == [call[t] EXCEPT !.msg = msg, !.step = "reencrypt"]
<1>2. call' = [call EXCEPT ![t] = r]
  BY <1>1 DEF IInv
<1>3. Shaped(r) /\ r.alg = call[t].alg
  BY StillShaped DEF IInv, OwnSet
<1>4. call[t].step # "none" /\ UNCHANGED <<active, results>>
  BY DEF OpenMlkem
<1> HIDE DEF r
<1> QED BY <1>2, <1>3, <1>4, GoesOnIsOwn

(* A call that fails.                                                      *)
LEMMA FailingStep ==
    ASSUME IInv, NEW t \in Threads, NEW status, Fails(t, status)
    PROVE  IInv'
BY FailsIsOwn DEF Fails

(* A decapsulation makes neither a key nor a ciphertext.                   *)
LEMMA DeliversStep ==
    ASSUME IInv, NEW t \in Threads, NEW ss, Delivers(t, ss)
    PROVE  IInv'
<1>1. SetsNeverMix'
  BY DEF Delivers, IInv, SetsNeverMix
<1> QED BY <1>1, ReturnsIsOwn DEF Delivers

(* A new key is made with the parameter set of the step, which is the      *)
(* caller's.                                                               *)
LEMMA MakeKeyStep ==
    ASSUME IInv, NEW t \in Threads, MakeKey(t)
    PROVE  IInv'
<1> DEFINE alg == call[t].alg
           key == Encoding(alg, call[t].coins)
<1>1. Parameters(t) = alg
  BY ParametersAreNamed DEF MakeKey
<1>2. keys' = keys \cup {[alg |-> alg, pk |-> key, sk |-> key]} /\ UNCHANGED sent
  BY <1>1 DEF MakeKey
<1>3. key.of.made = alg /\ key.len = Size[alg]
  BY DEF Encoding
<1>4. ASSUME NEW k \in keys'
      PROVE  k.pk.of.made = k.alg /\ k.pk.len = Size[k.alg]
  <2> HIDE DEF alg, key
  <2>1. CASE k \in keys
    BY <2>1 DEF IInv, SetsNeverMix
  <2>2. CASE k = [alg |-> alg, pk |-> key, sk |-> key]
    BY <2>2, <1>3
  <2> QED BY <2>1, <2>2, <1>2
<1>5. SetsNeverMix'
  BY <1>2, <1>4 DEF IInv, SetsNeverMix
<1> QED BY <1>5, ReturnsIsOwn DEF MakeKey

(* A ciphertext has the length of its caller's parameter set.              *)
LEMMA MakeCiphertextStep ==
    ASSUME IInv, NEW t \in Threads, MakeCiphertext(t)
    PROVE  IInv'
<1> DEFINE alg == call[t].alg
           m   == call[t].coins[1]
           pk  == Beginning(call[t].key, alg)
           ct  == Encrypt(alg, pk, m, Coins(m, pk))
           ss  == Secret(m, pk)
           new == [alg |-> alg, pk |-> call[t].key, ct |-> ct, ss |-> ss]
<1>1. CASE Fails(t, "INVALID_KEY")
  BY <1>1, FailingStep
<1>2. CASE /\ Returns(t, "SUCCESS", [ss |-> ss, ct |-> ct])
           /\ sent' = sent \cup {new}
           /\ UNCHANGED <<active, keys, opened>>
  <2>1. ct.len = Size[alg] /\ ct.to = Beginning(pk, alg)
    BY DEF Encrypt
  <2>2. ct.to.len = Size[alg]
    BY <2>1 DEF Beginning
  <2>3. new.alg = alg /\ new.ct = ct
    OBVIOUS
  <2>4. ASSUME NEW s \in sent'
        PROVE  s.ct.len = Size[s.alg] /\ s.ct.to.len = Size[s.alg]
    <3> HIDE DEF alg, ct, new
    <3>1. CASE s \in sent
      BY <3>1 DEF IInv, SetsNeverMix
    <3>2. CASE s = new
      BY <3>2, <2>1, <2>2, <2>3
    <3> QED BY <3>1, <3>2, <1>2
  <2>5. SetsNeverMix'
    BY <1>2, <2>4 DEF IInv, SetsNeverMix
  <2> QED BY <1>2, <2>5, ReturnsIsOwn
<1>3. Parameters(t) = alg
  BY ParametersAreNamed DEF MakeCiphertext
<1> QED BY <1>1, <1>2, <1>3 DEF MakeCiphertext

(* Whatever a caller passes.                                               *)
LEMMA CallStep ==
    ASSUME IInv, NEW t \in Threads, SomeCall(t)
    PROVE  IInv'
<1>1. ASSUME NEW alg, NEW null, NEW fits, NEW overlap,
             KeyGen(t, alg, null, fits, overlap)
      PROVE  IInv'
  BY <1>1, KeyGenStep
<1>2. ASSUME NEW alg, NEW null, NEW pk, NEW fits, NEW overlap,
             Encaps(t, alg, null, pk, fits, overlap)
      PROVE  IInv'
  BY <1>2, EncapsStep
<1>3. ASSUME NEW alg, NEW null, NEW sk, NEW ct, NEW overlap,
             Decaps(t, alg, null, sk, ct, overlap)
      PROVE  IInv'
  BY <1>3, DecapsStep
<1> QED BY ZenonT(40), <1>1, <1>2, <1>3 DEF SomeCall

(* Every step of a call under way.                                         *)
LEMMA StepStep ==
    ASSUME IInv, NEW t \in Threads, Step(t)
    PROVE  IInv'
<1>1. CASE DrawFails(t)
  BY <1>1, FailingStep DEF DrawFails
<1>2. CASE WorkFails(t)
  BY <1>2, FailingStep DEF WorkFails
<1>3. CASE Reencrypt(t)
  BY <1>3, DeliversStep DEF Reencrypt
<1>4. CASE OpenSmaug(t)
  BY <1>4, DeliversStep DEF OpenSmaug
<1>5. CASE OpenNtru(t)
  BY <1>5, DeliversStep, FailingStep DEF OpenNtru
<1> QED BY <1>1, <1>2, <1>3, <1>4, <1>5, DrawStep, OpenMlkemStep, MakeKeyStep,
           MakeCiphertextStep DEF Step

(* The invariant is inductive.                                             *)
LEMMA NextStep == IInv /\ [Next]_vars => IInv'
<1> SUFFICES ASSUME IInv, [Next]_vars PROVE IInv'
  OBVIOUS
<1>1. CASE UNCHANGED vars
  BY <1>1, UnchangedKeeps DEF vars, results
<1>2. ASSUME NEW t \in Threads, SomeCall(t) \/ Step(t) PROVE IInv'
  BY <1>2, CallStep, StepStep
<1>3. ASSUME NEW t \in Threads, Switch(t) PROVE IInv'
  BY <1>3, UnchangedKeeps DEF Switch
<1> QED BY <1>1, <1>2, <1>3 DEF Next

(* At the start no thread is in a call.                                    *)
LEMMA InitHolds == Init => IInv
<1> SUFFICES ASSUME Init PROVE IInv
  OBVIOUS
<1>1. call = [t \in Threads |-> Idle] /\ active = [t \in Threads |-> NoAlg]
  BY DEF Init
<1>2. \A t \in Threads : OwnSet(call[t], active[t])
  BY <1>1, IdleIsOwn
<1>3. SetsNeverMix
  BY DEF Init, SetsNeverMix
<1> QED BY <1>1, <1>2, <1>3 DEF IInv

(* ML-KEM/api.c, mlkem_active_parameters: while a thread is in a call of   *)
(* ML-KEM its parameter set is the one that call named.                    *)
THEOREM Invariant == Spec => []IInv
<1>1. Init => IInv
  BY InitHolds
<1>2. IInv /\ [Next]_vars => IInv'
  BY NextStep
<1> QED BY <1>1, <1>2, PTL DEF Spec

(* ML-KEM.c, K-PKE.c: every key and every ciphertext that a call of any    *)
(* thread makes has the algorithm and the length of the parameter set its  *)
(* caller named, however the calls interleave.                             *)
THEOREM SetsStayApart == Spec => []SetsNeverMix
<1>1. IInv => SetsNeverMix
  BY DEF IInv
<1> QED BY <1>1, Invariant, PTL

----------------------------------------------------------------------------
(* What the calls keep for their results to be right.                      *)

(* A value the random source gave: nothing a failed decryption yields.     *)
Drawn(v) ==
    /\ v.src \in {"os", "kat"}
    /\ v = [src |-> v.src, seed |-> v.seed, at |-> v.at, requests |-> v.requests]

KeyRight(k) ==
    /\ k.alg \in Algs /\ k.sk = k.pk
    /\ k.pk = Encoding(k.alg, k.pk.of.coins)

SentRight(s) ==
    /\ s.alg \in Algs /\ Drawn(s.ct.m)
    /\ s.pk = Beginning(s.pk, s.alg)
    /\ s.ct = Encrypt(s.alg, s.pk, s.ct.m, Coins(s.ct.m, s.pk))
    /\ s.ss = Secret(s.ct.m, s.pk)

(* ct is what a decapsulation reads of s.ct or of a changed s.ct.          *)
Arrived(ct, alg, s) ==
    ct = [to |-> s.ct.to, m |-> s.ct.m, coins |-> s.ct.coins, len |-> Size[alg],
          flip |-> ct.flip]

Opens(alg, sk, ct, K, S) ==
    /\ \E k \in K : SameFamily(alg, k.alg) /\ sk = Beginning(k.sk, alg)
    /\ \E s \in S : Arrived(ct, alg, s)

(* What all three schemes answer.                                          *)
Accepts(alg, sk, ct) == Genuine(alg, sk, ct, Decrypt(alg, sk, ct))

Answer(alg, sk, ct) ==
    IF Accepts(alg, sk, ct) THEN Secret(Decrypt(alg, sk, ct), PublicOf(sk))
    ELSE Rejection(sk, ct)

OpenedRight(o, K, S) ==
    Opens(o.alg, o.sk, o.ct, K, S) /\ o.ss = Answer(o.alg, o.sk, o.ct)

(* A failed decryption never gives a message that was sent.                *)
LEMMA GarbledDiffers ==
    ASSUME NEW v, Drawn(v)
    PROVE  Garbled(v) # v
<1>1. PICK src, seed, at, requests :
        /\ src \in {"os", "kat"}
        /\ v = [src |-> src, seed |-> seed, at |-> at, requests |-> requests]
  BY DEF Drawn
<1>2. Garbled(v) = [src |-> "garbled", seed |-> seed, at |-> at, requests |-> requests]
  BY <1>1 DEF Garbled
<1>3. v.src # "garbled" /\ Garbled(v).src = "garbled"
  BY <1>1, <1>2
<1> QED BY <1>3

(* A private key and a ciphertext are accepted only when the ciphertext is *)
(* one that was sent, unchanged, to the whole key.                         *)
LEMMA AcceptsWhen ==
    ASSUME NEW k, KeyRight(k), NEW s, SentRight(s), NEW alg, SameFamily(alg, k.alg),
           NEW sk, sk = Beginning(k.sk, alg), NEW ct, Arrived(ct, alg, s)
    PROVE  /\ PublicOf(sk) = k.sk
           /\ Accepts(alg, sk, ct) <=>
                 alg = k.alg /\ sk = k.sk /\ s.pk = sk /\ ct = s.ct
           /\ Accepts(alg, sk, ct) => Decrypt(alg, sk, ct) = s.ct.m
           /\ ct.flip = "none" /\ ct.coins = Coins(Decrypt(alg, sk, ct), PublicOf(sk))
                 => Accepts(alg, sk, ct)
<1> DEFINE m == s.ct.m
<1>1. PICK coins : k.sk = Encoding(k.alg, coins)
  BY DEF KeyRight
<1> DEFINE of == [made |-> k.alg, coins |-> coins]
<1>2. /\ k.sk = [of |-> of, len |-> Size[k.alg], ok |-> TRUE]
      /\ of.made = k.alg /\ of.coins = coins /\ k.alg \in Algs
  BY <1>1 DEF Encoding, KeyRight
<1> HIDE DEF of
<1>3. k.sk.of = of /\ k.sk.len = Size[k.alg] /\ k.sk.ok
  BY <1>2
<1>4. sk = [of |-> of, len |-> Size[alg], ok |-> TRUE]
  BY <1>2 DEF Beginning
<1>5. sk.of = of /\ sk.len = Size[alg] /\ sk.ok
  BY <1>4
<1>6. PublicOf(sk) = k.sk
  BY <1>1, <1>2, <1>5 DEF PublicOf
<1>7. Whole(sk) => alg = k.alg
  BY <1>2, <1>5, KemConstants DEF Whole, SameFamily
<1>8. alg = k.alg => sk = k.sk /\ Whole(sk) /\ sk.of.made = alg
  BY <1>2, <1>4, <1>5 DEF Whole
<1>9. /\ s.pk = [of |-> s.pk.of, len |-> Size[s.alg], ok |-> s.pk.ok]
      /\ s.ct = [to |-> s.pk, m |-> m, coins |-> [m |-> m, pk |-> s.pk],
                 len |-> Size[s.alg], flip |-> "none"]
  BY DEF SentRight, Encrypt, Beginning, Coins
<1>10. ct = [to |-> s.pk, m |-> m, coins |-> [m |-> m, pk |-> s.pk], len |-> Size[alg],
            flip |-> ct.flip]
  BY <1>9 DEF Arrived
<1>11. Garbled(m) # m
  BY GarbledDiffers DEF SentRight
<1> HIDE DEF m
<1>12. ct.m = m /\ ct.to = s.pk /\ ct.coins.m = m /\ ct.len = Size[alg]
  BY <1>10
<1>13. Decrypt(alg, sk, ct) = m => alg = k.alg /\ s.pk = k.sk
  BY <1>6, <1>7, <1>11, <1>12 DEF Decrypt
<1>14. Accepts(alg, sk, ct) => Decrypt(alg, sk, ct) = m /\ ct.flip = "none"
  BY <1>12 DEF Accepts, Genuine, Encrypt
<1>15. ASSUME alg = k.alg, s.pk = k.sk, ct.flip = "none"
       PROVE  ct = s.ct /\ Decrypt(alg, sk, ct) = m /\ Accepts(alg, sk, ct)
  <2>1. Size[s.alg] = Size[alg]
    BY <1>3, <1>9, <1>15
  <2>2. ct = s.ct
    BY <1>9, <1>10, <1>15, <2>1
  <2>3. Decrypt(alg, sk, ct) = m
    BY <1>6, <1>8, <1>12, <1>15 DEF Decrypt
  <2>4. Encrypt(alg, PublicOf(sk), m, Coins(m, PublicOf(sk))) = ct
    <3>1. PublicOf(sk) = s.pk
      BY <1>6, <1>15
    <3>2. Beginning(s.pk, alg) = s.pk
      BY <1>9, <2>1 DEF Beginning
    <3> QED BY <1>10, <1>15, <3>1, <3>2 DEF Encrypt, Coins
  <2> QED BY <2>2, <2>3, <2>4 DEF Accepts, Genuine
<1>16. ASSUME ct.flip = "none", ct.coins = Coins(Decrypt(alg, sk, ct), PublicOf(sk))
       PROVE  Accepts(alg, sk, ct)
  <2>1. Decrypt(alg, sk, ct) = m
    BY <1>12, <1>16 DEF Coins
  <2> QED BY <1>13, <1>15, <1>16, <2>1
<1>17. ct = s.ct => ct.flip = "none"
  BY <1>9
<1> QED BY <1>6, <1>8, <1>13, <1>14, <1>15, <1>16, <1>17 DEF m

(* A secret that was sent names its key and its ciphertext.                *)
LEMMA SecretsAreApart ==
    ASSUME NEW s, SentRight(s), NEW u, SentRight(u)
    PROVE  u.ss = s.ss <=> (u.pk = s.pk /\ u.ct = s.ct)
<1>1. /\ s.pk.len = Size[s.alg] /\ u.pk.len = Size[u.alg]
      /\ s.ct = [to |-> s.pk, m |-> s.ct.m, coins |-> [m |-> s.ct.m, pk |-> s.pk],
                 len |-> Size[s.alg], flip |-> "none"]
      /\ u.ct = [to |-> u.pk, m |-> u.ct.m, coins |-> [m |-> u.ct.m, pk |-> u.pk],
                 len |-> Size[u.alg], flip |-> "none"]
  BY DEF SentRight, Encrypt, Beginning, Coins
<1>2. /\ s.ss.m = s.ct.m /\ s.ss.from = s.pk /\ u.ss.m = u.ct.m /\ u.ss.from = u.pk
      /\ s.ss = Secret(s.ct.m, s.pk) /\ u.ss = Secret(u.ct.m, u.pk)
  BY DEF SentRight, Secret
<1>3. ASSUME u.ss = s.ss PROVE u.pk = s.pk /\ u.ct = s.ct
  <2>1. u.ct.m = s.ct.m /\ u.pk = s.pk
    BY <1>2, <1>3
  <2> QED BY <1>1, <2>1
<1>4. ASSUME u.pk = s.pk, u.ct = s.ct PROVE u.ss = s.ss
  BY <1>2, <1>4
<1> QED BY <1>3, <1>4

----------------------------------------------------------------------------
(* The calls.                                                              *)

Ops == {"keygen", "encaps", "decaps"}
Statuses == {"NONE", "SUCCESS"} \cup Refusals \cup Failures

(* Coins are drawn until the scheme has what it uses.                      *)
CoinsFit(step, coins, wanted) ==
    /\ step = "draw" =>
          \/ coins = <<>>
          \/ wanted = 2 /\ coins = <<coins[1]>> /\ Drawn(coins[1])
    /\ step = "make" =>
          \/ wanted = 1 /\ coins = <<coins[1]>> /\ Drawn(coins[1])
          \/ wanted = 2 /\ coins = <<coins[1], coins[2]>>
    /\ step \in {"open", "reencrypt"} => coins = <<>>

CoinsRight(c) == CoinsFit(c.step, c.coins, Wanted(c))

(* A call under way, its output buffers and its result.                    *)
InCall(c, o, r, K, S) ==
    /\ Shaped(c) /\ c.op \in Ops /\ c.alg \in Algs /\ r = "NONE"
    /\ c.step \in {"draw", "make", "open", "reencrypt"}
    /\ c.op = "decaps" <=> c.step \in {"open", "reencrypt"}
    /\ DOMAIN o = Buffers(c.op)
    /\ CoinsRight(c)
    /\ c.op = "encaps" => c.key = Beginning(c.key, c.alg)
    /\ c.op = "decaps" => Opens(c.alg, c.key, c.ct, K, S)
    /\ c.step = "reencrypt" =>
          /\ Family[c.alg] = "MLKEM"
          /\ c.msg = Decrypt(c.alg, c.key, c.ct)
          /\ o = [ss |-> Secret(c.msg, PublicOf(c.key))]

Clear(o, r) ==
    \A b \in DOMAIN o :
        /\ r \in Failures => o[b] = Zero
        /\ r \in Refusals => o[b] = Caller
        /\ r = "SUCCESS"  => o[b] \notin {Zero, Caller}

(* A thread whose call has ended.                                          *)
Settled(c, o, r) ==
    /\ c = Idle /\ r \in Statuses
    /\ DOMAIN o \in {{"pk", "sk"}, {"ss", "ct"}, {"ss"}}
    /\ Clear(o, r)

ThreadRight(c, o, r, K, S) == Settled(c, o, r) \/ InCall(c, o, r, K, S)

ResultsRight ==
    /\ \A k \in keys : KeyRight(k)
    /\ \A s \in sent : SentRight(s)
    /\ \A o \in opened : OpenedRight(o, keys, sent)

(* The second inductive invariant, on top of IInv.                         *)
CallsRight ==
    /\ call = [t \in Threads |-> call[t]]
    /\ out = [t \in Threads |-> out[t]]
    /\ ret = [t \in Threads |-> ret[t]]
    /\ \A t \in Threads : ThreadRight(call[t], out[t], ret[t], keys, sent)
    /\ ResultsRight

(* Results are only ever added, and what was right stays right.            *)
LEMMA StillOpens ==
    ASSUME NEW alg, NEW sk, NEW ct, NEW K, NEW S, NEW K2, NEW S2,
           K \subseteq K2, S \subseteq S2, Opens(alg, sk, ct, K, S)
    PROVE  Opens(alg, sk, ct, K2, S2)
BY DEF Opens

(* What was right of a thread stays right when results are added.          *)
LEMMA StillRight ==
    ASSUME NEW c, NEW o, NEW r, NEW K, NEW S, NEW K2, NEW S2,
           K \subseteq K2, S \subseteq S2, ThreadRight(c, o, r, K, S)
    PROVE  ThreadRight(c, o, r, K2, S2)
<1>1. CASE Settled(c, o, r)
  BY <1>1 DEF ThreadRight
<1>2. CASE InCall(c, o, r, K, S)
  <2>1. c.op = "decaps" => Opens(c.alg, c.key, c.ct, K2, S2)
    BY <1>2, StillOpens DEF InCall
  <2> QED BY <1>2, <2>1 DEF InCall, ThreadRight
<1> QED BY <1>1, <1>2 DEF ThreadRight

(* A step of thread t leaves the other threads right.                      *)
LEMMA StepIsRight ==
    ASSUME CallsRight, NEW t \in Threads, NEW c, NEW o, NEW r,
           call' = [call EXCEPT ![t] = c], out' = [out EXCEPT ![t] = o],
           ret' = [ret EXCEPT ![t] = r],
           keys \subseteq keys', sent \subseteq sent', ResultsRight',
           ThreadRight(c, o, r, keys', sent')
    PROVE  CallsRight'
<1>1. ASSUME NEW u \in Threads
      PROVE  ThreadRight(call'[u], out'[u], ret'[u], keys', sent')
  <2>1. CASE u = t
    BY <2>1 DEF CallsRight
  <2>2. CASE u # t
    <3>1. call'[u] = call[u] /\ out'[u] = out[u] /\ ret'[u] = ret[u]
      BY <2>2 DEF CallsRight
    <3>2. ThreadRight(call[u], out[u], ret[u], keys, sent)
      BY DEF CallsRight
    <3> QED BY <3>1, <3>2, StillRight
  <2> QED BY <2>1, <2>2
<1>2. /\ call' = [u \in Threads |-> call'[u]]
      /\ out' = [u \in Threads |-> out'[u]]
      /\ ret' = [u \in Threads |-> ret'[u]]
  BY DEF CallsRight
<1> QED BY <1>1, <1>2 DEF CallsRight

(* Results that do not change stay right.                                  *)
LEMMA ResultsKept ==
    ASSUME CallsRight, UNCHANGED results
    PROVE  keys \subseteq keys' /\ sent \subseteq sent' /\ ResultsRight'
BY DEF CallsRight, ResultsRight, results

(* A call that ends without a result, with its outputs as Clear says.      *)
LEMMA EndsRight ==
    ASSUME CallsRight, NEW t \in Threads, NEW op \in Ops, NEW status, NEW x,
           \/ status \in Failures /\ x = Zero
           \/ status \in Refusals /\ x = Caller,
           Returns(t, status, Filled(op, x)), UNCHANGED results
    PROVE  CallsRight'
<1> DEFINE o == Filled(op, x)
<1>1. DOMAIN o = Buffers(op) /\ \A b \in DOMAIN o : o[b] = x
  BY DEF Filled
<1>2. DOMAIN o \in {{"pk", "sk"}, {"ss", "ct"}, {"ss"}}
  BY <1>1 DEF Buffers, Ops
<1> HIDE DEF o
<1>3. Clear(o, status)
  BY <1>1 DEF Clear, Failures, Refusals
<1>4. Settled(Idle, o, status)
  BY <1>2, <1>3 DEF Settled, Statuses
<1>5. /\ call' = [call EXCEPT ![t] = Idle] /\ ret' = [ret EXCEPT ![t] = status]
      /\ out' = [out EXCEPT ![t] = o]
  BY DEF Returns, o
<1> QED BY <1>4, <1>5, ResultsKept, StepIsRight DEF ThreadRight

(* A refused call leaves its buffers alone.                                *)
LEMMA RefusesRight ==
    ASSUME CallsRight, NEW t \in Threads, NEW op \in Ops, NEW status \in Refusals,
           Refuses(t, op, status)
    PROVE  CallsRight'
BY EndsRight DEF Refuses

(* A failed call clears its buffers.                                       *)
LEMMA FailsRight ==
    ASSUME CallsRight, NEW t \in Threads, call[t].op \in Ops, NEW status \in Failures,
           Fails(t, status)
    PROVE  CallsRight'
BY EndsRight DEF Fails, Cleared

(* What the argument checks can answer.                                    *)
LEMMA RefusalKinds ==
    ASSUME NEW alg, NEW null, NEW fits, NEW overlap
    PROVE  Refusal(alg, null, fits, overlap) \in Refusals \cup {"SUCCESS"}
BY DEF Refusal, Refusals

(* A call whose arguments are accepted.                                    *)
LEMMA EntersRight ==
    ASSUME CallsRight, NEW t \in Threads, NEW op \in Ops, NEW alg \in Algs,
           NEW key, NEW ct, NEW step,
           step = IF op = "decaps" THEN "open" ELSE "draw",
           op = "encaps" => key = Beginning(key, alg),
           op = "decaps" => Opens(alg, key, ct, keys, sent),
           Enters(t, op, alg, key, ct, step)
    PROVE  CallsRight'
<1> DEFINE c == [op |-> op, alg |-> alg, step |-> step, key |-> key, ct |-> ct,
                 coins |-> <<>>, msg |-> None]
           o == Filled(op, Caller)
<1>1. /\ c.op = op /\ c.alg = alg /\ c.step = step /\ c.key = key /\ c.ct = ct
      /\ c.coins = <<>> /\ Shaped(c)
  BY DEF Shaped
<1>2. DOMAIN o = Buffers(op)
  BY DEF Filled
<1>3. /\ call' = [call EXCEPT ![t] = c] /\ out' = [out EXCEPT ![t] = o]
      /\ ret' = [ret EXCEPT ![t] = "NONE"] /\ UNCHANGED results
  BY DEF Enters
<1> HIDE DEF c, o
<1>4. CoinsRight(c)
  BY <1>1 DEF CoinsRight, CoinsFit
<1>5. InCall(c, o, "NONE", keys, sent)
  BY <1>1, <1>2, <1>4 DEF InCall, Ops
<1>6. keys' = keys /\ sent' = sent
  BY <1>3 DEF results
<1> QED BY <1>3, <1>5, <1>6, ResultsKept, StepIsRight DEF ThreadRight

----------------------------------------------------------------------------
(* The steps keep the calls right.                                         *)

(* A thread with a step to take is in a call.                              *)
LEMMA UnderWay ==
    ASSUME CallsRight, NEW t \in Threads, call[t].step # "none"
    PROVE  InCall(call[t], out[t], ret[t], keys, sent)
BY DEF CallsRight, ThreadRight, Settled, Idle

(* Key generation begins, or is refused.                                   *)
LEMMA KeyGenRight ==
    ASSUME CallsRight, NEW t \in Threads, NEW alg, NEW null, NEW fits, NEW overlap,
           KeyGen(t, alg, null, fits, overlap)
    PROVE  CallsRight'
<1> DEFINE refusal == Refusal(alg, null, fits, overlap)
<1>1. CASE refusal # "SUCCESS" /\ Refuses(t, "keygen", refusal)
  <2>1. refusal \in Refusals /\ "keygen" \in Ops
    BY <1>1, RefusalKinds DEF Ops
  <2> HIDE DEF refusal
  <2> QED BY <1>1, <2>1, RefusesRight
<1>2. CASE refusal = "SUCCESS" /\ Enters(t, "keygen", alg, None, None, "draw")
  <2>1. alg \in Algs /\ "keygen" \in Ops
    BY <1>2, NamedOnly DEF Ops
  <2> QED BY <1>2, <2>1, EntersRight
<1> QED BY <1>1, <1>2 DEF KeyGen

(* Encapsulation begins, is refused, or finds a bad public key.            *)
LEMMA EncapsRight ==
    ASSUME CallsRight, NEW t \in Threads, NEW alg, NEW null, NEW pk, NEW fits, NEW overlap,
           Encaps(t, alg, null, pk, fits, overlap)
    PROVE  CallsRight'
<1> DEFINE refusal == Refusal(alg, null, fits /\ Fits(pk.len, alg), overlap)
<1>0. "encaps" \in Ops
  BY DEF Ops
<1>1. CASE refusal # "SUCCESS" /\ Refuses(t, "encaps", refusal)
  <2>1. refusal \in Refusals
    BY <1>1, RefusalKinds
  <2> HIDE DEF refusal
  <2> QED BY <1>0, <1>1, <2>1, RefusesRight
<1>2. CASE Returns(t, "INVALID_KEY", Cleared("encaps")) /\ UNCHANGED results
  BY <1>0, <1>2, EndsRight DEF Cleared, Failures
<1>3. CASE /\ refusal = "SUCCESS"
           /\ Enters(t, "encaps", alg, Beginning(pk, alg), None, "draw")
  <2>1. alg \in Algs
    BY <1>3, NamedOnly
  <2>2. Beginning(pk, alg) = Beginning(Beginning(pk, alg), alg)
    BY DEF Beginning
  <2> QED BY <1>0, <1>3, <2>1, <2>2, EntersRight
<1> QED BY <1>1, <1>2, <1>3 DEF Encaps

(* The key may be damaged and the ciphertext changed, but both come from a *)
(* generation and an encapsulation of the family.                          *)
LEMMA DecapsRight ==
    ASSUME CallsRight, NEW t \in Threads, NEW alg, NEW null, NEW sk, NEW ct, NEW overlap,
           Decaps(t, alg, null, sk, ct, overlap),
           NEW k \in keys, alg \in Algs => SameFamily(alg, k.alg), sk \in Damaged(k.sk),
           NEW s \in sent, ct \in Changed(s.ct)
    PROVE  CallsRight'
<1> DEFINE refusal == Refusal(alg, null, Fits(sk.len, alg) /\ Fits(ct.len, alg), overlap)
<1>0. "decaps" \in Ops
  BY DEF Ops
<1>1. CASE refusal # "SUCCESS" /\ Refuses(t, "decaps", refusal)
  <2>1. refusal \in Refusals
    BY <1>1, RefusalKinds
  <2> HIDE DEF refusal
  <2> QED BY <1>0, <1>1, <2>1, RefusesRight
<1>2. CASE Returns(t, "INVALID_KEY", Cleared("decaps")) /\ UNCHANGED results
  BY <1>0, <1>2, EndsRight DEF Cleared, Failures
<1>3. CASE /\ refusal = "SUCCESS" /\ KeyAccepted(alg, sk)
           /\ Enters(t, "decaps", alg, Beginning(sk, alg), BeginningOf(ct, alg), "open")
  <2>1. alg \in Algs
    BY <1>3, NamedOnly
  <2>2. sk = k.sk
    <3>1. sk.ok
      BY <1>3 DEF KeyAccepted, Whole
    <3>2. KeyRight(k)
      BY DEF CallsRight, ResultsRight
    <3>3. PICK of, len : k.sk = [of |-> of, len |-> len, ok |-> TRUE]
      BY <3>2 DEF KeyRight, Encoding
    <3>4. [k.sk EXCEPT !.ok = FALSE].ok = FALSE
      BY <3>3
    <3> QED BY <3>1, <3>4 DEF Damaged
  <2>3. Arrived(BeginningOf(ct, alg), alg, s)
    <3>0. s.ct = Encrypt(s.alg, s.pk, s.ct.m, Coins(s.ct.m, s.pk))
      BY DEF CallsRight, ResultsRight, SentRight
    <3>1. PICK to, m, coins, len, flip :
            s.ct = [to |-> to, m |-> m, coins |-> coins, len |-> len, flip |-> flip]
      BY <3>0 DEF Encrypt
    <3>2. PICK changed :
            ct = [to |-> to, m |-> m, coins |-> coins, len |-> len, flip |-> changed]
      BY <3>1 DEF Changed
    <3>3. BeginningOf(ct, alg) =
            [to |-> to, m |-> m, coins |-> coins, len |-> Size[alg], flip |-> changed]
      BY <3>2 DEF BeginningOf
    <3> QED BY <3>1, <3>3 DEF Arrived
  <2>4. Opens(alg, Beginning(sk, alg), BeginningOf(ct, alg), keys, sent)
    BY <2>1, <2>2, <2>3 DEF Opens
  <2> QED BY <1>0, <1>3, <2>1, <2>4, EntersRight
<1> QED BY <1>1, <1>2, <1>3 DEF Decaps

(* Whatever a caller passes.                                               *)
LEMMA CallRight ==
    ASSUME CallsRight, NEW t \in Threads, SomeCall(t)
    PROVE  CallsRight'
<1>1. ASSUME NEW alg, NEW null, NEW fits, NEW overlap,
             KeyGen(t, alg, null, fits, overlap)
      PROVE  CallsRight'
  BY <1>1, KeyGenRight
<1>2. ASSUME NEW alg, NEW null, NEW pk, NEW fits, NEW overlap,
             Encaps(t, alg, null, pk, fits, overlap)
      PROVE  CallsRight'
  BY <1>2, EncapsRight
<1>3. ASSUME NEW alg, NEW null, NEW overlap,
             \E k \in keys, s \in sent :
               /\ alg \in Algs => SameFamily(alg, k.alg)
               /\ \E sk \in Damaged(k.sk),
                     ct \in IF null \/ overlap THEN {s.ct} ELSE Changed(s.ct) :
                      Decaps(t, alg, null, sk, ct, overlap)
      PROVE  CallsRight'
  <2>1. PICK k \in keys, s \in sent :
               /\ alg \in Algs => SameFamily(alg, k.alg)
               /\ \E sk \in Damaged(k.sk),
                     ct \in IF null \/ overlap THEN {s.ct} ELSE Changed(s.ct) :
                      Decaps(t, alg, null, sk, ct, overlap)
    BY <1>3
  <2>2. PICK sk \in Damaged(k.sk),
             ct \in IF null \/ overlap THEN {s.ct} ELSE Changed(s.ct) :
                Decaps(t, alg, null, sk, ct, overlap)
    BY <2>1
  <2>3. ct \in Changed(s.ct)
    BY <2>2 DEF Changed
  <2> QED BY <2>1, <2>2, <2>3, DecapsRight
<1> QED BY ZenonT(40), <1>1, <1>2, <1>3 DEF SomeCall

(* What a draw gives is a value the source drew.                           *)
LEMMA ValueIsDrawn ==
    ASSUME NEW t, NEW n
    PROVE  Drawn(Value(t, n))
<1>1. CASE kat[t].active
  <2>1. PICK seed, requests :
          Value(t, n) = [src |-> "kat", seed |-> seed, at |-> 0, requests |-> requests]
    BY <1>1 DEF Value
  <2> QED BY <2>1 DEF Drawn
<1>2. CASE ~ kat[t].active
  <2>1. PICK seed, at : Value(t, n) = [src |-> "os", seed |-> seed, at |-> at, requests |-> <<>>]
    BY <1>2 DEF Value
  <2> QED BY <2>1 DEF Drawn
<1> QED BY <1>1, <1>2

(* A draw adds one value, or none when NTRU+ cannot use it.                *)
LEMMA DrawRight ==
    ASSUME CallsRight, NEW t \in Threads, Draw(t)
    PROVE  CallsRight'
<1> DEFINE c == call[t]
           v == Value(t, Request(c))
           coins == IF Usable(c, v) THEN Append(c.coins, v) ELSE c.coins
           step == IF Len(coins) = Wanted(c) THEN "make" ELSE "draw"
           d == [op |-> c.op, alg |-> c.alg, step |-> step, key |-> c.key,
                 ct |-> c.ct, coins |-> coins, msg |-> c.msg]
<1>1. InCall(c, out[t], ret[t], keys, sent) /\ c.step = "draw"
  BY UnderWay DEF Draw
<1>2. call' = [call EXCEPT ![t] = d]
  <2>1. call' = [call EXCEPT ![t] = [c EXCEPT !.coins = coins, !.step = step]]
    BY DEF Draw, CallsRight
  <2>2. PICK op, alg, st, key, ct, cs, msg :
          c = [op |-> op, alg |-> alg, step |-> st, key |-> key,
               ct |-> ct, coins |-> cs, msg |-> msg]
    BY <1>1 DEF InCall, Shaped
  <2> HIDE DEF coins, step, c
  <2>3. [c EXCEPT !.coins = coins] =
          [op |-> op, alg |-> alg, step |-> st, key |-> key,
           ct |-> ct, coins |-> coins, msg |-> msg]
    BY <2>2
  <2> DEFINE drawn == [c EXCEPT !.coins = coins]
  <2>4. [drawn EXCEPT !.step = step] =
          [op |-> op, alg |-> alg, step |-> step, key |-> key,
           ct |-> ct, coins |-> coins, msg |-> msg]
    <3> HIDE DEF drawn
    <3>1. drawn = [op |-> op, alg |-> alg, step |-> st, key |-> key,
                   ct |-> ct, coins |-> coins, msg |-> msg]
      BY <2>3 DEF drawn
    <3> QED BY <3>1
  <2>5. [c EXCEPT !.coins = coins, !.step = step] = d
    BY <2>2, <2>4
  <2> QED BY <2>1, <2>5
<1>3. /\ d.op = c.op /\ d.alg = c.alg /\ d.step = step /\ d.key = c.key /\ d.ct = c.ct
      /\ d.coins = coins /\ Shaped(d)
  BY DEF Shaped
<1>4. Drawn(v)
  BY ValueIsDrawn
<1>5. Wanted(c) \in {1, 2}
  BY DEF Wanted
<1> HIDE DEF v, d
<1>6. CoinsFit(step, coins, Wanted(c)) /\ step \in {"draw", "make"}
  <2>1. CASE c.coins = <<>>
    <3>1. coins = <<>> \/ coins = <<v>>
      BY <2>1
    <3> HIDE DEF coins
    <3>2. CASE coins = <<>>
      BY <1>5, <3>2 DEF CoinsFit
    <3>3. CASE coins = <<v>>
      BY <1>4, <1>5, <3>3 DEF CoinsFit
    <3> QED BY <3>1, <3>2, <3>3
  <2>2. CASE Wanted(c) = 2 /\ c.coins = <<c.coins[1]>> /\ Drawn(c.coins[1])
    <3>1. PICK w : Drawn(w) /\ c.coins = <<w>>
      BY <2>2
    <3>2. Append(<<w>>, v) = <<w, v>>
      BY AppendToOne
    <3>3. coins = <<w>> \/ coins = <<w, v>>
      BY <3>1, <3>2
    <3> HIDE DEF coins
    <3>4. CASE coins = <<w>>
      BY <2>2, <3>1, <3>4 DEF CoinsFit
    <3>5. CASE coins = <<w, v>>
      BY <2>2, <3>5 DEF CoinsFit
    <3> QED BY <3>3, <3>4, <3>5
  <2> QED BY <1>1, <2>1, <2>2 DEF InCall, CoinsRight, CoinsFit
<1> HIDE DEF coins, step
<1>7. Wanted(d) = Wanted(c)
  BY <1>3 DEF Wanted
<1>8. CoinsRight(d)
  BY <1>3, <1>6, <1>7 DEF CoinsRight
<1>9. InCall(d, out[t], ret[t], keys, sent)
  BY <1>1, <1>3, <1>6, <1>8 DEF InCall
<1>10. out' = [out EXCEPT ![t] = out[t]] /\ ret' = [ret EXCEPT ![t] = ret[t]] /\ UNCHANGED results
  BY DEF Draw, CallsRight
<1>11. keys' = keys /\ sent' = sent
  BY <1>10 DEF results
<1> QED BY <1>2, <1>9, <1>10, <1>11, ResultsKept, StepIsRight DEF ThreadRight

(* The source fails: the outputs are cleared.                              *)
LEMMA DrawFailsRight ==
    ASSUME CallsRight, NEW t \in Threads, DrawFails(t)
    PROVE  CallsRight'
<1>1. call[t].op \in Ops
  BY UnderWay DEF DrawFails, InCall
<1> QED BY <1>1, FailsRight DEF DrawFails, Failures

(* A workspace or a sampler fails: the outputs are cleared.                *)
LEMMA WorkFailsRight ==
    ASSUME CallsRight, NEW t \in Threads, WorkFails(t)
    PROVE  CallsRight'
<1>1. call[t].op \in Ops
  BY UnderWay DEF WorkFails, InCall
<1> QED BY <1>1, FailsRight DEF WorkFails, Failures

(* A call that ends with results in its buffers.                           *)
LEMMA SucceedsRight ==
    ASSUME CallsRight, NEW t \in Threads, NEW o,
           DOMAIN o \in {{"pk", "sk"}, {"ss", "ct"}, {"ss"}},
           \A b \in DOMAIN o : o[b] \notin {Zero, Caller},
           Returns(t, "SUCCESS", o),
           keys \subseteq keys', sent \subseteq sent', ResultsRight'
    PROVE  CallsRight'
<1>1. Settled(Idle, o, "SUCCESS")
  BY DEF Settled, Clear, Statuses, Failures, Refusals
<1> QED BY <1>1, StepIsRight DEF Returns, ThreadRight

(* No key, ciphertext or secret looks like a cleared buffer.               *)
LEMMA NotAnObject ==
    /\ \A alg, coins : Encoding(alg, coins) \notin {Zero, Caller}
    /\ \A alg, pk, m, coins : Encrypt(alg, pk, m, coins) \notin {Zero, Caller}
    /\ \A m, pk : Secret(m, pk) \notin {Zero, Caller}
    /\ \A sk, ct : Rejection(sk, ct) \notin {Zero, Caller}
<1>1. ASSUME NEW x \in {Zero, Caller} PROVE DOMAIN x = {"holds"}
  BY DEF Zero, Caller
<1>2. ASSUME NEW alg, NEW coins PROVE Encoding(alg, coins) \notin {Zero, Caller}
  <2>1. DOMAIN Encoding(alg, coins) = {"of", "len", "ok"}
    BY DEF Encoding
  <2> QED BY <1>1, <2>1
<1>3. ASSUME NEW alg, NEW pk, NEW m, NEW coins
      PROVE  Encrypt(alg, pk, m, coins) \notin {Zero, Caller}
  <2>1. "to" \in DOMAIN Encrypt(alg, pk, m, coins)
    BY DEF Encrypt
  <2> QED BY <1>1, <2>1
<1>4. ASSUME NEW m, NEW pk
      PROVE  Secret(m, pk) \notin {Zero, Caller} /\ Rejection(m, pk) \notin {Zero, Caller}
  <2>1. "kind" \in DOMAIN Secret(m, pk) /\ "kind" \in DOMAIN Rejection(m, pk)
    BY DEF Secret, Rejection
  <2> QED BY <1>1, <2>1
<1> QED BY <1>2, <1>3, <1>4

(* The atomic KEM's next-state relation, and its steps.                    *)
LEMMA MakeKeyRight ==
    ASSUME CallsRight, IInv, NEW t \in Threads, MakeKey(t)
    PROVE  CallsRight' /\ Promise!GenerateKey
<1> DEFINE c == call[t]
           key == Encoding(c.alg, c.coins)
           k == [alg |-> c.alg, pk |-> key, sk |-> key]
<1>1. Parameters(t) = c.alg /\ c.alg \in Algs
  BY ParametersAreNamed DEF MakeKey
<1>2. /\ Returns(t, "SUCCESS", [pk |-> key, sk |-> key])
      /\ keys' = keys \cup {k} /\ UNCHANGED <<sent, opened>>
  BY <1>1 DEF MakeKey
<1>3. KeyRight(k)
  <2>1. k.alg = c.alg /\ k.pk = key /\ k.sk = key
    OBVIOUS
  <2>2. key.of.coins = c.coins
    BY DEF Encoding
  <2> HIDE DEF k
  <2> QED BY <1>1, <2>1, <2>2 DEF KeyRight
<1> HIDE DEF k
<1>4. ResultsRight'
  <2>1. \A o \in opened : OpenedRight(o, keys', sent')
    BY <1>2, StillOpens DEF CallsRight, ResultsRight, OpenedRight
  <2> QED BY <1>2, <1>3, <2>1 DEF CallsRight, ResultsRight
<1>5. CallsRight'
  <2> DEFINE o == [pk |-> key, sk |-> key]
  <2>1. DOMAIN o = {"pk", "sk"} /\ \A b \in DOMAIN o : o[b] = key
    OBVIOUS
  <2>2. key \notin {Zero, Caller}
    BY NotAnObject
  <2> HIDE DEF o
  <2>3. Returns(t, "SUCCESS", o)
    BY <1>2 DEF o
  <2> QED BY <1>2, <1>4, <2>1, <2>2, <2>3, SucceedsRight
<1>6. \A j \in keys : j.pk = k.pk <=> j.sk = k.sk
  BY <1>3 DEF CallsRight, ResultsRight, KeyRight
<1> QED BY <1>2, <1>5, <1>6 DEF Promise!GenerateKey

(* An encapsulation is one step of the atomic KEM.                         *)
LEMMA MakeCiphertextRight ==
    ASSUME CallsRight, IInv, NEW t \in Threads, MakeCiphertext(t)
    PROVE  CallsRight' /\ (Promise!Encapsulate \/ UNCHANGED results)
<1> DEFINE c == call[t]
           m == c.coins[1]
           ct == Encrypt(c.alg, c.key, m, Coins(m, c.key))
           ss == Secret(m, c.key)
           s == [alg |-> c.alg, pk |-> c.key, ct |-> ct, ss |-> ss]
<1>1. Parameters(t) = c.alg /\ c.alg \in Algs
  BY ParametersAreNamed DEF MakeCiphertext
<1>2. InCall(c, out[t], ret[t], keys, sent) /\ c.op = "encaps" /\ c.step = "make"
  BY UnderWay DEF MakeCiphertext
<1>3. Beginning(c.key, c.alg) = c.key
  BY <1>2 DEF InCall
<1>4. CASE Fails(t, "INVALID_KEY")
  BY <1>2, <1>4, FailsRight DEF Fails, Failures, Ops
<1>5. CASE /\ Returns(t, "SUCCESS", [ss |-> ss, ct |-> ct])
           /\ sent' = sent \cup {s}
           /\ UNCHANGED <<keys, opened>>
  <2>1. Drawn(m)
    <3>1. Wanted(c) = 1
      BY <1>2 DEF Wanted
    <3> QED BY <1>2, <3>1 DEF InCall, CoinsRight, CoinsFit
  <2>2. SentRight(s)
    <3>1. s.alg = c.alg /\ s.pk = c.key /\ s.ct = ct /\ s.ss = ss
      OBVIOUS
    <3>2. ct.m = m
      BY DEF Encrypt
    <3> HIDE DEF s, m
    <3> QED BY <1>1, <1>3, <2>1, <3>1, <3>2 DEF SentRight
  <2> HIDE DEF s
  <2>3. ResultsRight'
    <3>1. \A o \in opened : OpenedRight(o, keys', sent')
      BY <1>5, StillOpens DEF CallsRight, ResultsRight, OpenedRight
    <3> QED BY <1>5, <2>2, <3>1 DEF CallsRight, ResultsRight
  <2>4. CallsRight'
    <3> DEFINE o == [ss |-> ss, ct |-> ct]
    <3>1. DOMAIN o = {"ss", "ct"} /\ \A b \in DOMAIN o : o[b] \in {ss, ct}
      OBVIOUS
    <3>2. ss \notin {Zero, Caller} /\ ct \notin {Zero, Caller}
      BY NotAnObject
    <3> HIDE DEF o, ss, ct
    <3>3. Returns(t, "SUCCESS", o)
      BY <1>5 DEF o
    <3> QED BY <1>5, <2>3, <3>1, <3>2, <3>3, SucceedsRight
  <2>5. \A u \in sent : u.ss = s.ss <=> (u.pk = s.pk /\ u.ct = s.ct)
    BY <2>2, SecretsAreApart DEF CallsRight, ResultsRight
  <2> QED BY <1>5, <2>4, <2>5 DEF Promise!Encapsulate
<1> QED BY <1>1, <1>3, <1>4, <1>5 DEF MakeCiphertext

(* ML-KEM writes the secret of the message it found.                       *)
LEMMA OpenMlkemRight ==
    ASSUME CallsRight, IInv, NEW t \in Threads, OpenMlkem(t)
    PROVE  CallsRight'
<1> DEFINE c == call[t]
           m == Decrypt(Parameters(t), c.key, c.ct)
           d == [op |-> c.op, alg |-> c.alg, step |-> "reencrypt", key |-> c.key,
                 ct |-> c.ct, coins |-> c.coins, msg |-> m]
           o == [ss |-> Secret(m, PublicOf(c.key))]
<1>1. /\ InCall(c, out[t], ret[t], keys, sent) /\ c.op = "decaps" /\ c.step = "open"
      /\ Family[c.alg] = "MLKEM"
  BY UnderWay DEF OpenMlkem
<1>2. call' = [call EXCEPT ![t] = d]
  <2>1. call' = [call EXCEPT ![t] = [c EXCEPT !.msg = m, !.step = "reencrypt"]]
    BY DEF OpenMlkem, CallsRight
  <2>2. PICK op, alg, st, key, ct, cs, msg :
          c = [op |-> op, alg |-> alg, step |-> st, key |-> key,
               ct |-> ct, coins |-> cs, msg |-> msg]
    BY <1>1 DEF InCall, Shaped
  <2> HIDE DEF m, c
  <2> DEFINE told == [c EXCEPT !.msg = m]
  <2>3. told = [op |-> op, alg |-> alg, step |-> st, key |-> key,
                ct |-> ct, coins |-> cs, msg |-> m]
    BY <2>2
  <2>4. [told EXCEPT !.step = "reencrypt"] = d
    <3> HIDE DEF told
    <3> QED BY <2>2, <2>3
  <2> QED BY <2>1, <2>4
<1>3. /\ d.op = c.op /\ d.alg = c.alg /\ d.step = "reencrypt" /\ d.key = c.key
      /\ d.ct = c.ct /\ d.coins = c.coins /\ d.msg = m /\ Shaped(d)
  BY DEF Shaped
<1>4. out' = [out EXCEPT ![t] = o] /\ ret' = [ret EXCEPT ![t] = ret[t]] /\ UNCHANGED results
  BY DEF OpenMlkem, CallsRight
<1>5. DOMAIN o = Buffers("decaps")
  BY DEF Buffers
<1> HIDE DEF d
<1>6. CoinsRight(d)
  BY <1>1, <1>3 DEF InCall, CoinsRight, CoinsFit
<1>7. m = Decrypt(c.alg, c.key, c.ct)
  BY ParametersAreNamed, <1>1
<1>8. InCall(d, o, ret[t], keys, sent)
  <2> HIDE DEF m
  <2>1. o = [ss |-> Secret(d.msg, PublicOf(d.key))]
    BY <1>3
  <2> HIDE DEF o
  <2> QED BY <1>1, <1>3, <1>5, <1>6, <1>7, <2>1 DEF InCall
<1>9. keys' = keys /\ sent' = sent
  BY <1>4 DEF results
<1> HIDE DEF o
<1> QED BY <1>2, <1>4, <1>8, <1>9, ResultsKept, StepIsRight DEF ThreadRight

(* Each scheme ends a decapsulation with the same answer, though ML-KEM    *)
(* and SMAUG-T encrypt again and NTRU+ compares the coins it recovered;    *)
(* NTRU+ fails instead of giving another secret.                           *)
LEMMA SchemesAgree ==
    ASSUME CallsRight, IInv, NEW t \in Threads,
           Reencrypt(t) \/ OpenSmaug(t) \/ OpenNtru(t)
    PROVE  LET c == call[t] IN
           /\ InCall(c, out[t], ret[t], keys, sent) /\ c.op = "decaps"
           /\ \/ Fails(t, "AUTHENTICATION_FAILED")
              \/ /\ Delivers(t, Answer(c.alg, c.key, c.ct))
                 /\ Family[c.alg] = "NTRU" => Accepts(c.alg, c.key, c.ct)
<1> DEFINE c == call[t]
<1>1. InCall(c, out[t], ret[t], keys, sent) /\ c.op = "decaps"
  BY UnderWay DEF Reencrypt, OpenSmaug, OpenNtru, InCall
<1>2. CASE Reencrypt(t)
  <2>1. Parameters(t) = c.alg
    BY <1>2, ParametersAreNamed DEF Reencrypt
  <2>2. /\ Family[c.alg] = "MLKEM" /\ c.msg = Decrypt(c.alg, c.key, c.ct)
        /\ out[t].ss = Secret(c.msg, PublicOf(c.key))
    BY <1>1, <1>2 DEF InCall, Reencrypt
  <2> QED BY <1>1, <1>2, <2>1, <2>2 DEF Reencrypt, Answer, Accepts
<1>3. CASE OpenSmaug(t)
  BY <1>1, <1>3 DEF OpenSmaug, Answer, Accepts
<1>4. CASE OpenNtru(t)
  <2> DEFINE m == Decrypt(c.alg, c.key, c.ct)
             good == c.ct.flip # "malformed" /\ Recovered(c.ct) = Coins(m, PublicOf(c.key))
  <2>1. CASE ~ good
    BY <1>1, <1>4, <2>1 DEF OpenNtru
  <2>2. CASE good
    <3>1. c.ct.flip = "none" /\ c.ct.coins = Coins(m, PublicOf(c.key))
      <4>1. DOMAIN None = {"holds"} /\ "pk" \in DOMAIN Coins(m, PublicOf(c.key))
        BY DEF None, Coins
      <4> QED BY <2>2, <4>1 DEF Recovered
    <3>2. PICK k \in keys : SameFamily(c.alg, k.alg) /\ c.key = Beginning(k.sk, c.alg)
      BY <1>1 DEF InCall, Opens
    <3>3. PICK s \in sent : Arrived(c.ct, c.alg, s)
      BY <1>1 DEF InCall, Opens
    <3>4. Accepts(c.alg, c.key, c.ct)
      BY <3>1, <3>2, <3>3, AcceptsWhen DEF CallsRight, ResultsRight
    <3> QED BY <1>1, <1>4, <2>2, <3>4 DEF OpenNtru, Answer
  <2> QED BY <2>1, <2>2
<1> QED BY <1>2, <1>3, <1>4

(* What an opened ciphertext's secret says, with the key pair and the      *)
(* encapsulation it came from.                                             *)
LEMMA AnswerIs ==
    ASSUME ResultsRight, NEW alg, NEW sk, NEW ct, Opens(alg, sk, ct, keys, sent)
    PROVE  /\ alg \in Algs
           /\ \/ /\ Accepts(alg, sk, ct)
                 /\ \E k \in keys : k.sk = sk /\ k.alg = alg
                 /\ \E s \in sent : /\ s.pk = sk /\ s.ct = ct
                                    /\ s.ss = Answer(alg, sk, ct)
              \/ /\ ~ Accepts(alg, sk, ct)
                 /\ Answer(alg, sk, ct) = Rejection(sk, ct)
                 /\ \A s \in sent : s.ct = ct =>
                       ~ \E k \in keys : k.pk = s.pk /\ k.sk = sk
<1>1. PICK k \in keys : SameFamily(alg, k.alg) /\ sk = Beginning(k.sk, alg)
  BY DEF Opens
<1>2. PICK s \in sent : Arrived(ct, alg, s)
  BY DEF Opens
<1>3. KeyRight(k) /\ SentRight(s) /\ alg \in Algs
  BY <1>1 DEF ResultsRight, SameFamily
<1>4. CASE Accepts(alg, sk, ct)
  <2>1. /\ alg = k.alg /\ sk = k.sk /\ s.pk = sk /\ ct = s.ct
        /\ Decrypt(alg, sk, ct) = s.ct.m /\ PublicOf(sk) = s.pk
    BY <1>1, <1>2, <1>3, <1>4, AcceptsWhen
  <2>2. Answer(alg, sk, ct) = s.ss
    BY <1>3, <1>4, <2>1 DEF Answer, SentRight
  <2> QED BY <1>3, <1>4, <2>1, <2>2
<1>5. CASE ~ Accepts(alg, sk, ct)
  <2>1. ASSUME NEW u \in sent, u.ct = ct, NEW j \in keys, j.pk = u.pk, j.sk = sk
        PROVE  FALSE
    <3>1. SentRight(u) /\ KeyRight(j)
      BY DEF ResultsRight
    <3>2. /\ j.sk.of.made = j.alg /\ j.sk.len = Size[j.alg]
          /\ k.sk.of.made = k.alg
      BY <1>3, <3>1 DEF KeyRight, Encoding
    <3>3. sk.of = k.sk.of /\ sk.len = Size[alg]
      BY <1>1 DEF Beginning
    <3>4. alg = k.alg
      BY <1>1, <1>3, <2>1, <3>1, <3>2, <3>3, KemConstants DEF SameFamily, KeyRight
    <3>5. Arrived(ct, alg, u)
      <4>1. u.pk.len = Size[u.alg]
        BY <3>1 DEF SentRight, Beginning
      <4>2. Size[u.alg] = Size[alg]
        BY <2>1, <3>1, <3>3, <4>1 DEF KeyRight
      <4>3. u.ct = [to |-> Beginning(u.pk, u.alg), m |-> u.ct.m,
                    coins |-> Coins(u.ct.m, u.pk), len |-> Size[alg], flip |-> "none"]
        BY <3>1, <4>2 DEF SentRight, Encrypt
      <4>4. PICK to, m, coins :
              u.ct = [to |-> to, m |-> m, coins |-> coins, len |-> Size[alg], flip |-> "none"]
        BY <4>3
      <4> QED BY <2>1, <4>4 DEF Arrived
    <3>6. sk = k.sk /\ u.pk = sk
      <4>1. k.sk.len = Size[k.alg] /\ k.sk = [of |-> k.sk.of, len |-> k.sk.len, ok |-> k.sk.ok]
        BY <1>3 DEF KeyRight, Encoding
      <4>2. sk = [of |-> k.sk.of, len |-> k.sk.len, ok |-> k.sk.ok]
        BY <1>1, <3>4, <4>1 DEF Beginning
      <4>3. sk = k.sk
        BY <4>1, <4>2
      <4> QED BY <2>1, <3>1, <4>3 DEF KeyRight
    <3>7. Accepts(alg, sk, ct)
      BY <1>1, <1>3, <2>1, <3>1, <3>4, <3>5, <3>6, AcceptsWhen
    <3> QED BY <1>5, <3>7
  <2> QED BY <1>3, <1>5, <2>1 DEF Answer
<1> QED BY <1>4, <1>5

(* No secret that was sent is one that stands in for it.                   *)
LEMMA SentKinds ==
    ASSUME NEW s, SentRight(s)
    PROVE  \A sk, ct : s.ss # Rejection(sk, ct)
<1>1. s.ss.kind = "agreed"
  BY DEF SentRight, Secret
<1> QED BY <1>1 DEF Rejection

(* Two secrets that were opened agree only when key and ciphertext do.     *)
LEMMA OpenedAreApart ==
    ASSUME ResultsRight, NEW o, OpenedRight(o, keys, sent),
           NEW u, OpenedRight(u, keys, sent)
    PROVE  u.ss = o.ss <=> (u.sk = o.sk /\ u.ct = o.ct)
<1>1. /\ Opens(o.alg, o.sk, o.ct, keys, sent) /\ o.ss = Answer(o.alg, o.sk, o.ct)
      /\ Opens(u.alg, u.sk, u.ct, keys, sent) /\ u.ss = Answer(u.alg, u.sk, u.ct)
  BY DEF OpenedRight
<1>2. ASSUME u.sk = o.sk, u.ct = o.ct PROVE u.ss = o.ss
  <2>1. PICK k \in keys : SameFamily(o.alg, k.alg) /\ o.sk = Beginning(k.sk, o.alg)
    BY <1>1 DEF Opens
  <2>2. PICK j \in keys : SameFamily(u.alg, j.alg) /\ u.sk = Beginning(j.sk, u.alg)
    BY <1>1 DEF Opens
  <2>3. k.sk.of.made = k.alg /\ j.sk.of.made = j.alg
    <3>1. KeyRight(k) /\ KeyRight(j)
      BY DEF ResultsRight
    <3> QED BY <3>1 DEF KeyRight, Encoding
  <2>4. o.sk.of = k.sk.of /\ u.sk.of = j.sk.of /\ o.sk.len = Size[o.alg] /\ u.sk.len = Size[u.alg]
    BY <2>1, <2>2 DEF Beginning
  <2>5. o.alg = u.alg
    BY <1>2, <2>1, <2>2, <2>3, <2>4, KemConstants DEF SameFamily
  <2> QED BY <1>1, <1>2, <2>5
<1>3. ASSUME u.ss = o.ss PROVE u.sk = o.sk /\ u.ct = o.ct
  <2>1. CASE Accepts(o.alg, o.sk, o.ct) /\ Accepts(u.alg, u.sk, u.ct)
    <3>1. PICK s \in sent : s.pk = o.sk /\ s.ct = o.ct /\ s.ss = o.ss
      BY <1>1, <2>1, AnswerIs
    <3>2. PICK v \in sent : v.pk = u.sk /\ v.ct = u.ct /\ v.ss = u.ss
      BY <1>1, <2>1, AnswerIs
    <3>3. SentRight(s) /\ SentRight(v)
      BY DEF ResultsRight
    <3> QED BY <1>3, <3>1, <3>2, <3>3, SecretsAreApart
  <2>2. CASE Accepts(o.alg, o.sk, o.ct) /\ ~ Accepts(u.alg, u.sk, u.ct)
    <3>1. PICK s \in sent : s.ss = o.ss
      BY <1>1, <2>2, AnswerIs
    <3>2. u.ss = Rejection(u.sk, u.ct)
      BY <1>1, <2>2 DEF Answer
    <3> QED BY <1>3, <3>1, <3>2, SentKinds DEF ResultsRight
  <2>3. CASE ~ Accepts(o.alg, o.sk, o.ct) /\ Accepts(u.alg, u.sk, u.ct)
    <3>1. PICK s \in sent : s.ss = u.ss
      BY <1>1, <2>3, AnswerIs
    <3>2. o.ss = Rejection(o.sk, o.ct)
      BY <1>1, <2>3 DEF Answer
    <3> QED BY <1>3, <3>1, <3>2, SentKinds DEF ResultsRight
  <2>4. CASE ~ Accepts(o.alg, o.sk, o.ct) /\ ~ Accepts(u.alg, u.sk, u.ct)
    <3>1. u.ss = Rejection(u.sk, u.ct) /\ o.ss = Rejection(o.sk, o.ct)
      BY <1>1, <2>4 DEF Answer
    <3>2. u.ss.from = u.sk /\ u.ss.m = u.ct /\ o.ss.from = o.sk /\ o.ss.m = o.ct
      BY <3>1 DEF Rejection
    <3> QED BY <1>3, <3>2
  <2> QED BY <2>1, <2>2, <2>3, <2>4
<1> QED BY <1>2, <1>3

(* The atomic KEM takes its step when a decapsulation delivers.            *)
LEMMA DeliversRight ==
    ASSUME CallsRight, NEW t \in Threads,
           InCall(call[t], out[t], ret[t], keys, sent), call[t].op = "decaps",
           Delivers(t, Answer(call[t].alg, call[t].key, call[t].ct)),
           Family[call[t].alg] = "NTRU" => Accepts(call[t].alg, call[t].key, call[t].ct)
    PROVE  CallsRight' /\ Promise!Decapsulate
<1> DEFINE c == call[t]
           ss == Answer(c.alg, c.key, c.ct)
           o == [alg |-> c.alg, sk |-> c.key, ct |-> c.ct, ss |-> ss]
<1>1. o.alg = c.alg /\ o.sk = c.key /\ o.ct = c.ct /\ o.ss = ss
  OBVIOUS
<1>2. /\ Returns(t, "SUCCESS", [ss |-> ss])
      /\ opened' = opened \cup {o} /\ UNCHANGED <<keys, sent>>
  BY DEF Delivers
<1> HIDE DEF o
<1>3. Opens(c.alg, c.key, c.ct, keys, sent)
  BY DEF InCall
<1>4. OpenedRight(o, keys, sent)
  BY <1>1, <1>3 DEF OpenedRight
<1>5. ResultsRight /\ ResultsRight'
  BY <1>2, <1>4 DEF CallsRight, ResultsRight
<1>6. CallsRight'
  <2> DEFINE b == [ss |-> ss]
  <2>1. DOMAIN b = {"ss"} /\ \A x \in DOMAIN b : b[x] = ss
    OBVIOUS
  <2>2. ss \notin {Zero, Caller}
    BY NotAnObject DEF Answer
  <2> HIDE DEF b, ss
  <2>3. Returns(t, "SUCCESS", b)
    BY <1>2 DEF b
  <2> QED BY <1>2, <1>5, <2>1, <2>2, <2>3, SucceedsRight
<1>7. \A s \in sent : s.ss = o.ss <=> Promise!Matches(s, o)
  <2> SUFFICES ASSUME NEW s \in sent
               PROVE  s.ss = o.ss <=>
                        (s.ct = o.ct /\ \E k \in keys : k.pk = s.pk /\ k.sk = o.sk)
    BY DEF Promise!Matches
  <2>1. SentRight(s)
    BY <1>5 DEF ResultsRight
  <2>2. CASE Accepts(c.alg, c.key, c.ct)
    <3>1. PICK u \in sent : u.pk = c.key /\ u.ct = c.ct /\ u.ss = ss
      BY <1>3, <1>5, <2>2, AnswerIs
    <3>2. PICK k \in keys : k.sk = c.key
      BY <1>3, <1>5, <2>2, AnswerIs
    <3>3. SentRight(u) /\ \A j \in keys : j.sk = j.pk
      BY <1>5 DEF ResultsRight, KeyRight
    <3>4. s.ss = u.ss <=> (s.pk = u.pk /\ s.ct = u.ct)
      BY <2>1, <3>3, SecretsAreApart
    <3> HIDE DEF ss
    <3> QED BY <1>1, <3>1, <3>2, <3>3, <3>4
  <2>3. CASE ~ Accepts(c.alg, c.key, c.ct)
    <3>1. ss = Rejection(c.key, c.ct)
      BY <2>3 DEF Answer
    <3>2. s.ss # ss
      BY <2>1, <3>1, SentKinds
    <3>3. s.ct = c.ct => ~ \E k \in keys : k.pk = s.pk /\ k.sk = c.key
      BY <1>3, <1>5, <2>3, AnswerIs
    <3> HIDE DEF ss
    <3> QED BY <1>1, <3>2, <3>3
  <2> QED BY <2>2, <2>3
<1>8. \A u \in opened : u.ss = o.ss <=> (u.sk = o.sk /\ u.ct = o.ct)
  BY <1>4, <1>5, OpenedAreApart DEF ResultsRight
<1>9. o.alg \in {a \in Algs : Family[a] = "NTRU"} => \E s \in sent : Promise!Matches(s, o)
  <2> SUFFICES ASSUME Family[c.alg] = "NTRU"
               PROVE  \E s \in sent : s.ct = o.ct /\ \E k \in keys : k.pk = s.pk /\ k.sk = o.sk
    BY <1>1 DEF Promise!Matches
  <2>1. Accepts(c.alg, c.key, c.ct)
    OBVIOUS
  <2>2. PICK u \in sent : u.pk = c.key /\ u.ct = c.ct
    BY <1>3, <1>5, <2>1, AnswerIs
  <2>3. PICK k \in keys : k.sk = c.key
    BY <1>3, <1>5, <2>1, AnswerIs
  <2>4. k.sk = k.pk
    BY <1>5 DEF ResultsRight, KeyRight
  <2> QED BY <1>1, <2>2, <2>3, <2>4
<1> QED BY <1>2, <1>6, <1>7, <1>8, <1>9 DEF Promise!Decapsulate

(* A step that touches no call, buffer or result.                          *)
LEMMA CallsKept ==
    ASSUME CallsRight, UNCHANGED <<call, out, ret, results>>
    PROVE  CallsRight'
BY DEF CallsRight, ResultsRight, results

(* A step of a call under way, and what it is to the atomic KEM.           *)
LEMMA StepRight ==
    ASSUME CallsRight, IInv, NEW t \in Threads, Step(t)
    PROVE  CallsRight' /\ (Promise!Next \/ UNCHANGED results)
<1>1. CASE Draw(t)
  BY <1>1, DrawRight DEF Draw
<1>2. CASE DrawFails(t)
  BY <1>2, DrawFailsRight DEF DrawFails, Fails
<1>3. CASE WorkFails(t)
  BY <1>3, WorkFailsRight DEF WorkFails, Fails
<1>4. CASE MakeKey(t)
  BY <1>4, MakeKeyRight DEF Promise!Next
<1>5. CASE MakeCiphertext(t)
  BY <1>5, MakeCiphertextRight DEF Promise!Next
<1>6. CASE OpenMlkem(t)
  BY <1>6, OpenMlkemRight DEF OpenMlkem
<1>7. CASE Reencrypt(t) \/ OpenSmaug(t) \/ OpenNtru(t)
  <2> DEFINE c == call[t]
  <2>1. /\ InCall(c, out[t], ret[t], keys, sent) /\ c.op = "decaps"
        /\ \/ Fails(t, "AUTHENTICATION_FAILED")
           \/ /\ Delivers(t, Answer(c.alg, c.key, c.ct))
              /\ Family[c.alg] = "NTRU" => Accepts(c.alg, c.key, c.ct)
    BY <1>7, SchemesAgree
  <2>2. CASE Fails(t, "AUTHENTICATION_FAILED")
    <3>1. c.op \in Ops /\ "AUTHENTICATION_FAILED" \in Failures
      BY <2>1 DEF Ops, Failures
    <3> QED BY <2>2, <3>1, FailsRight DEF Fails
  <2>3. CASE /\ Delivers(t, Answer(c.alg, c.key, c.ct))
             /\ Family[c.alg] = "NTRU" => Accepts(c.alg, c.key, c.ct)
    BY <2>1, <2>3, DeliversRight DEF Promise!Next
  <2> QED BY <2>1, <2>2, <2>3
<1> QED BY <1>1, <1>2, <1>3, <1>4, <1>5, <1>6, <1>7 DEF Step

(* Entering or refusing a call yields no result.                           *)
LEMMA SomeCallQuiet ==
    ASSUME NEW t \in Threads, SomeCall(t)
    PROVE  UNCHANGED results
<1>1. ASSUME NEW alg, NEW null, NEW fits, NEW overlap,
             KeyGen(t, alg, null, fits, overlap)
      PROVE  UNCHANGED results
  BY <1>1 DEF KeyGen, Refuses, Enters
<1>2. ASSUME NEW alg, NEW null, NEW pk, NEW fits, NEW overlap,
             Encaps(t, alg, null, pk, fits, overlap)
      PROVE  UNCHANGED results
  BY <1>2 DEF Encaps, Refuses, Enters
<1>3. ASSUME NEW alg, NEW null, NEW sk, NEW ct, NEW overlap,
             Decaps(t, alg, null, sk, ct, overlap)
      PROVE  UNCHANGED results
  BY <1>3 DEF Decaps, Refuses, Enters
<1> QED BY ZenonT(40), <1>1, <1>2, <1>3 DEF SomeCall

(* The invariant is inductive, and each step is one of the atomic KEM.     *)
LEMMA NextRight ==
    ASSUME CallsRight, IInv, [Next]_vars
    PROVE  CallsRight' /\ [Promise!Next]_(Promise!promised)
<1>1. CASE UNCHANGED vars
  BY <1>1, CallsKept DEF vars, results, Promise!promised
<1>2. ASSUME NEW t \in Threads, SomeCall(t)
      PROVE  CallsRight' /\ [Promise!Next]_(Promise!promised)
  BY <1>2, CallRight, SomeCallQuiet DEF results, Promise!promised
<1>3. ASSUME NEW t \in Threads, Step(t)
      PROVE  CallsRight' /\ [Promise!Next]_(Promise!promised)
  BY <1>3, StepRight DEF results, Promise!promised
<1>4. ASSUME NEW t \in Threads, Switch(t)
      PROVE  CallsRight' /\ [Promise!Next]_(Promise!promised)
  BY <1>4, CallsKept DEF Switch, results, Promise!promised
<1> QED BY <1>1, <1>2, <1>3, <1>4 DEF Next

(* At the start every thread is idle and there are no results.             *)
LEMMA InitRight == Init => CallsRight
<1> SUFFICES ASSUME Init PROVE CallsRight
  OBVIOUS
<1>1. /\ call = [t \in Threads |-> Idle] /\ ret = [t \in Threads |-> "NONE"]
      /\ out = [t \in Threads |-> [ss |-> Caller]]
      /\ keys = {} /\ sent = {} /\ opened = {}
  BY DEF Init
<1>2. Settled(Idle, [ss |-> Caller], "NONE")
  BY DEF Settled, Statuses, Clear, Failures, Refusals
<1>3. ResultsRight
  BY <1>1 DEF ResultsRight
<1>4. \A t \in Threads : ThreadRight(call[t], out[t], ret[t], keys, sent)
  BY <1>1, <1>2 DEF ThreadRight
<1> QED BY <1>1, <1>3, <1>4 DEF CallsRight

(* What every call under way, every buffer and every result satisfies.     *)
THEOREM CallsInvariant == Spec => []CallsRight
<1>1. Init => CallsRight
  BY InitRight
<1>2. CallsRight /\ IInv /\ [Next]_vars => CallsRight'
  BY NextRight
<1> QED BY <1>1, <1>2, Invariant, PTL DEF Spec

(* KeyEncapsulation.h: after the argument checks a failure clears every    *)
(* output, also the secret ML-KEM has written before it compares; before   *)
(* them nothing is written; success fills them.                            *)
THEOREM FailuresClear == Spec => []FailureClears
<1>1. CallsRight => FailureClears
  <2> SUFFICES ASSUME CallsRight, NEW t \in Threads, call[t] = Idle
               PROVE  Clear(out[t], ret[t])
    BY DEF FailureClears, Clear
  <2>1. ~ InCall(call[t], out[t], ret[t], keys, sent)
    BY DEF InCall, Idle
  <2> QED BY <2>1 DEF CallsRight, ThreadRight, Settled
<1> QED BY <1>1, CallsInvariant, PTL

(* The three schemes, with any number of threads, parameter sets, keys and *)
(* damaged ciphertexts, implement the atomic KEM: ML-KEM.c, ntru_plus.c    *)
(* and smaug_t.c give the receiver the sender's secret, and no other       *)
(* ciphertext or key gives it.                                             *)
THEOREM Refinement == Spec => ImplementsKemSpec
<1>1. Init => Promise!Init
  BY DEF Init, Promise!Init
<1>2. CallsRight /\ IInv /\ [Next]_vars => [Promise!Next]_(Promise!promised)
  BY NextRight
<1> QED BY <1>1, <1>2, Invariant, CallsInvariant, PTL DEF Spec, ImplementsKemSpec, Promise!Spec

(* A call never asks for more coins than its scheme uses and a thread's    *)
(* parameter set is an ML-KEM one.                                         *)
THEOREM TypeCorrect == Spec => []TypeOK
<1>1. IInv /\ CallsRight => TypeOK
  <2> SUFFICES ASSUME IInv, CallsRight, NEW t \in Threads
               PROVE  /\ call[t].alg \in Algs \cup {NoAlg} /\ call[t].step \in Steps
                      /\ Len(call[t].coins) <= 2
                      /\ DOMAIN out[t] \in {{"pk", "sk"}, {"ss", "ct"}, {"ss"}}
                      /\ ret[t] \in {"NONE", "SUCCESS"} \cup Refusals \cup Failures
    BY DEF TypeOK, IInv
  <2>1. CASE Settled(call[t], out[t], ret[t])
    <3>1. call[t].alg = NoAlg /\ call[t].step = "none" /\ call[t].coins = <<>>
      BY <2>1 DEF Settled, Idle
    <3> QED BY <2>1, <3>1 DEF Settled, Statuses, Steps
  <2>2. CASE InCall(call[t], out[t], ret[t], keys, sent)
    <3>1. Len(call[t].coins) <= 2
      <4> DEFINE coins == call[t].coins
      <4>1. coins = <<>> \/ (\E v : coins = <<v>>) \/ \E v, w : coins = <<v, w>>
        BY <2>2 DEF InCall, CoinsRight, CoinsFit
      <4> HIDE DEF coins
      <4>2. Len(coins) <= 2
        BY <4>1
      <4> QED BY <4>2 DEF coins
    <3>2. DOMAIN out[t] \in {{"pk", "sk"}, {"ss", "ct"}, {"ss"}}
      BY <2>2 DEF InCall, Buffers, Ops
    <3> QED BY <2>2, <3>1, <3>2 DEF InCall, Steps
  <2> QED BY <2>1, <2>2 DEF CallsRight, ThreadRight
<1> QED BY <1>1, Invariant, CallsInvariant, PTL

----------------------------------------------------------------------------
(* The random source.                                                      *)

Amounts == {32, 64, 96}
Drawings ==
    [n : Amounts,
     value : [src : {"os", "kat"}, seed : Seeds \cup {NoSeed}, at : Nat,
              requests : Seq(Amounts)]]

Asked(s) == [j \in 1 .. Len(s) |-> s[j].n]

(* The third inductive invariant: a DRBG's requests so far are its         *)
(* thread's drawings since the switch.                                     *)
SourcesRight ==
    /\ kat \in [Threads -> [active : BOOLEAN, seed : Seeds \cup {NoSeed},
                             requests : Seq(Amounts)]]
    /\ osDrawn \in Nat
    /\ stream \in [Threads -> Seq(Drawings)]
    /\ \A t \in Threads : kat[t].active => kat[t].requests = Asked(stream[t])
    /\ StreamsAreOwn

(* StreamsAreOwn of one thread.                                            *)
OwnStream(state, s) ==
    \A i \in 1 .. Len(s) :
        IF state.active
        THEN /\ s[i].value.src = "kat" /\ s[i].value.seed = state.seed
             /\ s[i].value.requests = [j \in 1 .. i |-> s[j].n]
        ELSE s[i].value.src = "os"

(* StreamsAreOwn, thread by thread, before and after a step.               *)
LEMMA OwnStreams ==
    /\ StreamsAreOwn <=> \A t \in Threads : OwnStream(kat[t], stream[t])
    /\ StreamsAreOwn' <=> \A t \in Threads : OwnStream(kat'[t], stream'[t])
BY DEF StreamsAreOwn, OwnStream

(* One more drawing is one more request.                                   *)
LEMMA AskedAppend ==
    ASSUME NEW s \in Seq(Drawings), NEW e \in Drawings
    PROVE  /\ Append(s, e) \in Seq(Drawings)
           /\ Len(Append(s, e)) = Len(s) + 1
           /\ Append(s, e)[Len(s) + 1] = e
           /\ \A i \in 1 .. Len(s) : Append(s, e)[i] = s[i]
           /\ Asked(Append(s, e)) = Append(Asked(s), e.n)
<1>1. /\ Append(s, e) \in Seq(Drawings) /\ Len(Append(s, e)) = Len(s) + 1
      /\ Append(s, e)[Len(s) + 1] = e
      /\ \A i \in 1 .. Len(s) : Append(s, e)[i] = s[i]
      /\ Len(s) \in Nat
  BY AppendProperties
<1>2. ASSUME NEW q \in Seq(Drawings) PROVE Asked(q) \in Seq(Amounts) /\ Len(Asked(q)) = Len(q)
  <2>1. Len(q) \in Nat /\ \A j \in 1 .. Len(q) : q[j] \in Drawings
    BY ElementOfSeq
  <2>2. \A j \in 1 .. Len(q) : q[j].n \in Amounts
    BY <2>1 DEF Drawings
  <2> QED BY <2>1, <2>2 DEF Asked
<1>3. e.n \in Amounts
  BY DEF Drawings
<1>4. /\ Append(Asked(s), e.n) \in Seq(Amounts)
      /\ Len(Append(Asked(s), e.n)) = Len(s) + 1
      /\ Append(Asked(s), e.n)[Len(s) + 1] = e.n
      /\ \A i \in 1 .. Len(s) : Append(Asked(s), e.n)[i] = Asked(s)[i]
  BY <1>2, <1>3, AppendProperties
<1>5. ASSUME NEW i \in 1 .. Len(s) + 1
      PROVE  Asked(Append(s, e))[i] = Append(Asked(s), e.n)[i]
  <2>1. Asked(Append(s, e))[i] = Append(s, e)[i].n
    BY <1>1 DEF Asked
  <2>2. CASE i = Len(s) + 1
    BY <1>1, <1>4, <2>1, <2>2
  <2>3. CASE i \in 1 .. Len(s)
    <3>1. Asked(s)[i] = s[i].n
      BY <2>3 DEF Asked
    <3>2. Append(s, e)[i] = s[i] /\ Append(Asked(s), e.n)[i] = Asked(s)[i]
      BY <1>1, <1>4, <2>3
    <3> QED BY <2>1, <3>1, <3>2
  <2>4. i = Len(s) + 1 \/ i \in 1 .. Len(s)
    BY <1>1
  <2> QED BY <2>2, <2>3, <2>4
<1>6. Asked(Append(s, e)) = Append(Asked(s), e.n)
  <2> DEFINE a == Asked(Append(s, e))
             b == Append(Asked(s), e.n)
  <2>1. a \in Seq(Amounts) /\ Len(a) = Len(s) + 1 /\ b \in Seq(Amounts) /\ Len(b) = Len(s) + 1
    BY <1>1, <1>2, <1>4
  <2>2. \A i \in 1 .. Len(s) + 1 : a[i] = b[i]
    BY <1>5
  <2> HIDE DEF a, b
  <2>3. a = b
    BY <2>1, <2>2, SeqEqual
  <2> QED BY <2>3 DEF a, b
<1> QED BY <1>1, <1>6

(* A draw extends its own thread's stream only.                            *)
LEMMA DrawSource ==
    ASSUME SourcesRight, NEW t \in Threads, NEW n \in Amounts, RandomBytes(t, n)
    PROVE  SourcesRight'
<1> DEFINE e == [n |-> n, value |-> Value(t, n)]
<1>1. stream' = [stream EXCEPT ![t] = Append(stream[t], e)]
  BY DEF RandomBytes, SourcesRight
<1>2. kat[t].seed \in Seeds \cup {NoSeed} /\ kat[t].requests \in Seq(Amounts)
  BY DEF SourcesRight
<1>3. Append(kat[t].requests, n) \in Seq(Amounts)
  BY <1>2, AppendProperties
<1>4. e \in Drawings /\ e.n = n /\ e.value = Value(t, n)
  BY <1>2, <1>3 DEF Value, Drawings, SourcesRight
<1> HIDE DEF e
<1>5. stream[t] \in Seq(Drawings)
  BY DEF SourcesRight
<1>6. ASSUME NEW u \in Threads, u # t
      PROVE  stream'[u] = stream[u] /\ kat'[u] = kat[u]
  BY <1>1, <1>6 DEF SourcesRight, RandomBytes, Switched
<1>7. stream' \in [Threads -> Seq(Drawings)] /\ osDrawn' \in Nat
  BY <1>1, <1>4, <1>5, AskedAppend DEF SourcesRight, RandomBytes
<1> DEFINE s == stream[t]
           z == Append(s, e)
<1>8. /\ Len(z) = Len(s) + 1 /\ z[Len(s) + 1] = e /\ Len(s) \in Nat
      /\ \A i \in 1 .. Len(s) : z[i] = s[i]
      /\ Asked(z) = Append(Asked(s), n)
  BY <1>4, <1>5, AskedAppend
<1>9. stream'[t] = z
  BY <1>1 DEF SourcesRight
<1>10. CASE kat[t].active
  <2>1. /\ kat' = [kat EXCEPT ![t] = [kat[t] EXCEPT !.requests = Append(kat[t].requests, n)]]
        /\ Value(t, n) = [src |-> "kat", seed |-> kat[t].seed, at |-> 0,
                          requests |-> Append(kat[t].requests, n)]
    BY <1>10 DEF RandomBytes, Switched, Value
  <2>2. kat' \in [Threads -> [active : BOOLEAN, seed : Seeds \cup {NoSeed},
                              requests : Seq(Amounts)]]
    BY <1>3, <2>1 DEF SourcesRight
  <2>3. /\ kat'[t].active /\ kat'[t].seed = kat[t].seed
        /\ kat'[t].requests = Append(kat[t].requests, n)
    BY <1>10, <2>1 DEF SourcesRight
  <2>4. kat[t].requests = Asked(s)
    BY <1>10 DEF SourcesRight
  <2>5. kat'[t].requests = Asked(z)
    BY <1>8, <2>3, <2>4
  <2>6. ASSUME NEW i \in 1 .. Len(z)
        PROVE  /\ z[i].value.src = "kat" /\ z[i].value.seed = kat'[t].seed
               /\ z[i].value.requests = [j \in 1 .. i |-> z[j].n]
    <3>1. CASE i = Len(z)
      <4>1. /\ z[i].value.src = "kat" /\ z[i].value.seed = kat[t].seed
            /\ z[i].value.requests = Asked(z)
        BY <1>4, <1>8, <2>1, <2>4, <3>1
      <4> QED BY <2>3, <3>1, <4>1 DEF Asked
    <3>2. CASE i \in 1 .. Len(s)
      <4>1. /\ s[i].value.src = "kat" /\ s[i].value.seed = kat[t].seed
            /\ s[i].value.requests = [j \in 1 .. i |-> s[j].n]
        BY <1>10, <3>2 DEF SourcesRight, StreamsAreOwn
      <4>2. z[i] = s[i]
        BY <1>8, <3>2
      <4>3. [j \in 1 .. i |-> s[j].n] = [j \in 1 .. i |-> z[j].n]
        BY <1>8, <3>2
      <4>4. z[i].value.src = "kat" /\ z[i].value.seed = kat'[t].seed
        BY <2>3, <4>1, <4>2
      <4>5. z[i].value.requests = [j \in 1 .. i |-> z[j].n]
        <5>1. z[i].value.requests = [j \in 1 .. i |-> s[j].n]
          BY <4>1, <4>2
        <5> HIDE DEF z, s
        <5> QED BY <4>3, <5>1, Zenon
      <4> HIDE DEF z, s
      <4> QED BY <4>4, <4>5, Zenon
    <3>3. i = Len(z) \/ i \in 1 .. Len(s)
      BY <1>8
    <3> HIDE DEF z, s
    <3> QED BY <3>1, <3>2, <3>3, Zenon
  <2> HIDE DEF z, s
  <2>7. ASSUME NEW u \in Threads PROVE OwnStream(kat'[u], stream'[u])
    <3>1. CASE u = t
      BY <1>9, <2>3, <2>6, <3>1 DEF OwnStream
    <3>2. CASE u # t
      BY <1>6, <3>2, OwnStreams DEF SourcesRight
    <3> QED BY <3>1, <3>2
  <2>8. \A u \in Threads : kat'[u].active => kat'[u].requests = Asked(stream'[u])
    BY <1>6, <1>9, <2>5 DEF SourcesRight
  <2> QED BY <1>7, <2>2, <2>7, <2>8, OwnStreams DEF SourcesRight
<1>11. CASE ~ kat[t].active
  <2>1. kat' = kat /\ Value(t, n).src = "os"
    BY <1>11 DEF RandomBytes, Value
  <2>2. ASSUME NEW i \in 1 .. Len(z) PROVE z[i].value.src = "os"
    <3>1. CASE i = Len(z)
      BY <1>4, <1>8, <2>1, <3>1
    <3>2. CASE i \in 1 .. Len(s)
      BY ZenonT(40), <1>8, <1>11, <3>2 DEF SourcesRight, StreamsAreOwn
    <3> QED BY <1>8, <3>1, <3>2
  <2> HIDE DEF z, s
  <2>3. ASSUME NEW u \in Threads PROVE OwnStream(kat'[u], stream'[u])
    <3>1. CASE u = t
      BY <1>9, <1>11, <2>1, <2>2, <3>1 DEF OwnStream
    <3>2. CASE u # t
      BY <1>6, <3>2, OwnStreams DEF SourcesRight
    <3> QED BY <3>1, <3>2
  <2>4. \A u \in Threads : kat'[u].active => kat'[u].requests = Asked(stream'[u])
    BY <1>6, <1>11, <2>1 DEF SourcesRight
  <2> QED BY <1>7, <2>1, <2>3, <2>4, OwnStreams DEF SourcesRight
<1> QED BY <1>10, <1>11

(* A switch starts a new stream.                                           *)
LEMMA SwitchSource ==
    ASSUME SourcesRight, NEW t \in Threads, Switch(t)
    PROVE  SourcesRight'
<1>1. PICK state \in [active : BOOLEAN, seed : Seeds \cup {NoSeed}, requests : Seq(Amounts)] :
        /\ kat' = [kat EXCEPT ![t] = state] /\ state.requests = <<>>
        /\ stream' = [stream EXCEPT ![t] = <<>>] /\ osDrawn' = osDrawn
  <2>1. CASE KatFinalize(t)
    <3>1. Off \in [active : BOOLEAN, seed : Seeds \cup {NoSeed}, requests : Seq(Amounts)]
      BY DEF Off
    <3>2. Off.requests = <<>>
      BY DEF Off
    <3> QED BY <2>1, <3>1, <3>2 DEF KatFinalize, Switched
  <2>2. ASSUME NEW seed \in Seeds, KatInitialize(t, seed)
        PROVE  \E state \in [active : BOOLEAN, seed : Seeds \cup {NoSeed},
                              requests : Seq(Amounts)] :
                  /\ kat' = [kat EXCEPT ![t] = state] /\ state.requests = <<>>
                  /\ stream' = [stream EXCEPT ![t] = <<>>] /\ osDrawn' = osDrawn
    <3> DEFINE on == [active |-> TRUE, seed |-> seed, requests |-> <<>>]
    <3>1. /\ on \in [active : BOOLEAN, seed : Seeds \cup {NoSeed}, requests : Seq(Amounts)]
          /\ on.requests = <<>>
      OBVIOUS
    <3>2. /\ kat' = [kat EXCEPT ![t] = on]
          /\ stream' = [stream EXCEPT ![t] = <<>>] /\ osDrawn' = osDrawn
      BY <2>2 DEF KatInitialize, Switched
    <3> HIDE DEF on
    <3> QED BY <3>1, <3>2
  <2> QED BY <2>1, <2>2 DEF Switch
<1>2. /\ kat' \in [Threads -> [active : BOOLEAN, seed : Seeds \cup {NoSeed},
                               requests : Seq(Amounts)]]
      /\ stream' \in [Threads -> Seq(Drawings)] /\ osDrawn' \in Nat
  BY <1>1 DEF SourcesRight
<1>3. ASSUME NEW u \in Threads
      PROVE  /\ OwnStream(kat'[u], stream'[u])
             /\ kat'[u].active => kat'[u].requests = Asked(stream'[u])
  <2>1. CASE u = t
    <3>1. kat'[u].requests = <<>> /\ stream'[u] = <<>>
      BY <1>1, <2>1 DEF SourcesRight
    <3>2. Len(<<>>) = 0 /\ Asked(<<>>) = <<>>
      BY DEF Asked
    <3> QED BY <3>1, <3>2 DEF OwnStream
  <2>2. CASE u # t
    <3>1. kat'[u] = kat[u] /\ stream'[u] = stream[u]
      BY <1>1, <2>2 DEF SourcesRight
    <3> QED BY <3>1, OwnStreams DEF SourcesRight
  <2> QED BY <2>1, <2>2
<1> QED BY <1>2, <1>3, OwnStreams DEF SourcesRight

(* A step that does not touch the sources.                                 *)
LEMMA SourcesKept ==
    ASSUME SourcesRight, UNCHANGED randomVars
    PROVE  SourcesRight'
BY DEF SourcesRight, StreamsAreOwn, randomVars

(* The invariant is inductive.                                             *)
LEMMA NextSource ==
    ASSUME SourcesRight, [Next]_vars
    PROVE  SourcesRight'
<1>1. CASE UNCHANGED vars
  BY <1>1, SourcesKept DEF vars, randomVars
<1>2. ASSUME NEW t \in Threads, SomeCall(t) PROVE SourcesRight'
  <2>1. ASSUME NEW alg, NEW null, NEW fits, NEW overlap,
               KeyGen(t, alg, null, fits, overlap)
        PROVE  UNCHANGED randomVars
    BY <2>1 DEF KeyGen, Refuses, Enters
  <2>2. ASSUME NEW alg, NEW null, NEW pk, NEW fits, NEW overlap,
               Encaps(t, alg, null, pk, fits, overlap)
        PROVE  UNCHANGED randomVars
    BY <2>2 DEF Encaps, Refuses, Enters
  <2>3. ASSUME NEW alg, NEW null, NEW sk, NEW ct, NEW overlap,
               Decaps(t, alg, null, sk, ct, overlap)
        PROVE  UNCHANGED randomVars
    BY <2>3 DEF Decaps, Refuses, Enters
  <2>4. UNCHANGED randomVars
    BY ZenonT(40), <1>2, <2>1, <2>2, <2>3 DEF SomeCall
  <2> QED BY <2>4, SourcesKept
<1>3. ASSUME NEW t \in Threads, Step(t) PROVE SourcesRight'
  <2>1. CASE Draw(t)
    <3>1. Request(call[t]) \in Amounts
      BY DEF Request, Amounts
    <3> QED BY <2>1, <3>1, DrawSource DEF Draw
  <2>2. CASE ~ Draw(t)
    <3>1. UNCHANGED randomVars
      BY <1>3, <2>2 DEF Step, DrawFails, RandomFails, WorkFails, MakeKey, MakeCiphertext,
                        OpenMlkem, Reencrypt, OpenSmaug, OpenNtru
    <3> QED BY <3>1, SourcesKept
  <2> QED BY <2>1, <2>2
<1>4. ASSUME NEW t \in Threads, Switch(t) PROVE SourcesRight'
  BY <1>4, SwitchSource
<1> QED BY <1>1, <1>2, <1>3, <1>4 DEF Next

(* At the start no thread is under a known-answer test.                    *)
LEMMA InitSource == Init => SourcesRight
<1> SUFFICES ASSUME Init PROVE SourcesRight
  OBVIOUS
<1>1. /\ kat = [t \in Threads |-> Off] /\ osDrawn = 0
      /\ stream = [t \in Threads |-> <<>>]
  BY DEF Init, RandomInit
<1>2. /\ Off \in [active : BOOLEAN, seed : Seeds \cup {NoSeed}, requests : Seq(Amounts)]
      /\ ~ Off.active
  BY DEF Off
<1>3. Len(<<>>) = 0
  OBVIOUS
<1> QED BY <1>1, <1>2, <1>3 DEF SourcesRight, StreamsAreOwn

(* pqc_kat_rng.c: a thread under a known-answer test draws what its seed   *)
(* and its own requests determine, whatever the other threads draw or      *)
(* switch, and a thread that is not draws from the operating system only.  *)
THEOREM StreamsApart == Spec => []StreamsAreOwn
<1>1. Init => SourcesRight
  BY InitSource
<1>2. SourcesRight /\ [Next]_vars => SourcesRight'
  BY NextSource
<1>3. SourcesRight => StreamsAreOwn
  BY DEF SourcesRight
<1> QED BY <1>1, <1>2, <1>3, PTL DEF Spec
=============================================================================
