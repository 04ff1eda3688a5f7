---------------------------- MODULE Random_proofs ----------------------------
(***************************************************************************)
(* The sources of random bytes.                                            *)
(*                                                                         *)
(* The first part shows that a call of RANDOM_GENERATE keeps its promise,  *)
(* for any number of threads, any kernel, any length and any limit on one  *)
(* system call.                                                            *)
(*                                                                         *)
(* The second part is about CtrDrbg, for every block length, seed length,  *)
(* request limit and reseed interval, whatever strings the callers pass.   *)
(***************************************************************************)
EXTENDS OsRandom, CtrDrbg, FiniteSetTheorems, ProofLemmas

-----------------------------------------------------------------------------
(* RANDOM_GENERATE.                                                        *)

(* A set of descriptors that is not empty has a lowest one.                *)
LEMMA LeastElement ==
    ASSUME NEW S \in SUBSET Nat, S # {}
    PROVE  Min(S) \in S
<1> DEFINE Below == {p \in Nat \X Nat : p[1] < p[2]}
<1>1. IsWellFoundedOn(Below, Nat)
  BY NatLessThanWellFounded DEF OpToRel
<1> HIDE DEF Below
<1>2. PICK x \in S : \A y \in S : ~ (<<y, x>> \in Below)
  BY <1>1, WFMin
<1>3. \A y \in S : ~ (y < x)
  BY <1>2 DEF Below
<1>4. \A y \in S : x =< y
  BY <1>3
<1> QED
  BY <1>4 DEF Min

(* Of two numbers, Min is the smaller: a system call is asked for no more  *)
(* than is missing.                                                        *)
LEMMA LeastIsLeast ==
    ASSUME NEW a \in Nat, NEW b \in Nat
    PROVE  Min({a, b}) \in Nat /\ Min({a, b}) <= a /\ Min({a, b}) <= b
<1>1. \E x \in {a, b} : \A y \in {a, b} : x =< y
  OBVIOUS
<1>2. Min({a, b}) \in {a, b} /\ \A y \in {a, b} : Min({a, b}) =< y
  BY <1>1 DEF Min
<1> QED
  BY <1>2

(* While some thread has no descriptor open, one is free: the threads that *)
(* own one own different ones.                                             *)
LEMMA OneIsFree ==
    ASSUME table \in [Descriptors -> Threads \cup {NoThread}],
           DescriptorsBalanced,
           NEW t \in Threads, pc[t] \notin {"read", "close"}
    PROVE  Lowest \in Descriptors /\ table[Lowest] = NoThread
<1>1. IsFiniteSet(Threads) /\ Cardinality(Threads) \in Nat
  BY FS_CardinalityType, RandomConstants
<1>2. IsFiniteSet(Descriptors) /\ Cardinality(Descriptors) = Cardinality(Threads)
  <2>1. Cardinality(Threads) - 1 \in Int
    BY <1>1
  <2>2. /\ IsFiniteSet(0 .. Cardinality(Threads) - 1)
        /\ Cardinality(0 .. Cardinality(Threads) - 1)
              = IF 0 > Cardinality(Threads) - 1 THEN 0
                ELSE (Cardinality(Threads) - 1) - 0 + 1
    BY <2>1, FS_Interval
  <2> QED
    BY <1>1, <2>2 DEF Descriptors
<1>3. PICK free \in Descriptors : table[free] = NoThread
  <2>1. SUFFICES ASSUME \A d \in Descriptors : table[d] # NoThread
                 PROVE  FALSE
    OBVIOUS
  <2> DEFINE Others == Threads \ {t}
  <2>2. IsFiniteSet(Others) /\ Cardinality(Others) = Cardinality(Threads) - 1
    BY <1>1, FS_RemoveElement
  <2>3. table \in [Descriptors -> Others]
    BY <2>1 DEF DescriptorsBalanced
  <2>4. Cardinality(Others) < Cardinality(Descriptors)
    BY <1>1, <1>2, <2>2
  <2> HIDE DEF Others
  <2>5. PICK c, e \in Descriptors : c # e /\ table[c] = table[e]
    BY <1>2, <2>2, <2>3, <2>4, FS_PigeonHole
  <2> QED
    BY <2>1, <2>5 DEF DescriptorsBalanced
<1> DEFINE Free == {d \in Descriptors : table[d] = NoThread}
<1>4. Free \in SUBSET Nat /\ Free # {}
  BY <1>1, <1>3 DEF Descriptors
<1> HIDE DEF Free
<1>5. Min(Free) \in Free
  BY <1>4, LeastElement
<1> QED
  BY <1>5 DEF Free, Lowest

(* What the next step of a call has to find: every byte below out written  *)
(* once and none above it, out and length adding up to what was asked for, *)
(* and a result of LIBERAC_SUCCESS, once it is decided, with none missing. *)
Progress ==
    \A t \in Threads :
        /\ out[t] + left[t] = asked[t]
        /\ \A i \in 1 .. MaxLength : wrote[t][i] = IF i <= out[t] THEN 1 ELSE 0
        /\ pc[t] \in {"idle", "close"} /\ ret[t] = "SUCCESS" => left[t] = 0
        /\ pc[t] = "getrandom" => kernel.linux

OsInv == OsTypeOK /\ Progress /\ DescriptorsBalanced /\ FallbackSuffices

(* No thread is inside a call and no descriptor is open.                   *)
LEMMA InitIInv == OsInit => OsInv
<1> SUFFICES ASSUME OsInit PROVE OsInv
  OBVIOUS
<1> USE RandomConstants
<1>1. \A t \in Threads : IsFiniteSet(Threads) /\ 0 \in Descriptors
  <2> SUFFICES ASSUME NEW t \in Threads PROVE 0 \in Descriptors
    OBVIOUS
  <2>1. Cardinality(Threads) \in Nat /\ Cardinality(Threads) # 0
    BY FS_CardinalityType, FS_EmptySet
  <2> QED
    BY <2>1 DEF Descriptors
<1>2. OsTypeOK
  BY <1>1 DEF OsInit, OsTypeOK, Labels
<1>3. Progress
  BY DEF OsInit, Progress
<1>4. DescriptorsBalanced
  BY DEF OsInit, DescriptorsBalanced
<1>5. FallbackSuffices
  BY DEF OsInit, FallbackSuffices
<1> QED
  BY <1>2, <1>3, <1>4, <1>5 DEF OsInv

(* A system call that delivers bytes, from either source.                  *)
LEMMA ReceiveIInv ==
    ASSUME OsInv, NEW t \in Threads, pc[t] \in {"getrandom", "read"},
           left[t] > 0, Receive(t)
    PROVE  OsInv'
<1> USE RandomConstants
<1>1. PICK k \in 1 .. Min({left[t], MaxAsk}) :
         /\ wrote' = [wrote EXCEPT ![t] = [i \in 1 .. MaxLength |->
                        wrote[t][i] + IF i \in out[t] + 1 .. out[t] + k THEN 1 ELSE 0]]
         /\ out' = [out EXCEPT ![t] = out[t] + k]
         /\ left' = [left EXCEPT ![t] = left[t] - k]
  BY DEF Receive, Moved
<1>2. UNCHANGED <<kernel, pc, asked, fd, table, interrupts, ret>>
  BY DEF Receive
<1>3. k \in 1 .. left[t]
  <2>1. left[t] \in Nat /\ MaxAsk \in Nat
    BY DEF OsInv, OsTypeOK
  <2>2. Min({left[t], MaxAsk}) <= left[t] /\ Min({left[t], MaxAsk}) \in Nat
    BY <2>1, LeastIsLeast
  <2> QED
    BY <2>2 DEF OsInv, OsTypeOK
<1>4. out[t] + left[t] = asked[t]
  BY DEF OsInv, Progress
<1>5. OsTypeOK'
  <2>1. out' \in [Threads -> 0 .. MaxLength] /\ left' \in [Threads -> 0 .. MaxLength]
    BY SMTT(20), <1>1, <1>3, <1>4 DEF OsInv, OsTypeOK
  <2>2. wrote' \in [Threads -> [1 .. MaxLength -> 0 .. 1]]
    <3>1. \A i \in 1 .. MaxLength :
             wrote[t][i] + (IF i \in out[t] + 1 .. out[t] + k THEN 1 ELSE 0) \in 0 .. 1
      BY <1>3 DEF OsInv, OsTypeOK, Progress
    <3> QED
      BY <1>1, <3>1 DEF OsInv, OsTypeOK
  <2> QED
    BY <1>2, <2>1, <2>2 DEF OsInv, OsTypeOK
<1>6. Progress'
  <2> SUFFICES ASSUME NEW u \in Threads
               PROVE  /\ out'[u] + left'[u] = asked'[u]
                      /\ \A i \in 1 .. MaxLength :
                           wrote'[u][i] = IF i <= out'[u] THEN 1 ELSE 0
                      /\ pc'[u] \in {"idle", "close"} /\ ret'[u] = "SUCCESS" => left'[u] = 0
                      /\ pc'[u] = "getrandom" => kernel'.linux
    BY DEF Progress
  <2>1. CASE u = t
    <3>1. out'[t] = out[t] + k /\ left'[t] = left[t] - k
      BY <1>1 DEF OsInv, OsTypeOK
    <3>2. ASSUME NEW i \in 1 .. MaxLength
          PROVE  wrote'[t][i] = IF i <= out[t] + k THEN 1 ELSE 0
      <4>1. wrote'[t][i] = wrote[t][i] + IF i \in out[t] + 1 .. out[t] + k THEN 1 ELSE 0
        BY <1>1 DEF OsInv, OsTypeOK
      <4>2. wrote[t][i] = IF i <= out[t] THEN 1 ELSE 0
        BY DEF OsInv, Progress
      <4>3. i \in Nat /\ out[t] \in Nat /\ k \in Nat \ {0}
        BY <1>3 DEF OsInv, OsTypeOK
      <4>4. CASE i <= out[t]
        BY <4>1, <4>2, <4>3, <4>4
      <4>5. CASE i > out[t] /\ i <= out[t] + k
        BY <4>1, <4>2, <4>3, <4>5
      <4>6. CASE i > out[t] + k
        BY <4>1, <4>2, <4>3, <4>6
      <4> QED
        BY <4>3, <4>4, <4>5, <4>6
    <3> QED
      BY <1>2, <1>3, <1>4, <2>1, <3>1, <3>2 DEF OsInv, OsTypeOK, Progress
  <2>2. CASE u # t
    <3>1. out'[u] = out[u] /\ left'[u] = left[u] /\ wrote'[u] = wrote[u]
      BY <1>1, <2>2 DEF OsInv, OsTypeOK
    <3> QED
      BY <1>2, <3>1 DEF OsInv, Progress
  <2> QED
    BY <2>1, <2>2
<1>7. DescriptorsBalanced'
  BY <1>2 DEF OsInv, DescriptorsBalanced
<1>8. FallbackSuffices'
  BY <1>2 DEF OsInv, FallbackSuffices
<1> QED
  BY <1>5, <1>6, <1>7, <1>8 DEF OsInv

(* A step that leaves OUTPUT and the descriptors alone: EINTR, a call that *)
(* goes on to /dev/urandom, one that ends, one that will close.            *)
OsQuiet(t, label, code, n) ==
    /\ pc' = [pc EXCEPT ![t] = label]
    /\ ret' = [ret EXCEPT ![t] = code]
    /\ interrupts' = [interrupts EXCEPT ![t] = n]
    /\ UNCHANGED <<kernel, asked, out, left, wrote, fd, table>>
    /\ label \in {"read", "close"} <=> pc[t] \in {"read", "close"}
    /\ label = "getrandom" => pc[t] = "getrandom"
    /\ label \in {"idle", "close"} /\ code = "SUCCESS" => left[t] = 0
    /\ code = "RANDOM_FAILED" =>
          \/ ret[t] = "RANDOM_FAILED"
          \/ kernel.linux /\ "error" \in kernel.getrandom
          \/ kernel.open # {"fd"} \/ kernel.read # {"bytes"}

(* Every such step keeps the invariant.                                    *)
LEMMA QuietIInv ==
    ASSUME OsInv, NEW t \in Threads, NEW label \in Labels,
           NEW code \in {"SUCCESS", "INVALID_ARGUMENT", "RANDOM_FAILED"},
           NEW n \in 0 .. MaxInterrupts, OsQuiet(t, label, code, n)
    PROVE  OsInv'
<1> USE DEF OsQuiet
<1>1. OsTypeOK'
  BY DEF OsInv, OsTypeOK
<1>2. Progress'
  BY DEF OsInv, OsTypeOK, Progress
<1>3. DescriptorsBalanced'
  BY SMTT(20) DEF OsInv, OsTypeOK, DescriptorsBalanced
<1>4. FallbackSuffices'
  BY DEF OsInv, OsTypeOK, FallbackSuffices
<1> QED
  BY <1>1, <1>2, <1>3, <1>4 DEF OsInv

(* open: the descriptor is one nobody had.                                 *)
LEMMA OpenedIInv ==
    ASSUME OsInv, NEW t \in Threads, pc[t] = "open",
           fd' = [fd EXCEPT ![t] = Lowest],
           table' = [table EXCEPT ![Lowest] = t],
           Goto(t, "read"),
           UNCHANGED <<kernel, buffer, interrupts, ret>>
    PROVE  OsInv'
<1>1. Lowest \in Descriptors /\ table[Lowest] = NoThread
  BY OneIsFree DEF OsInv, OsTypeOK
<1> DEFINE d == Lowest
<1>2. /\ d \in Descriptors /\ table[d] = NoThread
      /\ fd' = [fd EXCEPT ![t] = d] /\ table' = [table EXCEPT ![d] = t]
  BY <1>1
<1> HIDE DEF d
<1>3. OsTypeOK'
  BY <1>2 DEF OsInv, OsTypeOK, Goto, Labels, buffer
<1>4. Progress'
  BY DEF OsInv, OsTypeOK, Progress, Goto, buffer
<1>5. DescriptorsBalanced'
  <2>1. \A u \in Threads : pc'[u] \in {"read", "close"} => table'[fd'[u]] = u
    <3> SUFFICES ASSUME NEW u \in Threads, pc'[u] \in {"read", "close"}
                 PROVE  table'[fd'[u]] = u
      OBVIOUS
    <3>1. CASE u = t
      BY <1>2, <3>1 DEF OsInv, OsTypeOK
    <3>2. CASE u # t
      <4>1. pc[u] \in {"read", "close"} /\ fd'[u] = fd[u] /\ fd[u] \in Descriptors
        BY <1>2, <3>2 DEF OsInv, OsTypeOK, Goto
      <4>2. table[fd[u]] = u /\ fd[u] # d
        BY <1>2, <4>1, RandomConstants DEF OsInv, DescriptorsBalanced
      <4> QED
        BY <1>2, <4>1, <4>2 DEF OsInv, OsTypeOK
    <3> QED
      BY <3>1, <3>2
  <2>2. \A e \in Descriptors : table'[e] # NoThread =>
           pc'[table'[e]] \in {"read", "close"} /\ fd'[table'[e]] = e
    <3> SUFFICES ASSUME NEW e \in Descriptors, table'[e] # NoThread
                 PROVE  pc'[table'[e]] \in {"read", "close"} /\ fd'[table'[e]] = e
      OBVIOUS
    <3>1. CASE e = d
      BY <1>2, <3>1 DEF OsInv, OsTypeOK, Goto
    <3>2. CASE e # d
      <4>1. table'[e] = table[e] /\ table[e] \in Threads
        BY <1>2, <3>2 DEF OsInv, OsTypeOK
      <4>2. pc[table[e]] \in {"read", "close"} /\ fd[table[e]] = e
        BY <4>1, RandomConstants DEF OsInv, DescriptorsBalanced
      <4>3. table[e] # t
        BY <4>2
      <4> QED
        BY <1>2, <4>1, <4>2, <4>3 DEF OsInv, OsTypeOK, Goto
    <3> QED
      BY <3>1, <3>2
  <2> QED
    BY <2>1, <2>2 DEF DescriptorsBalanced
<1>6. FallbackSuffices'
  BY DEF OsInv, FallbackSuffices
<1> QED
  BY <1>3, <1>4, <1>5, <1>6 DEF OsInv

(* close: the descriptor was this thread's and becomes free.               *)
LEMMA CloseIInv ==
    ASSUME OsInv, NEW t \in Threads, Close(t)
    PROVE  OsInv'
<1>1. OsTypeOK'
  BY DEF OsInv, OsTypeOK, Close, Goto, Labels, buffer
<1>2. Progress'
  BY DEF OsInv, OsTypeOK, Progress, Close, Goto, buffer
<1>3. DescriptorsBalanced'
  <2>1. \A u \in Threads : pc'[u] \in {"read", "close"} => table'[fd'[u]] = u
    <3> SUFFICES ASSUME NEW u \in Threads, pc'[u] \in {"read", "close"}
                 PROVE  table'[fd'[u]] = u
      OBVIOUS
    <3>1. u # t /\ pc[u] \in {"read", "close"} /\ fd'[u] = fd[u]
      BY DEF OsInv, OsTypeOK, Close, Goto
    <3>2. table[fd[u]] = u /\ table[fd[t]] = t
      BY <3>1 DEF OsInv, DescriptorsBalanced, Close
    <3> QED
      BY <3>1, <3>2 DEF OsInv, OsTypeOK, Close
  <2>2. \A e \in Descriptors : table'[e] # NoThread =>
           pc'[table'[e]] \in {"read", "close"} /\ fd'[table'[e]] = e
    <3> SUFFICES ASSUME NEW e \in Descriptors, table'[e] # NoThread
                 PROVE  pc'[table'[e]] \in {"read", "close"} /\ fd'[table'[e]] = e
      OBVIOUS
    <3>1. e # fd[t] /\ table'[e] = table[e] /\ table[e] \in Threads
      BY DEF OsInv, OsTypeOK, Close
    <3>2. pc[table[e]] \in {"read", "close"} /\ fd[table[e]] = e
      BY <3>1, RandomConstants DEF OsInv, DescriptorsBalanced
    <3>3. table[e] # t
      BY <3>1, <3>2
    <3> QED
      BY <3>1, <3>2, <3>3 DEF OsInv, OsTypeOK, Close, Goto
  <2> QED
    BY <2>1, <2>2 DEF DescriptorsBalanced
<1>4. FallbackSuffices'
  BY DEF OsInv, FallbackSuffices, Close
<1> QED
  BY <1>1, <1>2, <1>3, <1>4 DEF OsInv

(* A call begins, with OUTPUT or without.                                  *)
LEMMA CallIInv ==
    ASSUME OsInv, NEW t \in Threads, Call(t) \/ CallNull(t)
    PROVE  OsInv'
<1>1. CASE Call(t)
  <2>1. OsTypeOK'
    <3>1. pc' \in [Threads -> Labels]
      BY <1>1 DEF OsInv, OsTypeOK, Call, Goto, Labels
    <3>2. wrote' \in [Threads -> [1 .. MaxLength -> 0 .. 1]]
      BY <1>1 DEF OsInv, OsTypeOK, Call
    <3> QED
      BY <1>1, <3>1, <3>2, RandomConstants DEF OsInv, OsTypeOK, Call
  <2>2. Progress'
    BY <1>1 DEF OsInv, OsTypeOK, Progress, Call, Goto
  <2>3. DescriptorsBalanced'
    BY SMTT(20), <1>1, RandomConstants DEF OsInv, OsTypeOK, DescriptorsBalanced, Call, Goto
  <2>4. FallbackSuffices'
    BY <1>1 DEF OsInv, FallbackSuffices, Call
  <2> QED
    BY <2>1, <2>2, <2>3, <2>4 DEF OsInv
<1>2. CASE CallNull(t)
  <2>1. OsQuiet(t, "idle", "INVALID_ARGUMENT", interrupts[t])
    BY <1>2 DEF OsInv, OsTypeOK, CallNull, OsQuiet, Result, buffer
  <2>2. interrupts[t] \in 0 .. MaxInterrupts
    BY DEF OsInv, OsTypeOK
  <2> QED
    BY <2>1, <2>2, QuietIInv DEF Labels
<1> QED
  BY <1>1, <1>2

(* The kernel says EINTR and the loop goes round, in every loop.           *)
LEMMA InterruptedIInv ==
    ASSUME OsInv, NEW t \in Threads, pc[t] \notin {"idle", "close"}, Interrupted(t)
    PROVE  OsInv'
<1>1. OsQuiet(t, pc[t], ret[t], interrupts[t] + 1)
  <2>1. pc' = [pc EXCEPT ![t] = pc[t]] /\ ret' = [ret EXCEPT ![t] = ret[t]]
    BY DEF OsInv, OsTypeOK, Interrupted
  <2> QED
    BY <2>1 DEF OsInv, OsTypeOK, Interrupted, OsQuiet, buffer
<1>2. interrupts[t] + 1 \in 0 .. MaxInterrupts
  BY RandomConstants DEF OsInv, OsTypeOK, Interrupted
<1>3. pc[t] \in Labels /\ ret[t] \in {"SUCCESS", "INVALID_ARGUMENT", "RANDOM_FAILED"}
  BY DEF OsInv, OsTypeOK
<1> QED
  BY <1>1, <1>2, <1>3, QuietIInv

(* getrandom, whatever it answers, and the end of its loop.                *)
LEMMA GetrandomIInv ==
    ASSUME OsInv, NEW t \in Threads, Getrandom(t) \/ GetrandomDone(t)
    PROVE  OsInv'
<1>0. interrupts[t] \in 0 .. MaxInterrupts /\ ret[t] \in {"SUCCESS", "INVALID_ARGUMENT", "RANDOM_FAILED"}
  BY DEF OsInv, OsTypeOK
<1>1. pc[t] = "getrandom" /\ kernel.linux
  BY DEF Getrandom, GetrandomDone, OsInv, Progress
<1>2. CASE Getrandom(t)
  <2>1. CASE Receive(t)
    BY <1>1, <1>2, <2>1, ReceiveIInv DEF Getrandom
  <2>2. CASE Interrupted(t)
    BY <1>1, <2>2, InterruptedIInv
  <2>3. CASE RanDry(t)
    <3>1. OsQuiet(t, "open", ret[t], interrupts[t])
      BY <1>1, <2>3 DEF OsInv, OsTypeOK, RanDry, OsQuiet, Goto, buffer
    <3> QED
      BY <1>0, <3>1, QuietIInv DEF Labels
  <2>4. CASE /\ "error" \in kernel.getrandom
             /\ Return(t, "RANDOM_FAILED")
             /\ UNCHANGED <<kernel, buffer, fd, table, interrupts>>
    <3>1. OsQuiet(t, "idle", "RANDOM_FAILED", interrupts[t])
      BY <1>1, <2>4 DEF OsInv, OsTypeOK, Return, Result, OsQuiet, Goto, buffer
    <3> QED
      BY <1>0, <3>1, QuietIInv DEF Labels
  <2> QED
    BY <1>2, <2>1, <2>2, <2>3, <2>4 DEF Getrandom
<1>3. CASE GetrandomDone(t)
  <2>1. OsQuiet(t, "idle", "SUCCESS", interrupts[t])
    BY <1>1, <1>3 DEF OsInv, OsTypeOK, GetrandomDone, Return, Result, OsQuiet, Goto, buffer
  <2> QED
    BY <1>0, <2>1, QuietIInv DEF Labels
<1> QED
  BY <1>2, <1>3

(* open, whatever it answers.                                              *)
LEMMA OpenIInv ==
    ASSUME OsInv, NEW t \in Threads, Open(t)
    PROVE  OsInv'
<1>0. interrupts[t] \in 0 .. MaxInterrupts
  BY DEF OsInv, OsTypeOK
<1>1. pc[t] = "open"
  BY DEF Open
<1>2. CASE Goto(t, "read")
  <2>1. /\ fd' = [fd EXCEPT ![t] = Lowest]
        /\ table' = [table EXCEPT ![Lowest] = t]
        /\ UNCHANGED <<kernel, buffer, interrupts, ret>>
    BY <1>1, <1>2 DEF OsInv, OsTypeOK, Open, OpenInterrupted, Interrupted, Goto, Return
  <2> QED
    BY <1>1, <1>2, <2>1, OpenedIInv
<1>3. CASE OpenInterrupted(t)
  BY <1>1, <1>3, InterruptedIInv DEF OpenInterrupted
<1>4. CASE /\ "error" \in kernel.open
           /\ Return(t, "RANDOM_FAILED")
           /\ UNCHANGED <<kernel, buffer, fd, table, interrupts>>
  <2>1. OsQuiet(t, "idle", "RANDOM_FAILED", interrupts[t])
    BY <1>1, <1>4 DEF OsInv, OsTypeOK, Return, Result, OsQuiet, Goto, buffer
  <2> QED
    BY <1>0, <2>1, QuietIInv DEF Labels
<1> QED
  BY <1>2, <1>3, <1>4 DEF Open

(* read, whatever it answers, and the end of its loop.                     *)
LEMMA ReadIInv ==
    ASSUME OsInv, NEW t \in Threads, Read(t) \/ ReadDone(t)
    PROVE  OsInv'
<1>0. interrupts[t] \in 0 .. MaxInterrupts
  BY DEF OsInv, OsTypeOK
<1>1. pc[t] = "read"
  BY DEF Read, ReadDone
<1>2. CASE Read(t) /\ Receive(t)
  BY <1>1, <1>2, ReceiveIInv DEF Read
<1>3. CASE Interrupted(t)
  BY <1>1, <1>3, InterruptedIInv
<1>4. CASE ReadFailed(t) \/ ReadEnd(t)
  <2>1. OsQuiet(t, "close", "RANDOM_FAILED", interrupts[t])
    BY <1>1, <1>4 DEF OsInv, OsTypeOK, ReadFailed, ReadEnd, Result, OsQuiet, Goto, buffer
  <2> QED
    BY <1>0, <2>1, QuietIInv DEF Labels
<1>5. CASE ReadDone(t)
  <2>1. OsQuiet(t, "close", "SUCCESS", interrupts[t])
    BY <1>1, <1>5 DEF OsInv, OsTypeOK, ReadDone, Result, OsQuiet, Goto, buffer
  <2> QED
    BY <1>0, <2>1, QuietIInv DEF Labels
<1> QED
  BY <1>2, <1>3, <1>4, <1>5 DEF Read

(* The invariant is inductive.                                             *)
LEMMA NextIInv == OsInv /\ [OsNext]_osVars => OsInv'
<1> SUFFICES ASSUME OsInv, [OsNext]_osVars PROVE OsInv'
  OBVIOUS
<1>1. CASE UNCHANGED osVars
  BY <1>1 DEF osVars, buffer, OsInv, OsTypeOK, Progress, DescriptorsBalanced,
              FallbackSuffices
<1>2. ASSUME NEW t \in Threads, Call(t) \/ CallNull(t) \/ Step(t)
      PROVE  OsInv'
  BY <1>2, CallIInv, GetrandomIInv, OpenIInv, ReadIInv, CloseIInv DEF Step
<1> QED
  BY <1>1, <1>2 DEF OsNext

(* What every reachable state satisfies, with what the next step needs.    *)
THEOREM OsInvariant == OsSpec => []OsInv
<1>1. OsInit => OsInv
  BY InitIInv
<1>2. OsInv /\ [OsNext]_osVars => OsInv'
  BY NextIInv
<1> QED
  BY <1>1, <1>2, PTL DEF OsSpec

(* LIBERAC_SUCCESS means that every byte of OUTPUT, and none beyond it,    *)
(* came from the kernel, once; no descriptor is leaked, closed twice or    *)
(* read by another thread; and while /dev/urandom answers no call fails:   *)
(* random_os_bytes and crypto_random_bytes_internal for any number of      *)
(* threads, any kernel and any lengths.                                    *)
THEOREM RequestsServed == OsSpec => []RequestsAreServed
<1>1. OsInv => RequestsAreServed
  <2> SUFFICES ASSUME OsInv PROVE SuccessFillsAll
    BY DEF OsInv, RequestsAreServed
  <2> SUFFICES ASSUME NEW t \in Threads, pc[t] = "idle", ret[t] = "SUCCESS",
                      NEW i \in 1 .. MaxLength
               PROVE  wrote[t][i] = IF i <= asked[t] THEN 1 ELSE 0
    BY DEF SuccessFillsAll
  <2>1. out[t] = asked[t]
    BY DEF OsInv, OsTypeOK, Progress
  <2> QED
    BY <2>1 DEF OsInv, Progress
<1> QED
  BY <1>1, OsInvariant, PTL

-----------------------------------------------------------------------------
(* CTR-DRBG contexts.                                                      *)

Seed == [df : BOOLEAN, bytes : Seq(Bytes)]

(* The blocks that hold n bytes: enough for the last byte, and no more for *)
(* fewer bytes.                                                            *)
LEMMA BlocksBound ==
    ASSUME NEW a \in Algs, NEW n \in Nat
    PROVE  /\ Blocks(a, n) \in Nat
           /\ \A i \in 1 .. n : (i - 1) \div BlockLen[a] \in 0 .. Blocks(a, n) - 1
           /\ \A m \in 0 .. n : Blocks(a, m) <= Blocks(a, n)
<1> DEFINE B == BlockLen[a]
<1>1. B \in Nat \ {0}
  BY DrbgConstants
<1> HIDE DEF B
<1>2. n + (B - 1) \in Nat
  BY <1>1
<1>3. Blocks(a, n) = (n + (B - 1)) \div B
  BY DEF Blocks, B
<1>4. Blocks(a, n) \in Nat
  BY <1>1, <1>2, <1>3, Division
<1>5. ASSUME NEW i \in 1 .. n
      PROVE  (i - 1) \div B \in 0 .. Blocks(a, n) - 1
  <2>1. i - 1 \in Nat
    OBVIOUS
  <2>2. (i - 1) \div B \in Nat /\ (i - 1) % B \in 0 .. B - 1
        /\ i - 1 = B * ((i - 1) \div B) + ((i - 1) % B)
    BY <1>1, <2>1, Division
  <2> DEFINE q == (i - 1) \div B
  <2>3. B * (q + 1) <= n + (B - 1)
    <3>1. B * (q + 1) = B * q + B
      BY <1>1, <2>2
    <3> QED
      BY <1>1, <2>2, <3>1
  <2>4. q + 1 \in Nat
    BY <2>2
  <2> HIDE DEF q
  <2>5. q + 1 <= Blocks(a, n)
    BY <1>1, <1>2, <1>3, <2>3, <2>4, QuotientBound
  <2> QED
    BY <1>4, <2>2, <2>4, <2>5 DEF q
<1>6. ASSUME NEW m \in 0 .. n
      PROVE  Blocks(a, m) <= Blocks(a, n)
  <2> DEFINE k == Blocks(a, m)
  <2>1. m + (B - 1) \in Nat
    BY <1>1
  <2>2. k = (m + (B - 1)) \div B
    BY DEF Blocks, B
  <2>3. k \in Nat
    BY <1>1, <2>1, <2>2, Division
  <2> HIDE DEF k
  <2>4. B * k <= m + (B - 1)
    BY <1>1, <2>1, <2>2, <2>3, QuotientBound
  <2>5. B * k <= n + (B - 1)
    BY <1>1, <2>3, <2>4
  <2>6. k <= Blocks(a, n)
    BY <1>1, <1>2, <1>3, <2>3, <2>5, QuotientBound
  <2> QED
    BY <2>6 DEF k
<1> QED
  BY <1>4, <1>5, <1>6 DEF B

(* V does not come round while one KEY is in use.                          *)
LEMMA SmallOffset ==
    ASSUME NEW V \in Nat \ {0}, NEW x \in 1 .. V
    PROVE  x % V = IF x = V THEN 0 ELSE x
<1>1. CASE x = V
  <2>1. V = V * 1
    OBVIOUS
  <2>2. V % V = 0
    BY <2>1, MultipleHasNoRest
  <2> QED
    BY <1>1, <2>2
<1>2. CASE x # V
  <2>1. x = V * 0 + x /\ x < V /\ x \in Nat
    BY <1>2
  <2>2. x % V = x
    BY <2>1, DivisionUnique
  <2> QED
    BY <1>2, <2>2
<1> QED
  BY <1>1, <1>2

(* The counter does not come round within one request.                     *)
LEMMA RequestFits ==
    ASSUME NEW a \in Algs, NEW n \in 0 .. MaxRequest[a]
    PROVE  /\ SeedBlocks(a) \in Nat \ {0}
           /\ Blocks(a, n) \in Nat
           /\ Blocks(a, n) + SeedBlocks(a) <= VMod[a]
           /\ VMod[a] \in Nat \ {0}
<1>1. MaxRequest[a] \in Nat /\ SeedLen[a] \in Nat \ {0} /\ VMod[a] \in Nat \ {0}
  BY DrbgConstants
<1>2. Blocks(a, n) \in Nat /\ Blocks(a, n) <= Blocks(a, MaxRequest[a])
  BY <1>1, BlocksBound
<1>3. /\ SeedBlocks(a) \in Nat
      /\ \A i \in 1 .. SeedLen[a] : (i - 1) \div BlockLen[a] \in 0 .. SeedBlocks(a) - 1
  BY <1>1, BlocksBound DEF SeedBlocks
<1>4. SeedBlocks(a) # 0
  <2>1. 1 \in 1 .. SeedLen[a]
    BY <1>1
  <2>2. (1 - 1) \div BlockLen[a] \in 0 .. SeedBlocks(a) - 1
    BY <1>3, <2>1
  <2> QED
    BY <1>3, <2>2
<1>5. Blocks(a, MaxRequest[a]) \in Nat
  BY <1>1, BlocksBound
<1>6. Blocks(a, MaxRequest[a]) + SeedBlocks(a) <= VMod[a]
  BY RequestFitsV
<1> QED
  BY <1>1, <1>2, <1>3, <1>4, <1>5, <1>6

(* The bytes of one request: all made with the KEY in c, all different, in *)
(* the blocks that follow V.                                               *)
LEMMA OutputBlocks ==
    ASSUME NEW c \in Context, c.alg \in Algs, c.off = 0, NEW n \in 0 .. MaxRequest[c.alg],
           NEW o, o = Output(c, n)
    PROVE  /\ o \in Seq(Names \X Nat \X Nat)
           /\ \A i, j \in DOMAIN o : o[i] = o[j] => i = j
           /\ \A b \in BlocksOf(o) : /\ b \in Names \X Nat
                                    /\ b[1] = c.name
                                    /\ b[2] \in 1 .. Blocks(c.alg, n)
<1> DEFINE a == c.alg
           B == BlockLen[a]
           V == VMod[a]
           at(i) == (i - 1) \div B
           in(i) == (i - 1) % B
<1>1. B \in Nat \ {0} /\ V \in Nat \ {0} /\ n \in Nat /\ c.name \in Names
  BY DrbgConstants DEF Context
<1>2. Blocks(a, n) \in Nat /\ Blocks(a, n) < V
  BY <1>1, RequestFits
<1>3. ASSUME NEW i \in 1 .. n
      PROVE  /\ at(i) \in 0 .. Blocks(a, n) - 1 /\ in(i) \in 0 .. B - 1
             /\ i - 1 = B * at(i) + in(i)
             /\ (c.off + 1 + at(i)) % V = 1 + at(i)
  <2>1. at(i) \in 0 .. Blocks(a, n) - 1
    BY <1>1, BlocksBound
  <2>2. i - 1 \in Nat
    OBVIOUS
  <2>3. in(i) \in 0 .. B - 1 /\ i - 1 = B * at(i) + in(i)
    BY <1>1, <2>2, Division
  <2> HIDE DEF at, in, B, V
  <2>4. c.off + 1 + at(i) = 1 + at(i)
    BY <2>1, <1>2
  <2>5. 1 + at(i) \in 1 .. V /\ 1 + at(i) # V
    BY <1>1, <1>2, <2>1
  <2>6. (1 + at(i)) % V = 1 + at(i)
    BY <1>1, <2>5, SmallOffset
  <2> QED
    BY <2>1, <2>3, <2>4, <2>6
<1> HIDE DEF at, in, V, B
<1>4. o = [i \in 1 .. n |-> <<c.name, (c.off + 1 + at(i)) % V, in(i)>>]
  BY DEF Output, at, in, V, B
<1>5. /\ DOMAIN o = 1 .. n
      /\ \A i \in 1 .. n : o[i] = <<c.name, 1 + at(i), in(i)>>
  BY <1>3, <1>4
<1>6. ASSUME NEW i \in 1 .. n
      PROVE  o[i] \in Names \X Nat \X Nat
  <2>1. 1 + at(i) \in Nat /\ in(i) \in Nat
    BY <1>1, <1>2, <1>3
  <2>2. <<c.name, 1 + at(i), in(i)>> \in Names \X Nat \X Nat
    BY <1>1, <2>1
  <2>3. o[i] = <<c.name, 1 + at(i), in(i)>>
    BY <1>5
  <2> QED
    BY <2>2, <2>3, Zenon
<1>7. o \in Seq(Names \X Nat \X Nat)
  <2>1. o \in [1 .. n -> Names \X Nat \X Nat]
    BY <1>4, <1>5, <1>6
  <2> QED
    BY <1>1, <2>1
<1>8. ASSUME NEW i \in 1 .. n, NEW j \in 1 .. n, o[i] = o[j]
      PROVE  i = j
  <2>1. 1 + at(i) = 1 + at(j) /\ in(i) = in(j)
    BY <1>5, <1>8
  <2>2. at(i) = at(j)
    BY <1>2, <1>3, <2>1
  <2>3. i - 1 = j - 1
    BY <1>3, <2>1, <2>2
  <2> QED
    BY <2>3
<1>9. ASSUME NEW b \in BlocksOf(o)
      PROVE  /\ b \in Names \X Nat /\ b[1] = c.name
             /\ b[2] \in 1 .. Blocks(a, n)
  <2>1. PICK i \in 1 .. n : b = <<o[i][1], o[i][2]>>
    BY <1>5 DEF BlocksOf
  <2>2. b = <<c.name, 1 + at(i)>>
    BY <1>5, <2>1
  <2>3. 1 + at(i) \in 1 .. Blocks(a, n) /\ 1 + at(i) \in Nat
    BY <1>2, <1>3
  <2> QED
    BY <1>1, <2>2, <2>3
<1> QED
  BY <1>5, <1>7, <1>8, <1>9

(* The blocks that make the next KEY come after those of the request.      *)
LEMMA KeyingBlocks ==
    ASSUME NEW c \in Context, c.alg \in Algs, c.off = 0,
           NEW n \in 0 .. MaxRequest[c.alg]
    PROVE  \A b \in Keying(c, Blocks(c.alg, n)) :
              /\ b \in Names \X Nat
              /\ b[1] = c.name
              /\ b[2] \notin 1 .. Blocks(c.alg, n)
<1> DEFINE a == c.alg
           V == VMod[a]
           u == Blocks(a, n)
<1>1. /\ u \in Nat /\ V \in Nat \ {0} /\ SeedBlocks(a) \in Nat
      /\ u + SeedBlocks(a) <= V /\ c.name \in Names
  BY RequestFits DEF Context
<1> HIDE DEF V, u
<1>2. SUFFICES ASSUME NEW b \in Keying(c, u)
               PROVE  b \in Names \X Nat /\ b[1] = c.name /\ b[2] \notin 1 .. u
  BY DEF u
<1>3. PICK i \in 1 .. SeedBlocks(a) : b = <<c.name, (c.off + u + i) % V>>
  BY <1>2 DEF Keying, Run, V
<1>4. c.off + u + i = u + i /\ u + i \in 1 .. V /\ u + i > u
  BY <1>1
<1>5. (u + i) % V = IF u + i = V THEN 0 ELSE u + i
  BY <1>1, <1>4, SmallOffset
<1> DEFINE at == (u + i) % V
<1>6. b = <<c.name, at>>
  BY <1>3, <1>4
<1>7. at \in Nat /\ at \notin 1 .. u
  BY <1>1, <1>4, <1>5
<1> HIDE DEF at
<1>8. b[1] = c.name /\ b[2] = at
  BY <1>6
<1>9. b \in Names \X Nat
  BY <1>1, <1>6, <1>7
<1> QED
  BY <1>7, <1>8, <1>9

(* A seeding uses the blocks that follow V, however many came before.      *)
LEMMA KeyingType ==
    ASSUME NEW c \in Context, c.alg \in Algs
    PROVE  \A b \in Keying(c, 0) : b \in Names \X Nat /\ b[1] = c.name
<1> DEFINE V == VMod[c.alg]
<1>1. /\ V \in Nat \ {0} /\ c.off \in Nat /\ c.name \in Names
      /\ SeedLen[c.alg] \in Nat
  BY DrbgConstants DEF Context
<1>2. SeedBlocks(c.alg) \in Nat
  BY <1>1, BlocksBound DEF SeedBlocks
<1> HIDE DEF V
<1>3. SUFFICES ASSUME NEW b \in Keying(c, 0)
               PROVE  b \in Names \X Nat /\ b[1] = c.name
  OBVIOUS
<1>4. PICK i \in 1 .. SeedBlocks(c.alg) : b = <<c.name, (c.off + 0 + i) % V>>
  BY <1>3 DEF Keying, Run, V
<1>5. c.off + 0 + i \in Nat
  BY <1>1, <1>2
<1> DEFINE at == (c.off + 0 + i) % V
<1>6. at \in 0 .. V - 1
  BY <1>1, <1>5, Division, Zenon
<1>7. at \in Nat
  BY <1>1, <1>6
<1>8. b = <<c.name, at>>
  BY <1>4
<1> HIDE DEF at
<1> QED
  BY <1>1, <1>7, <1>8

----------------------------------------------------------------------------
(* The inductive invariant.  NeverTwice is not inductive: it says nothing  *)
(* about blocks of earlier calls and blocks of later ones.  What keeps     *)
(* them apart is that every block computed so far was named by a KEY with  *)
(* fewer updates behind it than the KEY in the context has.                *)

Past == spent \cup BlocksOf(call.out) \cup call.keyed

Older(blocks, updates) == \A b \in blocks : Len(b[1]) < updates

IInv ==
    /\ TypeOK
    /\ ctx.off = 0
    /\ Older(Past, Len(ctx.name))
    /\ NeverTwice

(* Every seed a call can form from byte strings is well formed.            *)
LEMMA SeedTypes ==
    ASSUME NEW a \in Algs, NEW x \in Seq(Bytes), NEW y \in Seq(Bytes), NEW z \in Seq(Bytes)
    PROVE  SeedFrom(a, x, y, z) \in Seed /\ Provided(a, z) \in Seed
<1>1. SeedLen[a] \in Nat /\ UseDf[a] \in BOOLEAN
  BY DrbgConstants
<1>2. {} \in Bytes /\ \A p, q \in Bytes : Xor(p, q) \in Bytes
  BY DEF Bytes, Xor
<1>3. ASSUME NEW s \in Seq(Bytes)
      PROVE  \A i \in 1 .. SeedLen[a] : Padded(a, s)[i] \in Bytes
  <2>1. \A i \in 1 .. SeedLen[a] : i <= Len(s) => s[i] \in Bytes
    BY <1>1
  <2> QED
    BY <1>1, <1>2, <2>1 DEF Padded
<1>4. ASSUME NEW s \in Seq(Bytes), NEW t \in Seq(Bytes)
      PROVE  PlainSeed(a, s, t) \in Seed
  <2> DEFINE n == SeedLen[a]
             bytes == [i \in 1 .. n |-> Xor(Padded(a, s)[i], Padded(a, t)[i])]
  <2>1. n \in Nat /\ bytes \in [1 .. n -> Bytes]
    BY <1>1, <1>2, <1>3
  <2> HIDE DEF bytes, n
  <2>2. bytes \in Seq(Bytes)
    BY <2>1
  <2>3. PlainSeed(a, s, t) = [df |-> FALSE, bytes |-> bytes]
    BY DEF PlainSeed, bytes, n
  <2> QED
    BY <2>2, <2>3 DEF Seed
<1>5. \A s \in Seq(Bytes) : DfSeed(s) \in Seed
  BY DEF DfSeed, Seed
<1>6. x \o y \o z \in Seq(Bytes) /\ <<>> \in Seq(Bytes)
  OBVIOUS
<1>7. SeedFrom(a, x, y, z) \in Seed
  BY <1>4, <1>5, <1>6 DEF SeedFrom
<1>8. Provided(a, z) \in Seed
  BY <1>4, <1>5, <1>6 DEF Provided
<1> QED
  BY <1>7, <1>8

(* What a draw returns is a string of bytes.                               *)
LEMMA OsBytesType ==
    ASSUME NEW k \in Nat, NEW n \in Nat
    PROVE  OsBytes(k, n) \in Seq(Bytes)
<1>1. \A i \in 1 .. n : {<<k, i>>} \in Bytes
  BY DEF Bytes, Unknown
<1>2. OsBytes(k, n) \in [1 .. n -> Bytes]
  BY <1>1 DEF OsBytes
<1> QED
  BY <1>2

(* ctr_drbg_update: one more update behind KEY, V back at its start, all   *)
(* else as it was.                                                         *)
LEMMA RekeyedFacts ==
    ASSUME NEW c \in Context, c.alg \in Algs, NEW used \in Nat, NEW seed \in Seed
    PROVE  /\ Rekeyed(c, used, seed) \in Context
           /\ Rekeyed(c, used, seed).off = 0
           /\ Rekeyed(c, used, seed).alg = c.alg
           /\ Rekeyed(c, used, seed).inst = c.inst
           /\ Rekeyed(c, used, seed).counter = c.counter
           /\ Len(Rekeyed(c, used, seed).name) = Len(c.name) + 1
           /\ \E at \in Nat : Rekeyed(c, used, seed).name
                               = Append(c.name, [at |-> at, seed |-> seed])
<1> DEFINE V == VMod[c.alg]
           at == (c.off + used) % V
           name == Append(c.name, [at |-> at, seed |-> seed])
<1>1. V \in Nat \ {0} /\ c.off + used \in Nat /\ c.name \in Names
  BY DrbgConstants DEF Context
<1> HIDE DEF V
<1>2. at \in 0 .. V - 1
  BY <1>1, Division, Zenon
<1>3. at \in Nat
  BY <1>1, <1>2
<1> HIDE DEF at
<1>4. [at |-> at, seed |-> seed] \in [at : Nat, seed : [df : BOOLEAN, bytes : Seq(Bytes)]]
  BY <1>3 DEF Seed
<1>5. name \in Names /\ Len(name) = Len(c.name) + 1
  BY <1>1, <1>4 DEF Names
<1>6. Rekeyed(c, used, seed) = [c EXCEPT !.name = name, !.off = 0]
  BY DEF Rekeyed, name, at, V
<1>10. name = Append(c.name, [at |-> at, seed |-> seed])
  OBVIOUS
<1> HIDE DEF name
<1>7. /\ c = [alg |-> c.alg, inst |-> c.inst, counter |-> c.counter,
              name |-> c.name, off |-> c.off]
      /\ c.alg \in Algs \cup {NoAlg} /\ c.inst \in BOOLEAN /\ c.counter \in Nat
  BY DEF Context
<1>8. Rekeyed(c, used, seed) = [alg |-> c.alg, inst |-> c.inst, counter |-> c.counter,
                                name |-> name, off |-> 0]
  BY <1>6, <1>7
<1>9. Rekeyed(c, used, seed) \in Context
  BY <1>5, <1>7, <1>8 DEF Context
<1> QED
  BY <1>3, <1>5, <1>8, <1>9, <1>10

(* A context being instantiated has no key yet.                            *)
LEMMA BlankFacts ==
    ASSUME NEW a \in Algs
    PROVE  /\ Blank(a) \in Context /\ Blank(a).alg = a
           /\ Blank(a).name = <<>> /\ Len(Blank(a).name) = 0
<1> DEFINE none == <<>>
<1>1. Blank(a) = [Cleared EXCEPT !.alg = a]
  BY DEF Blank
<1>2. Cleared = [alg |-> NoAlg, inst |-> FALSE, counter |-> 0, name |-> none, off |-> 0]
  BY DEF Cleared
<1>3. none \in Names /\ Len(none) = 0
  BY DEF Names
<1> HIDE DEF none
<1>4. Blank(a) = [alg |-> a, inst |-> FALSE, counter |-> 0, name |-> none, off |-> 0]
  BY <1>1, <1>2
<1>5. Blank(a) \in Context /\ Blank(a).alg = a /\ Blank(a).name = none
  BY <1>3, <1>4 DEF Context
<1> QED
  BY <1>3, <1>5 DEF none

(* The first seeding and any later one set RESEED_COUNTER to one.          *)
LEMMA SeededFacts ==
    ASSUME NEW a \in Algs, NEW seed \in Seed
    PROVE  /\ Seeded(a, Blank(a), seed) \in Context
           /\ Seeded(a, Blank(a), seed).off = 0
           /\ Seeded(a, Blank(a), seed).alg = a
           /\ Seeded(a, Blank(a), seed).inst
           /\ Seeded(a, Blank(a), seed).counter = 1
           /\ Len(Seeded(a, Blank(a), seed).name) = 1
<1>1. /\ Rekeyed(Blank(a), 0, seed) \in Context /\ Rekeyed(Blank(a), 0, seed).off = 0
      /\ Len(Rekeyed(Blank(a), 0, seed).name) = 1
  <2> DEFINE c == Blank(a)
  <2>1. c \in Context /\ c.alg \in Algs /\ 0 \in Nat /\ Len(c.name) = 0
    BY BlankFacts
  <2> HIDE DEF c
  <2>2. Rekeyed(c, 0, seed) \in Context /\ Rekeyed(c, 0, seed).off = 0
        /\ Len(Rekeyed(c, 0, seed).name) = Len(c.name) + 1
    BY <2>1, RekeyedFacts
  <2> QED
    BY <2>1, <2>2 DEF c
<1> DEFINE r == Rekeyed(Blank(a), 0, seed)
<1>2. r \in Context /\ r.off = 0 /\ Len(r.name) = 1
  BY <1>1
<1>3. Seeded(a, Blank(a), seed) = [[[r EXCEPT !.alg = a] EXCEPT !.inst = TRUE]
                                      EXCEPT !.counter = 1]
  BY DEF Seeded
<1> HIDE DEF r
<1>4. /\ r = [alg |-> r.alg, inst |-> r.inst, counter |-> r.counter,
              name |-> r.name, off |-> r.off]
      /\ r.name \in Names
  BY <1>2 DEF Context
<1>5. Seeded(a, Blank(a), seed)
        = [alg |-> a, inst |-> TRUE, counter |-> 1, name |-> r.name, off |-> r.off]
  BY <1>3, <1>4
<1> QED
  BY <1>2, <1>4, <1>5 DEF Context

(* Reseeding takes a new KEY and starts counting again.                    *)
LEMMA ReseededFacts ==
    ASSUME NEW c \in Context, c.alg \in Algs, NEW seed \in Seed
    PROVE  /\ Reseeded(c, seed) \in Context
           /\ Reseeded(c, seed).off = 0
           /\ Reseeded(c, seed).alg = c.alg
           /\ Reseeded(c, seed).inst = c.inst
           /\ \E at \in Nat : Reseeded(c, seed).name
                               = Append(c.name, [at |-> at, seed |-> seed])
           /\ Reseeded(c, seed).counter = 1
           /\ Len(Reseeded(c, seed).name) = Len(c.name) + 1
<1> DEFINE r == Rekeyed(c, 0, seed)
<1>1. /\ r \in Context /\ r.off = 0 /\ r.alg = c.alg /\ r.inst = c.inst
      /\ Len(r.name) = Len(c.name) + 1
      /\ \E at \in Nat : r.name = Append(c.name, [at |-> at, seed |-> seed])
  BY RekeyedFacts
<1>2. Reseeded(c, seed) = [r EXCEPT !.counter = 1]
  BY DEF Reseeded
<1> HIDE DEF r
<1> QED
  BY SMTT(20), <1>1, <1>2 DEF Context

(* A request served from a context that is fit to serve.                   *)
LEMMA ServedFacts ==
    ASSUME NEW c \in Context, c.alg \in Algs, c.off = 0,
           NEW n \in 0 .. MaxRequest[c.alg], NEW additional \in Seq(Bytes)
    PROVE  LET s == Served(c, n, additional)
               o == Output(Mixed(c, additional), n)
               k == Consumed(c, n, additional)
           IN  /\ s \in Context /\ s.off = 0 /\ s.alg = c.alg
               /\ s.counter = c.counter + 1 /\ Len(s.name) > Len(c.name)
               /\ o \in Seq(Names \X Nat \X Nat)
               /\ \A i, j \in DOMAIN o : o[i] = o[j] => i = j
               /\ \A b \in BlocksOf(o) \cup k :
                     /\ b \in Names \X Nat
                     /\ Len(c.name) <= Len(b[1]) /\ Len(b[1]) < Len(s.name)
               /\ BlocksOf(o) \cap k = {}
<1> DEFINE a == c.alg
           m == Mixed(c, additional)
           u == Blocks(a, n)
           seed == Provided(a, additional)
           r == Rekeyed(m, u, seed)
           s == Served(c, n, additional)
           o == Output(m, n)
           k == Consumed(c, n, additional)
<1>1. seed \in Seed
  BY SeedTypes
<1>2. u \in Nat
  BY RequestFits
<1> HIDE DEF seed
<1>3. /\ m \in Context /\ m.off = 0 /\ m.alg = a /\ m.counter = c.counter
      /\ additional = <<>> => m = c
      /\ additional # <<>> => Len(m.name) = Len(c.name) + 1
  <2>1. CASE additional = <<>>
    BY <2>1 DEF Mixed
  <2>2. CASE additional # <<>>
    <3>1. m = Rekeyed(c, 0, seed)
      BY <2>2 DEF Mixed, seed
    <3> QED
      BY <1>1, <2>2, <3>1, RekeyedFacts
  <2> QED
    BY <2>1, <2>2
<1>4. Len(c.name) \in Nat /\ Len(m.name) \in Nat /\ Len(c.name) <= Len(m.name)
  BY <1>3 DEF Context, Names
<1> HIDE DEF m, u
<1>5. /\ r \in Context /\ r.off = 0 /\ r.alg = a /\ r.counter = c.counter
      /\ Len(r.name) = Len(m.name) + 1
  BY <1>1, <1>2, <1>3, RekeyedFacts
<1>6. s = [r EXCEPT !.counter = @ + 1]
  BY DEF Served, r, u, m, seed
<1> HIDE DEF r, s
<1>7. /\ s \in Context /\ s.off = 0 /\ s.alg = a /\ s.counter = c.counter + 1
      /\ s.name = r.name
  BY <1>5, <1>6 DEF Context
<1>8. /\ o \in Seq(Names \X Nat \X Nat)
      /\ \A i, j \in DOMAIN o : o[i] = o[j] => i = j
      /\ \A b \in BlocksOf(o) : b \in Names \X Nat /\ b[1] = m.name /\ b[2] \in 1 .. u
  BY <1>3, OutputBlocks DEF u
<1>9. \A b \in Keying(m, u) :
         b \in Names \X Nat /\ b[1] = m.name /\ b[2] \notin 1 .. u
  BY <1>3, KeyingBlocks DEF u
<1>10. \A b \in Keying(c, 0) : b \in Names \X Nat /\ b[1] = c.name
  BY KeyingType
<1>11. k = (IF additional = <<>> THEN {} ELSE Keying(c, 0)) \cup Keying(m, u)
  BY DEF k, Consumed, m, u
<1> HIDE DEF o, k
<1>12. ASSUME NEW b \in BlocksOf(o) \cup k
       PROVE  /\ b \in Names \X Nat
              /\ Len(c.name) <= Len(b[1]) /\ Len(b[1]) < Len(s.name)
  <2>1. b \in Names \X Nat /\ (b[1] = m.name \/ b[1] = c.name)
    BY <1>8, <1>9, <1>10, <1>11, <1>12
  <2> QED
    BY <1>4, <1>5, <1>7, <2>1
<1>13. ASSUME NEW b \in BlocksOf(o), b \in k
       PROVE  FALSE
  <2>1. b[1] = m.name /\ b[2] \in 1 .. u
    BY <1>8, <1>13
  <2>2. additional # <<>> /\ b \in Keying(c, 0)
    BY <1>9, <1>11, <1>13, <2>1
  <2>3. Len(m.name) = Len(c.name) + 1 /\ m.name = c.name
    BY <1>3, <1>10, <2>1, <2>2
  <2> QED
    BY <1>4, <2>3
<1>14. BlocksOf(o) \cap k = {}
  BY <1>13
<1>15. Len(s.name) > Len(c.name)
  BY <1>4, <1>5, <1>7
<1> QED
  BY <1>7, <1>8, <1>12, <1>14, <1>15 DEF a, m, o, k, s

----------------------------------------------------------------------------
(* Every call either leaves the context, forgets it, or puts at least one  *)
(* more update behind its KEY.                                             *)

(* What was delivered or used is made of blocks.                           *)
LEMMA PastTypes ==
    ASSUME TypeOK
    PROVE  Past \in SUBSET (Names \X Nat)
<1>1. call.out \in Seq(Names \X Nat \X Nat)
  BY DEF TypeOK
<1>2. ASSUME NEW b \in BlocksOf(call.out)
      PROVE  b \in Names \X Nat
  <2>1. PICK i \in DOMAIN call.out : b = <<call.out[i][1], call.out[i][2]>>
    BY DEF BlocksOf
  <2>2. call.out[i] \in Names \X Nat \X Nat
    BY <1>1, <2>1
  <2> QED
    BY <2>1, <2>2
<1> QED
  BY <1>2 DEF Past, TypeOK

(* A call that delivers nothing.                                           *)
LEMMA QuietFacts ==
    ASSUME NEW code \in Codes
    PROVE  /\ Quiet(code) \in [ret : Codes, out : Seq(Names \X Nat \X Nat),
                                keyed : SUBSET (Names \X Nat), pr : BOOLEAN]
           /\ Quiet(code).out = <<>> /\ Quiet(code).keyed = {}
           /\ BlocksOf(Quiet(code).out) = {}
<1>1. Quiet(code) = [ret |-> code, out |-> <<>>, keyed |-> {}, pr |-> FALSE]
  BY DEF Quiet
<1>2. <<>> \in Seq(Names \X Nat \X Nat) /\ DOMAIN <<>> = {}
  OBVIOUS
<1> QED
  BY <1>1, <1>2 DEF BlocksOf

(* What an action that succeeds has to show of the context it leaves and   *)
(* of the call it reports, apart from the history.                         *)
Succeeds ==
    /\ ctx' \in Context /\ ctx'.off = 0
    /\ ctx'.inst => ctx'.alg \in Algs /\ ctx'.counter \in 1 .. Interval[ctx'.alg] + 1
    /\ draws' \in Nat
    /\ call' \in [ret : Codes, out : Seq(Names \X Nat \X Nat),
                  keyed : SUBSET (Names \X Nat), pr : BOOLEAN]
    /\ \A i, j \in DOMAIN call'.out : call'.out[i] = call'.out[j] => i = j
    /\ BlocksOf(call'.out) \cap call'.keyed = {}
    /\ Older(BlocksOf(call'.out) \cup call'.keyed, Len(ctx'.name))

(* A successful instantiation: nothing was used before.                    *)
LEMMA Anew ==
    ASSUME Succeeds, spent' = {}
    PROVE  IInv'
<1>1. TypeOK'
  BY DEF Succeeds, TypeOK
<1>2. Older(Past, Len(ctx.name))'
  BY DEF Succeeds, Older, Past
<1>3. NeverTwice'
  BY DEF Succeeds, NeverTwice
<1> QED
  BY <1>1, <1>2, <1>3 DEF IInv, Succeeds

(* A later success: what it uses is under the KEYs from here on.           *)
LEMMA Onward ==
    ASSUME IInv, Succeeds, spent' = Past,
           Len(ctx'.name) >= Len(ctx.name),
           \A b \in BlocksOf(call'.out) \cup call'.keyed : Len(b[1]) >= Len(ctx.name)
    PROVE  IInv'
<1>1. Past \in SUBSET (Names \X Nat)
  BY PastTypes DEF IInv
<1>2. TypeOK'
  BY <1>1 DEF Succeeds, TypeOK
<1>3. Len(ctx.name) \in Nat /\ Len(ctx'.name) \in Nat
  BY DEF IInv, TypeOK, Succeeds, Context, Names
<1>4. \A b \in Past : Len(b[1]) \in Nat /\ Len(b[1]) < Len(ctx.name)
  <2>1. \A b \in Past : b[1] \in Names
    BY <1>1
  <2>2. \A x \in Names : Len(x) \in Nat
    BY DEF Names
  <2> QED
    BY <2>1, <2>2 DEF IInv, Older
<1>5. Older(Past, Len(ctx.name))'
  <2>1. SUFFICES ASSUME NEW b \in Past' PROVE Len(b[1]) < Len(ctx'.name)
    BY DEF Older
  <2>2. CASE b \in Past
    BY <1>3, <1>4, <2>2
  <2>3. CASE b \in BlocksOf(call'.out) \cup call'.keyed
    BY <2>3 DEF Succeeds, Older
  <2> QED
    BY <2>1, <2>2, <2>3 DEF Past
<1>6. (BlocksOf(call'.out) \cup call'.keyed) \cap spent' = {}
  <2>1. SUFFICES ASSUME NEW b \in BlocksOf(call'.out) \cup call'.keyed, b \in Past
                 PROVE  FALSE
    OBVIOUS
  <2>2. Len(b[1]) >= Len(ctx.name)
    BY <2>1
  <2>3. Len(b[1]) < Len(ctx.name) /\ Len(b[1]) \in Nat
    BY <1>4, <2>1
  <2> QED
    BY <1>3, <2>2, <2>3
<1>7. NeverTwice'
  BY <1>6 DEF Succeeds, NeverTwice
<1> QED
  BY <1>2, <1>5, <1>7 DEF IInv, Succeeds

(* A call refused by its checks changes nothing but the answer.            *)
LEMMA Refused ==
    ASSUME IInv, NEW code \in Codes, Refuse(code), draws' \in Nat
    PROVE  IInv'
<1>1. /\ ctx' = ctx /\ call' = Quiet(code)
      /\ call'.out = <<>> /\ call'.keyed = {} /\ BlocksOf(call'.out) = {}
  BY QuietFacts DEF Refuse
<1>2. Len(ctx.name) \in Nat
  BY DEF IInv, TypeOK, Context, Names
<1>3. call' \in [ret : Codes, out : Seq(Names \X Nat \X Nat),
                keyed : SUBSET (Names \X Nat), pr : BOOLEAN]
  BY <1>1, QuietFacts
<1>4. Succeeds
  <2>1. \A i, j \in DOMAIN call'.out : call'.out[i] = call'.out[j] => i = j
    BY <1>1
  <2>2. BlocksOf(call'.out) \cap call'.keyed = {} /\ Older(BlocksOf(call'.out) \cup call'.keyed, Len(ctx'.name))
    BY <1>1 DEF Older
  <2> QED
    BY <1>1, <1>3, <2>1, <2>2 DEF Succeeds, IInv, TypeOK
<1>5. spent' = Past
  BY DEF Refuse, Past
<1> QED
  BY <1>1, <1>2, <1>4, <1>5, Onward

(* A call that fails underway, or LIBERAC_CTR_DRBG_CLEAR.                  *)
LEMMA Wiped ==
    ASSUME NEW code \in Codes, Wipe(code), draws' \in Nat
    PROVE  IInv'
<1>1. /\ ctx' = Cleared /\ call' = Quiet(code)
      /\ call'.out = <<>> /\ call'.keyed = {} /\ BlocksOf(call'.out) = {}
  BY QuietFacts DEF Wipe
<1>2. /\ Cleared \in Context /\ Cleared.off = 0 /\ Cleared.inst = FALSE
  BY DEF Cleared, Context, Names
<1>3. call' \in [ret : Codes, out : Seq(Names \X Nat \X Nat),
                keyed : SUBSET (Names \X Nat), pr : BOOLEAN]
  BY <1>1, QuietFacts
<1>4. Succeeds
  BY <1>1, <1>2, <1>3 DEF Succeeds, Older
<1>5. spent' = {}
  BY DEF Wipe
<1> QED
  BY <1>4, <1>5, Anew

(* The answers of the seed computations.                                   *)
LEMMA OutcomeCodes ==
    ASSUME NEW a \in Algs, NEW x \in Seq(Bytes), NEW y \in Seq(Bytes), NEW z \in Seq(Bytes)
    PROVE  /\ InstantiateOutcomes(a, x, y, z) \subseteq Codes
           /\ ReseedOutcomes(a, x, z) \subseteq Codes
           /\ AdditionalOutcomes(a, z) \subseteq Codes
<1>1. \A n : DfOutcomes(n) \subseteq Codes
  BY DEF DfOutcomes, Codes
<1>2. {"INVALID_ARGUMENT"} \subseteq Codes /\ {"SUCCESS"} \subseteq Codes
  BY DEF Codes
<1>3. InstantiateOutcomes(a, x, y, z) \subseteq Codes
  BY <1>1, <1>2, Zenon DEF InstantiateOutcomes
<1>4. ReseedOutcomes(a, x, z) \subseteq Codes
  BY <1>1, <1>2, Zenon DEF ReseedOutcomes
<1>5. AdditionalOutcomes(a, z) \subseteq Codes
  BY <1>1, <1>2, Zenon DEF AdditionalOutcomes
<1> QED
  BY <1>3, <1>4, <1>5

(* The draws of the resistant and of the instantiating calls.              *)
LEMMA OsEntropy ==
    ASSUME TypeOK, NEW a \in Algs, NEW k \in Nat
    PROVE  /\ OsBytes(draws + k, EntropyLen(a)) \in Seq(Bytes)
           /\ OsBytes(draws + k, NonceLen(a)) \in Seq(Bytes)
<1>1. draws + k \in Nat
  BY DEF TypeOK
<1>2. Security[a] \in Nat /\ SeedLen[a] \in Nat
  BY DrbgConstants
<1>3. Security[a] + 1 \in Nat /\ 2 \in Nat \ {0}
  BY <1>2
<1>4. (Security[a] + 1) \div 2 \in Nat
  BY <1>3, Division
<1>5. EntropyLen(a) \in Nat /\ NonceLen(a) \in Nat
  BY <1>2, <1>4 DEF EntropyLen, NonceLen
<1> QED
  BY <1>1, <1>5, OsBytesType

(* A first seeding.                                                        *)
LEMMA InstantiateStep ==
    ASSUME NEW a \in Algs, NEW x \in Seq(Bytes), NEW y \in Seq(Bytes), NEW z \in Seq(Bytes),
           InstantiateWith(a, x, y, z), draws' \in Nat
    PROVE  IInv'
<1> DEFINE seed == SeedFrom(a, x, y, z)
           c == Seeded(a, Blank(a), seed)
<1>1. PICK code \in InstantiateOutcomes(a, x, y, z) :
         IF code # "SUCCESS" THEN Wipe(code)
         ELSE /\ ctx'  = c
              /\ call' = [Quiet(code) EXCEPT !.keyed = Keying(Blank(a), 0)]
              /\ spent' = {}
  BY DEF InstantiateWith
<1>2. code \in Codes
  BY OutcomeCodes
<1>3. CASE code # "SUCCESS"
  BY <1>1, <1>2, <1>3, Wiped
<1>4. CASE code = "SUCCESS"
  <2>1. /\ ctx' = c /\ spent' = {}
        /\ call' = [Quiet(code) EXCEPT !.keyed = Keying(Blank(a), 0)]
    BY <1>1, <1>4
  <2>2. seed \in Seed
    BY SeedTypes
  <2> HIDE DEF seed
  <2>3. c \in Context /\ c.off = 0 /\ c.alg = a /\ c.counter = 1 /\ Len(c.name) = 1
    BY <2>2, SeededFacts
  <2>4. /\ Blank(a) \in Context /\ Blank(a).alg = a /\ Blank(a).name = <<>>
    BY BlankFacts
  <2>5. \A b \in Keying(Blank(a), 0) : b \in Names \X Nat /\ b[1] = <<>>
    BY <2>4, KeyingType
  <2> HIDE DEF c
  <2>6. /\ call' \in [ret : Codes, out : Seq(Names \X Nat \X Nat),
                      keyed : SUBSET (Names \X Nat), pr : BOOLEAN]
        /\ call'.out = <<>> /\ call'.keyed = Keying(Blank(a), 0)
    BY <1>2, <2>1, <2>5, QuietFacts
  <2>7. BlocksOf(call'.out) = {} /\ DOMAIN call'.out = {}
    BY <2>6 DEF BlocksOf
  <2>8. Older(BlocksOf(call'.out) \cup call'.keyed, Len(ctx'.name))
    <3>1. Len(<<>>) = 0
      OBVIOUS
    <3>2. Len(ctx'.name) = 1
      BY <2>1, <2>3
    <3>3. SUFFICES ASSUME NEW b \in call'.keyed PROVE Len(b[1]) < 1
      BY <2>7, <3>2 DEF Older
    <3>4. b[1] = <<>>
      BY <2>5, <2>6
    <3> QED
      BY <3>1, <3>4
  <2>9. Interval[a] + 1 \in Nat /\ 1 \in 1 .. Interval[a] + 1
    BY DrbgConstants
  <2>10. \A i, j \in DOMAIN call'.out : call'.out[i] = call'.out[j] => i = j
    BY <2>7
  <2>11. Succeeds
    BY <2>1, <2>3, <2>6, <2>7, <2>8, <2>9, <2>10 DEF Succeeds
  <2> QED
    BY <2>1, <2>11, Anew
<1> QED
  BY <1>3, <1>4

(* A later one.                                                            *)
LEMMA ReseedStep ==
    ASSUME IInv, ctx.inst, NEW x \in Seq(Bytes), NEW z \in Seq(Bytes),
           ReseedWith(x, z), draws' \in Nat
    PROVE  IInv'
<1> DEFINE a == ctx.alg
           seed == SeedFrom(a, x, <<>>, z)
           c == Reseeded(ctx, seed)
<1>1. PICK code \in ReseedOutcomes(a, x, z) :
         IF code # "SUCCESS" THEN Refuse(code)
         ELSE /\ ctx'  = c
              /\ call' = [Quiet(code) EXCEPT !.keyed = Keying(ctx, 0)]
              /\ spent' = spent \cup BlocksOf(call.out) \cup call.keyed
  BY DEF ReseedWith
<1>2. ctx \in Context /\ a \in Algs /\ <<>> \in Seq(Bytes)
  BY DEF IInv, TypeOK
<1>3. code \in Codes
  BY <1>2, OutcomeCodes
<1>4. CASE code # "SUCCESS"
  BY <1>1, <1>3, <1>4, Refused
<1>5. CASE code = "SUCCESS"
  <2>1. /\ ctx' = c /\ spent' = Past
        /\ call' = [Quiet(code) EXCEPT !.keyed = Keying(ctx, 0)]
    BY <1>1, <1>5 DEF Past
  <2>2. seed \in Seed
    BY <1>2, SeedTypes
  <2> HIDE DEF seed
  <2>3. /\ c \in Context /\ c.off = 0 /\ c.alg = a /\ c.counter = 1
        /\ Len(c.name) = Len(ctx.name) + 1
    BY <1>2, <2>2, ReseededFacts
  <2>4. \A b \in Keying(ctx, 0) : b \in Names \X Nat /\ b[1] = ctx.name
    BY <1>2, KeyingType
  <2> HIDE DEF c
  <2>5. Len(ctx.name) \in Nat
    BY <1>2 DEF Context, Names
  <2>6. /\ call' \in [ret : Codes, out : Seq(Names \X Nat \X Nat),
                      keyed : SUBSET (Names \X Nat), pr : BOOLEAN]
        /\ call'.out = <<>> /\ call'.keyed = Keying(ctx, 0)
    <3> DEFINE k == Keying(ctx, 0)
    <3>1. k \in SUBSET (Names \X Nat)
      BY <2>4
    <3>2. call' = [ret |-> code, out |-> <<>>, keyed |-> k, pr |-> FALSE]
      BY <2>1 DEF Quiet
    <3> HIDE DEF k
    <3>3. <<>> \in Seq(Names \X Nat \X Nat)
      OBVIOUS
    <3>4. call' \in [ret : Codes, out : Seq(Names \X Nat \X Nat),
                    keyed : SUBSET (Names \X Nat), pr : BOOLEAN]
      BY <1>3, <3>1, <3>2, <3>3
    <3> QED
      BY <3>2, <3>4 DEF k
  <2>7. BlocksOf(call'.out) = {} /\ DOMAIN call'.out = {}
    BY <2>6 DEF BlocksOf
  <2>8. Older(BlocksOf(call'.out) \cup call'.keyed, Len(ctx'.name))
    BY <2>1, <2>3, <2>4, <2>5, <2>6, <2>7 DEF Older
  <2>9. Interval[a] + 1 \in Nat /\ 1 \in 1 .. Interval[a] + 1
    BY SMTT(20), <1>2, DrbgConstants
  <2>10. \A i, j \in DOMAIN call'.out : call'.out[i] = call'.out[j] => i = j
    BY <2>7
  <2>11. Succeeds
    <3>1. ctx'.alg \in Algs /\ ctx'.counter \in 1 .. Interval[ctx'.alg] + 1
      BY <1>2, <2>1, <2>3, <2>9
    <3> QED
      BY <3>1, <2>1, <2>3, <2>6, <2>7, <2>8, <2>9, <2>10 DEF Succeeds
  <2>12. /\ Len(ctx'.name) >= Len(ctx.name)
         /\ \A b \in BlocksOf(call'.out) \cup call'.keyed : Len(b[1]) >= Len(ctx.name)
    BY <2>1, <2>3, <2>4, <2>5, <2>6, <2>7
  <2> QED
    BY <2>1, <2>11, <2>12, Onward
<1> QED
  BY <1>4, <1>5

(* A request served from a context c that is the present one or the        *)
(* present one reseeded, first being the blocks the reseed consumed.       *)
LEMMA ServeStep ==
    ASSUME IInv, NEW c \in Context, c.alg \in Algs, c.off = 0,
           c.counter \in 1 .. Interval[c.alg],
           Len(c.name) >= Len(ctx.name),
           NEW first \in SUBSET (Names \X Nat),
           \A b \in first : b[1] = ctx.name /\ Len(ctx.name) < Len(c.name),
           NEW n \in 0 .. MaxRequest[c.alg], NEW additional \in Seq(Bytes),
           NEW pr \in BOOLEAN,
           ctx' = Served(c, n, additional),
           call' = [ret |-> "SUCCESS", pr |-> pr,
                    out |-> Output(Mixed(c, additional), n),
                    keyed |-> first \cup Consumed(c, n, additional)],
           spent' = Past, draws' \in Nat
    PROVE  IInv'
<1> DEFINE s == Served(c, n, additional)
           o == Output(Mixed(c, additional), n)
           k == Consumed(c, n, additional)
<1>1. /\ s \in Context /\ s.off = 0 /\ s.alg = c.alg
      /\ s.counter = c.counter + 1 /\ Len(s.name) > Len(c.name)
      /\ o \in Seq(Names \X Nat \X Nat)
      /\ \A i, j \in DOMAIN o : o[i] = o[j] => i = j
      /\ \A b \in BlocksOf(o) \cup k :
            /\ b \in Names \X Nat
            /\ Len(c.name) <= Len(b[1]) /\ Len(b[1]) < Len(s.name)
      /\ BlocksOf(o) \cap k = {}
  BY ServedFacts
<1>2. /\ ctx' = s /\ call'.out = o /\ call'.keyed = first \cup k
      /\ call' = [ret |-> "SUCCESS", pr |-> pr, out |-> o, keyed |-> first \cup k]
  OBVIOUS
<1> HIDE DEF s, o, k
<1>3. /\ Len(ctx.name) \in Nat /\ Len(c.name) \in Nat /\ Len(s.name) \in Nat
      /\ \A b \in Names \X Nat : Len(b[1]) \in Nat
  <2>1. \A x \in Names : Len(x) \in Nat
    BY DEF Names
  <2>2. ctx.name \in Names /\ c.name \in Names /\ s.name \in Names
    BY <1>1 DEF IInv, TypeOK, Context
  <2>3. \A b \in Names \X Nat : b[1] \in Names
    OBVIOUS
  <2> QED
    BY <2>1, <2>2, <2>3
<1>4. Len(s.name) > Len(c.name)
  BY <1>1
<1>5. \A b \in BlocksOf(o) \cup (first \cup k) :
         Len(b[1]) >= Len(ctx.name) /\ Len(b[1]) < Len(s.name)
  <2>1. SUFFICES ASSUME NEW b \in BlocksOf(o) \cup (first \cup k)
                 PROVE  Len(b[1]) >= Len(ctx.name) /\ Len(b[1]) < Len(s.name)
    OBVIOUS
  <2>2. CASE b \in first
    BY <1>3, <1>4, <2>2
  <2>3. CASE b \in BlocksOf(o) \cup k
    BY SMTT(20), <1>1, <1>3, <2>3
  <2> QED
    BY <2>1, <2>2, <2>3
<1>6. BlocksOf(o) \cap (first \cup k) = {}
  <2>1. SUFFICES ASSUME NEW b \in BlocksOf(o), b \in first
                 PROVE  FALSE
    BY <1>1
  <2>2. Len(c.name) <= Len(b[1]) /\ b[1] = ctx.name /\ Len(ctx.name) < Len(c.name)
    BY <1>1, <2>1
  <2> QED
    BY <1>3, <2>2
<1>7. first \cup k \in SUBSET (Names \X Nat)
  BY <1>1
<1>8. call' \in [ret : Codes, out : Seq(Names \X Nat \X Nat),
                keyed : SUBSET (Names \X Nat), pr : BOOLEAN]
  <2>1. "SUCCESS" \in Codes
    BY DEF Codes
  <2> DEFINE keyed == first \cup k
  <2>2. keyed \in SUBSET (Names \X Nat)
    BY <1>7
  <2>3. call' = [ret |-> "SUCCESS", pr |-> pr, out |-> o, keyed |-> keyed]
    BY <1>2
  <2> HIDE DEF keyed
  <2> QED
    BY <1>1, <2>1, <2>2, <2>3
<1>9. ctx'.alg \in Algs /\ ctx'.counter \in 1 .. Interval[ctx'.alg] + 1
  <2>1. Interval[c.alg] \in Nat
    BY DrbgConstants
  <2> QED
    BY SMTT(20), <1>1, <1>2, <2>1
<1>10. \A i, j \in DOMAIN call'.out : call'.out[i] = call'.out[j] => i = j
  BY <1>1, <1>2
<1>11. BlocksOf(call'.out) \cap call'.keyed = {}
  BY <1>2, <1>6
<1>12. Older(BlocksOf(call'.out) \cup call'.keyed, Len(ctx'.name))
  BY <1>2, <1>5 DEF Older
<1>13. Succeeds
  BY <1>1, <1>2, <1>8, <1>9, <1>10, <1>11, <1>12 DEF Succeeds
<1>14. /\ Len(ctx'.name) >= Len(ctx.name)
       /\ \A b \in BlocksOf(call'.out) \cup call'.keyed : Len(b[1]) >= Len(ctx.name)
  BY <1>2, <1>3, <1>4, <1>5
<1> QED
  BY <1>13, <1>14, Onward

(* LIBERAC_CTR_DRBG_GENERATE.                                              *)
LEMMA GenerateStep ==
    ASSUME IInv, NEW n \in Nat, NEW additional \in Seq(Bytes), Generate(n, additional)
    PROVE  IInv'
<1>1. /\ ctx.inst /\ n <= MaxRequest[ctx.alg] /\ draws' \in Nat
      /\ ctx \in Context /\ ctx.alg \in Algs /\ ctx.off = 0
      /\ ctx.counter \in 1 .. Interval[ctx.alg] + 1
  BY DEF Generate, IInv, TypeOK
<1>2. CASE Exhausted(ctx)
  <2>1. Refuse("RESEED_REQUIRED") /\ "RESEED_REQUIRED" \in Codes
    BY <1>2 DEF Generate, Codes
  <2> QED
    BY <1>1, <2>1, Refused
<1>3. CASE ~Exhausted(ctx)
  <2>1. PICK code \in AdditionalOutcomes(ctx.alg, additional) :
           IF code # "SUCCESS" THEN Refuse(code)
           ELSE /\ ctx'  = Served(ctx, n, additional)
                /\ call' = [ret |-> code, pr |-> FALSE,
                            out |-> Output(Mixed(ctx, additional), n),
                            keyed |-> Consumed(ctx, n, additional)]
                /\ spent' = spent \cup BlocksOf(call.out) \cup call.keyed
    BY <1>3, Zenon DEF Generate
  <2>2. code \in Codes
    BY <1>1, OutcomeCodes
  <2>3. CASE code # "SUCCESS"
    BY <1>1, <2>1, <2>2, <2>3, Refused
  <2>4. CASE code = "SUCCESS"
    <3>1. /\ ctx' = Served(ctx, n, additional) /\ spent' = Past
          /\ call' = [ret |-> "SUCCESS", pr |-> FALSE,
                      out |-> Output(Mixed(ctx, additional), n),
                      keyed |-> {} \cup Consumed(ctx, n, additional)]
      <4>1. {} \cup Consumed(ctx, n, additional) = Consumed(ctx, n, additional)
        OBVIOUS
      <4> QED
        BY <2>1, <2>4, <4>1, Zenon DEF Past
    <3>2. ctx.counter \in 1 .. Interval[ctx.alg] /\ n \in 0 .. MaxRequest[ctx.alg]
      BY <1>1, <1>3, DrbgConstants DEF Exhausted
    <3>3. Len(ctx.name) \in Nat
      BY <1>1 DEF Context, Names
    <3> DEFINE first == {}
    <3>4. first \in SUBSET (Names \X Nat) /\ FALSE \in BOOLEAN
      OBVIOUS
    <3>5. \A b \in first : b[1] = ctx.name /\ Len(ctx.name) < Len(ctx.name)
      OBVIOUS
    <3>6. call' = [ret |-> "SUCCESS", pr |-> FALSE,
                  out |-> Output(Mixed(ctx, additional), n),
                  keyed |-> first \cup Consumed(ctx, n, additional)]
      BY <3>1
    <3> HIDE DEF first
    <3>7. Len(ctx.name) >= Len(ctx.name)
      BY <3>3
    <3> QED
      BY <1>1, <3>1, <3>2, <3>4, <3>5, <3>6, <3>7, ServeStep
  <2> QED
    BY <2>3, <2>4
<1> QED
  BY <1>2, <1>3

(* LIBERAC_CTR_DRBG_GENERATE with PREDICTION_RESISTANCE.                   *)
LEMMA GenerateResistantStep ==
    ASSUME IInv, NEW n \in Nat, NEW additional \in Seq(Bytes),
           GenerateResistant(n, additional)
    PROVE  IInv'
<1> DEFINE entropy == OsBytes(draws + 1, EntropyLen(ctx.alg))
           seed == SeedFrom(ctx.alg, entropy, <<>>, additional)
           c == Freshened(ctx, entropy, additional)
           none == <<>>
<1>1. /\ ctx.inst /\ n <= MaxRequest[ctx.alg] /\ draws \in Nat /\ draws' = draws + 1
      /\ ctx \in Context /\ ctx.alg \in Algs /\ ctx.off = 0
  BY DEF GenerateResistant, IInv, TypeOK
<1>2. PICK code \in ReseedOutcomes(ctx.alg, entropy, additional) :
         IF code # "SUCCESS" THEN Refuse(code)
         ELSE /\ ctx'  = Served(c, n, none)
              /\ call' = [ret |-> code, pr |-> TRUE,
                          out |-> Output(c, n),
                          keyed |-> Keying(ctx, 0) \cup Consumed(c, n, none)]
              /\ spent' = spent \cup BlocksOf(call.out) \cup call.keyed
  BY Zenon DEF GenerateResistant
<1>3. entropy \in Seq(Bytes) /\ none \in Seq(Bytes)
  <2>1. none \in Seq(Bytes)
    OBVIOUS
  <2>2. TypeOK
    BY DEF IInv
  <2>3. entropy \in Seq(Bytes)
    BY <1>1, <2>2, OsEntropy
  <2> QED
    BY <2>1, <2>3
<1>4. draws' \in Nat
  BY <1>1
<1>5. seed \in Seed
  BY <1>1, <1>3, SeedTypes
<1>6. c = Reseeded(ctx, seed)
  BY DEF Freshened
<1>7. code \in Codes
  BY <1>1, <1>3, OutcomeCodes
<1> HIDE DEF entropy, seed, c
<1>8. CASE code # "SUCCESS"
  BY <1>2, <1>4, <1>7, <1>8, Refused
<1>9. CASE code = "SUCCESS"
  <2>1. /\ c \in Context /\ c.off = 0 /\ c.alg = ctx.alg /\ c.counter = 1
        /\ Len(c.name) = Len(ctx.name) + 1
    BY <1>1, <1>5, <1>6, ReseededFacts
  <2>2. Len(ctx.name) \in Nat
    BY <1>1 DEF Context, Names
  <2>3. \A b \in Keying(ctx, 0) : b \in Names \X Nat /\ b[1] = ctx.name
    BY <1>1, KeyingType
  <2>4. c.counter \in 1 .. Interval[c.alg] /\ n \in 0 .. MaxRequest[c.alg]
    BY <1>1, <2>1, DrbgConstants
  <2>5. Mixed(c, none) = c
    BY DEF Mixed
  <2> DEFINE first == Keying(ctx, 0)
  <2>6. first \in SUBSET (Names \X Nat)
    BY <2>3
  <2>7. /\ ctx' = Served(c, n, none) /\ spent' = Past
        /\ call' = [ret |-> "SUCCESS", pr |-> TRUE,
                    out |-> Output(Mixed(c, none), n),
                    keyed |-> first \cup Consumed(c, n, none)]
    BY <1>2, <1>9, <2>5, Zenon DEF Past
  <2>8. /\ \A b \in first : b[1] = ctx.name /\ Len(ctx.name) < Len(c.name)
        /\ Len(c.name) >= Len(ctx.name)
    BY <2>1, <2>2, <2>3
  <2> HIDE DEF first, none
  <2> QED
    BY <1>1, <1>3, <1>4, <2>1, <2>4, <2>6, <2>7, <2>8, ServeStep
<1> QED
  BY <1>8, <1>9

(* At the start no context is instantiated.                                *)
LEMMA InitStep ==
    ASSUME Init
    PROVE  IInv
<1>1. /\ ctx = Cleared /\ draws = 0 /\ call = Quiet("SUCCESS") /\ spent = {}
      /\ "SUCCESS" \in Codes
  BY DEF Init, Codes
<1>2. /\ call \in [ret : Codes, out : Seq(Names \X Nat \X Nat),
                   keyed : SUBSET (Names \X Nat), pr : BOOLEAN]
      /\ call.out = <<>> /\ call.keyed = {} /\ BlocksOf(call.out) = {}
  BY <1>1, QuietFacts
<1>3. /\ Cleared \in Context /\ Cleared.off = 0 /\ Cleared.inst = FALSE
  BY DEF Cleared, Context, Names
<1>4. TypeOK
  BY <1>1, <1>2, <1>3 DEF TypeOK
<1>5. Older(Past, Len(ctx.name)) /\ NeverTwice
  BY <1>1, <1>2 DEF Older, Past, NeverTwice
<1> QED
  BY <1>1, <1>3, <1>4, <1>5 DEF IInv

(* Whatever a caller instantiates with.                                    *)
LEMMA InstantiateSomeStep ==
    ASSUME IInv, InstantiateSome
    PROVE  IInv'
<1>1. PICK a \in Algs, other \in Strings :
         \/ \E entropy, nonce \in Strings : Instantiate(a, entropy, nonce, other)
         \/ draws + 2 <= MaxDraws /\ (InstantiateOs(a, other) \/ InstantiateOsFails(a))
  BY Zenon DEF InstantiateSome
<1>2. other \in Seq(Bytes) /\ draws \in Nat /\ TypeOK
  BY DrbgConstants DEF IInv, TypeOK
<1>3. ASSUME NEW entropy \in Strings, NEW nonce \in Strings,
             Instantiate(a, entropy, nonce, other)
      PROVE  IInv'
  <2>1. entropy \in Seq(Bytes) /\ nonce \in Seq(Bytes)
    BY DrbgConstants
  <2>2. InstantiateWith(a, entropy, nonce, other) /\ draws' \in Nat
    BY <1>2, <1>3 DEF Instantiate
  <2> QED
    BY <1>2, <2>1, <2>2, InstantiateStep
<1>4. CASE InstantiateOs(a, other)
  <2> DEFINE entropy == OsBytes(draws + 1, EntropyLen(a))
             nonce == OsBytes(draws + 2, NonceLen(a))
  <2>1. entropy \in Seq(Bytes) /\ nonce \in Seq(Bytes)
    BY <1>2, OsEntropy
  <2>2. InstantiateWith(a, entropy, nonce, other) /\ draws' \in Nat
    BY <1>2, <1>4 DEF InstantiateOs
  <2> HIDE DEF entropy, nonce
  <2> QED
    BY <1>2, <2>1, <2>2, InstantiateStep
<1>5. CASE InstantiateOsFails(a)
  <2>1. Refuse("RANDOM_FAILED") /\ draws' \in Nat /\ "RANDOM_FAILED" \in Codes
    BY <1>2, <1>5 DEF InstantiateOsFails, Codes
  <2> QED
    BY <2>1, Refused
<1> QED
  BY <1>1, <1>3, <1>4, <1>5

(* Whatever a caller reseeds with.                                         *)
LEMMA ReseedSomeStep ==
    ASSUME IInv, ReseedSome
    PROVE  IInv'
<1>1. PICK additional \in Strings :
         \/ \E entropy \in Strings : Reseed(entropy, additional)
         \/ draws < MaxDraws /\ ReseedOs(additional)
  BY DEF ReseedSome
<1>2. /\ additional \in Seq(Bytes) /\ draws \in Nat /\ TypeOK
      /\ ctx.inst => ctx.alg \in Algs
  BY DrbgConstants DEF IInv, TypeOK
<1>3. ASSUME NEW entropy \in Strings, Reseed(entropy, additional)
      PROVE  IInv'
  <2>1. entropy \in Seq(Bytes)
    BY DrbgConstants
  <2>2. ctx.inst /\ ReseedWith(entropy, additional) /\ draws' \in Nat
    BY <1>2, <1>3 DEF Reseed
  <2> QED
    BY <1>2, <2>1, <2>2, ReseedStep
<1>4. CASE ReseedOs(additional)
  <2> DEFINE entropy == OsBytes(draws + 1, EntropyLen(ctx.alg))
  <2>1. ctx.inst /\ ReseedWith(entropy, additional) /\ draws' \in Nat
    BY <1>2, <1>4 DEF ReseedOs
  <2>2. entropy \in Seq(Bytes)
    BY <1>2, <2>1, OsEntropy
  <2> HIDE DEF entropy
  <2> QED
    BY <1>2, <2>1, <2>2, ReseedStep
<1> QED
  BY <1>1, <1>3, <1>4

(* Whatever a caller asks for.                                             *)
LEMMA GenerateSomeStep ==
    ASSUME IInv, GenerateSome
    PROVE  IInv'
<1>1. PICK n \in 0 .. MaxOut, additional \in Strings :
         Generate(n, additional) \/ GenerateResistant(n, additional)
  BY DEF GenerateSome
<1>2. n \in Nat /\ additional \in Seq(Bytes)
  BY DrbgConstants
<1> QED
  BY <1>1, <1>2, GenerateStep, GenerateResistantStep

(* The invariant is inductive.                                             *)
LEMMA NextStep ==
    ASSUME IInv, [Next]_vars
    PROVE  IInv'
<1>1. /\ draws \in Nat /\ call.ret \in Codes
      /\ {"INVALID_ARGUMENT", "INVALID_ALG_ID", "MESSAGE_TOO_LARGE", "RANDOM_FAILED"}
            \subseteq Codes
  BY DEF IInv, TypeOK, Codes
<1>2. CASE InstantiateSome
  BY <1>2, InstantiateSomeStep
<1>3. CASE ReseedSome
  BY <1>3, ReseedSomeStep
<1>4. CASE GenerateSome
  BY <1>4, GenerateSomeStep
<1>5. ASSUME NEW n \in 0 .. MaxOut, Generate(n, <<>>)
      PROVE  IInv'
  <2>1. n \in Nat /\ <<>> \in Seq(Bytes)
    BY DrbgConstants
  <2> QED
    BY <1>5, <2>1, GenerateStep
<1>6. CASE OsFails
  BY <1>1, <1>6, Refused DEF OsFails
<1>7. CASE NotInstantiated
  BY <1>1, <1>7, Refused DEF NotInstantiated
<1>8. ASSUME NEW n \in 0 .. MaxOut, GenerateTooLarge(n)
      PROVE  IInv'
  BY <1>1, <1>8, Refused DEF GenerateTooLarge
<1>9. CASE BadArguments
  BY <1>1, <1>9, Refused DEF BadArguments
<1>10. CASE UnknownAlg
  BY <1>1, <1>10, Refused DEF UnknownAlg
<1>11. CASE Clear
  BY <1>1, <1>11, Wiped DEF Clear
<1>12. CASE UNCHANGED vars
  BY <1>12 DEF vars, IInv, TypeOK, Older, Past, NeverTwice
<1> QED
  BY <1>2, <1>3, <1>4, <1>5, <1>6, <1>7, <1>8, <1>9, <1>10, <1>11, <1>12 DEF Next

----------------------------------------------------------------------------
(* Prediction resistance.                                                  *)

(* An update forgets nothing that went into KEY and V before.              *)
LEMMA StillKnows ==
    ASSUME NEW name \in Names, NEW e, Append(name, e) \in Names, NEW k
    PROVE  /\ Knows(name, k) => Knows(Append(name, e), k)
           /\ (\E i \in DOMAIN e.seed.bytes : <<k, 1>> \in e.seed.bytes[i])
                 => Knows(Append(name, e), k)
<1> DEFINE more == Append(name, e)
<1>1. /\ DOMAIN name = 1 .. Len(name) /\ Len(name) \in Nat
      /\ DOMAIN more = 1 .. Len(name) + 1
      /\ \A j \in 1 .. Len(name) : more[j] = name[j]
      /\ more[Len(name) + 1] = e
  BY DEF Names
<1> HIDE DEF more
<1>2. Knows(name, k) => Knows(more, k)
  BY <1>1 DEF Knows
<1>3. Len(name) + 1 \in DOMAIN more
  BY <1>1
<1>4. (\E i \in DOMAIN e.seed.bytes : <<k, 1>> \in e.seed.bytes[i]) => Knows(more, k)
  BY <1>1, <1>3 DEF Knows
<1> QED
  BY <1>2, <1>4 DEF more

(* The same, with the longer name in a name of its own.                    *)
LEMMA KnowsMore ==
    ASSUME NEW name \in Names, NEW more \in Names, NEW e, more = Append(name, e)
    PROVE  \A k : Knows(name, k) => Knows(more, k)
BY StillKnows

(* What generate leaves is at least as informed as what it found, and      *)
(* still instantiated.                                                     *)
LEMMA ServedKeeps ==
    ASSUME NEW c \in Context, c.alg \in Algs,
           NEW n \in 0 .. MaxRequest[c.alg], NEW additional \in Seq(Bytes)
    PROVE  /\ Served(c, n, additional).inst = c.inst
           /\ \A k : Knows(c.name, k) => Knows(Served(c, n, additional).name, k)
<1> DEFINE m == Mixed(c, additional)
           seed == Provided(c.alg, additional)
           u == Blocks(c.alg, n)
           r == Rekeyed(m, u, seed)
<1>1. seed \in Seed /\ u \in Nat
  BY SeedTypes, RequestFits
<1>2. /\ m \in Context /\ m.alg = c.alg /\ m.inst = c.inst
      /\ \A k : Knows(c.name, k) => Knows(m.name, k)
  <2>1. CASE additional = <<>>
    BY <2>1 DEF Mixed
  <2>2. CASE additional # <<>>
    <3>1. m = Rekeyed(c, 0, seed)
      BY <2>2 DEF Mixed
    <3> HIDE DEF m, seed
    <3>2. /\ m \in Context /\ m.alg = c.alg /\ m.inst = c.inst
          /\ \E at \in Nat : m.name = Append(c.name, [at |-> at, seed |-> seed])
      <4>1. 0 \in Nat
        OBVIOUS
      <4> QED
        BY <1>1, <3>1, <4>1, RekeyedFacts, Zenon
    <3>3. c.name \in Names /\ m.name \in Names
      BY <3>2 DEF Context
    <3>4. PICK at \in Nat : m.name = Append(c.name, [at |-> at, seed |-> seed])
      BY <3>2
    <3>5. \A k : Knows(c.name, k) => Knows(m.name, k)
      BY <3>3, <3>4, KnowsMore
    <3> QED
      BY <3>2, <3>5
  <2> QED
    BY <2>1, <2>2
<1> HIDE DEF m, u
<1>3. Served(c, n, additional) = [r EXCEPT !.counter = @ + 1]
  BY DEF Served, m, u
<1> HIDE DEF seed
<1>4. /\ r \in Context /\ r.inst = c.inst
      /\ \E at \in Nat : r.name = Append(m.name, [at |-> at, seed |-> seed])
  BY <1>1, <1>2, RekeyedFacts
<1>5. m.name \in Names /\ r.name \in Names
  BY <1>2, <1>4 DEF Context
<1> HIDE DEF r
<1>6. \A k : Knows(m.name, k) => Knows(r.name, k)
  <2>1. PICK at \in Nat : r.name = Append(m.name, [at |-> at, seed |-> seed])
    BY <1>4
  <2> QED
    BY <1>5, <2>1, KnowsMore
<1>7. Served(c, n, additional).inst = r.inst /\ Served(c, n, additional).name = r.name
  BY <1>3, <1>4 DEF Context
<1> QED
  BY <1>2, <1>4, <1>6, <1>7

(* The seed a reseed makes of bytes the operating system has just drawn    *)
(* holds the first of them, whatever the caller adds: the callers' bytes   *)
(* were chosen before, so none of them cancels it.                         *)
LEMMA SeedHasDraw ==
    ASSUME NEW a \in Algs, NEW k \in Nat \ {0}, NEW additional \in Strings,
           NEW entropy, entropy = OsBytes(k, EntropyLen(a))
    PROVE  LET seed == SeedFrom(a, entropy, <<>>, additional)
           IN  1 \in DOMAIN seed.bytes /\ <<k, 1>> \in seed.bytes[1]
<1>1. /\ Security[a] \in Nat \ {0} /\ SeedLen[a] \in Nat \ {0}
      /\ additional \in Seq(Bytes)
      /\ \A i \in DOMAIN additional : additional[i] \subseteq {0} \X Nat
  BY DrbgConstants
<1> DEFINE n == EntropyLen(a)
<1>2. n \in Nat \ {0}
  BY <1>1 DEF EntropyLen
<1>3. /\ entropy \in Seq(Bytes) /\ Len(entropy) = n /\ entropy[1] = {<<k, 1>>}
      /\ <<>> \in Seq(Bytes)
  <2>1. entropy \in Seq(Bytes)
    BY <1>2, OsBytesType
  <2>2. entropy = [i \in 1 .. n |-> {<<k, i>>}]
    BY DEF OsBytes
  <2> HIDE DEF n
  <2>3. Len(entropy) = n /\ entropy[1] = {<<k, 1>>}
    BY <1>2, <2>1, <2>2
  <2> QED
    BY <2>1, <2>3
<1>4. CASE UseDf[a]
  <2> DEFINE joined == entropy \o <<>> \o additional
  <2>1. 1 \in DOMAIN joined /\ joined[1] = {<<k, 1>>}
    BY <1>1, <1>2, <1>3
  <2>2. SeedFrom(a, entropy, <<>>, additional).bytes = joined
    BY <1>4 DEF SeedFrom, DfSeed
  <2> QED
    BY <2>1, <2>2
<1>5. CASE ~UseDf[a]
  <2> DEFINE x == Padded(a, entropy)[1]
             y == Padded(a, additional)[1]
  <2>1. 1 \in 1 .. SeedLen[a]
    BY <1>1
  <2>2. x = {<<k, 1>>}
    BY <1>2, <1>3, <2>1 DEF Padded
  <2>3. <<k, 1>> \notin y
    <3>1. CASE 1 <= Len(additional)
      <4>1. y = additional[1] /\ 1 \in DOMAIN additional
        BY <1>1, <2>1, <3>1 DEF Padded
      <4>2. y \subseteq {0} \X Nat
        BY <1>1, <4>1
      <4> QED
        BY <4>2
    <3>2. CASE ~(1 <= Len(additional))
      BY <2>1, <3>2 DEF Padded
    <3> QED
      BY <3>1, <3>2
  <2>4. <<k, 1>> \in Xor(x, y)
    BY <2>2, <2>3 DEF Xor
  <2>5. SeedFrom(a, entropy, <<>>, additional).bytes
          = [i \in 1 .. SeedLen[a] |-> Xor(Padded(a, entropy)[i], Padded(a, additional)[i])]
    BY <1>5 DEF SeedFrom, PlainSeed
  <2> QED
    BY <2>1, <2>4, <2>5
<1> QED
  BY <1>4, <1>5

(* A prediction-resistant call knows its own draw.                         *)
LEMMA ResistantStep ==
    ASSUME IInv, NEW n \in Nat, NEW additional \in Strings,
           GenerateResistant(n, additional)
    PROVE  PredictionResistant'
<1> DEFINE entropy == OsBytes(draws + 1, EntropyLen(ctx.alg))
           none == <<>>
           seed == SeedFrom(ctx.alg, entropy, none, additional)
           c == Freshened(ctx, entropy, additional)
<1>1. /\ ctx.inst /\ n <= MaxRequest[ctx.alg] /\ draws \in Nat /\ draws' = draws + 1
      /\ ctx \in Context /\ ctx.alg \in Algs /\ additional \in Seq(Bytes)
  BY DrbgConstants DEF GenerateResistant, IInv, TypeOK
<1>2. PICK code \in ReseedOutcomes(ctx.alg, entropy, additional) :
         IF code # "SUCCESS" THEN Refuse(code)
         ELSE /\ ctx'  = Served(c, n, none)
              /\ call' = [ret |-> code, pr |-> TRUE,
                          out |-> Output(c, n),
                          keyed |-> Keying(ctx, 0) \cup Consumed(c, n, none)]
              /\ spent' = spent \cup BlocksOf(call.out) \cup call.keyed
  BY Zenon DEF GenerateResistant
<1>3. CASE code # "SUCCESS"
  BY <1>2, <1>3 DEF Refuse, Quiet, PredictionResistant
<1>4. CASE code = "SUCCESS"
  <2>1. entropy \in Seq(Bytes) /\ none \in Seq(Bytes) /\ draws + 1 \in Nat \ {0}
    <3>1. TypeOK
      BY DEF IInv
    <3> QED
      BY <1>1, <3>1, OsEntropy
  <2>2. seed \in Seed
    BY <1>1, <2>1, SeedTypes
  <2>3. 1 \in DOMAIN seed.bytes /\ <<draws + 1, 1>> \in seed.bytes[1]
    BY <1>1, <2>1, SeedHasDraw
  <2>4. c = Reseeded(ctx, seed)
    BY DEF Freshened
  <2> HIDE DEF seed, c, entropy
  <2>5. /\ c \in Context /\ c.alg = ctx.alg
        /\ \E at \in Nat : c.name = Append(ctx.name, [at |-> at, seed |-> seed])
    BY <1>1, <2>2, <2>4, ReseededFacts
  <2>6. ctx.name \in Names /\ c.name \in Names
    BY <1>1, <2>5 DEF Context
  <2>7. Knows(c.name, draws')
    BY <1>1, <2>3, <2>5, <2>6, StillKnows
  <2>8. Knows(ctx'.name, draws')
    <3>1. n \in 0 .. MaxRequest[c.alg] /\ c.alg \in Algs /\ ctx' = Served(c, n, none)
      BY <1>1, <1>2, <1>4, <2>5, DrbgConstants
    <3>2. \A k : Knows(c.name, k) => Knows(Served(c, n, none).name, k)
      BY <2>1, <2>5, <3>1, ServedKeeps
    <3> QED
      BY <2>7, <3>1, <3>2
  <2>9. call'.out = Output(c, n)
    BY <1>2, <1>4
  <2>10. \A i \in DOMAIN call'.out : call'.out[i][1] = c.name
    BY <2>9 DEF Output
  <2> QED
    BY <2>7, <2>8, <2>10 DEF PredictionResistant
<1> QED
  BY <1>3, <1>4

(* Every other action reports a call without prediction resistance.        *)
LEMMA PlainCalls ==
    ASSUME NEW code
    PROVE  /\ Quiet(code).pr = FALSE /\ Quiet(code).ret = code
BY DEF Quiet

(* A call that records the blocks it keyed with, and no more.              *)
LEMMA KeyedCalls ==
    ASSUME NEW code, NEW k, call' = [Quiet(code) EXCEPT !.keyed = k]
    PROVE  call'.pr = FALSE /\ call'.ret = code
BY DEF Quiet

(* What follows a draw depends on it, whatever the step.                   *)
LEMMA PredictionStep ==
    ASSUME IInv, PredictionResistant, [Next]_vars
    PROVE  PredictionResistant'
<1> DEFINE Plain == call'.pr = FALSE
<1>1. Plain => PredictionResistant'
  BY DEF PredictionResistant
<1>2. \A code : Refuse(code) \/ Wipe(code) => Plain
  BY PlainCalls DEF Refuse, Wipe
<1>3. ASSUME NEW a, NEW x, NEW y, NEW z, InstantiateWith(a, x, y, z)
      PROVE  Plain
  <2>1. PICK code \in InstantiateOutcomes(a, x, y, z) :
           \/ Wipe(code)
           \/ call' = [Quiet(code) EXCEPT !.keyed = Keying(Blank(a), 0)]
    BY <1>3, Zenon DEF InstantiateWith
  <2> QED
    BY <1>2, <2>1, KeyedCalls
<1>4. ASSUME NEW x, NEW z, ReseedWith(x, z)
      PROVE  Plain
  <2>1. PICK code \in ReseedOutcomes(ctx.alg, x, z) :
           \/ Refuse(code)
           \/ call' = [Quiet(code) EXCEPT !.keyed = Keying(ctx, 0)]
    BY <1>4, Zenon DEF ReseedWith
  <2> QED
    BY <1>2, <2>1, KeyedCalls
<1>5. ASSUME NEW n, NEW additional, Generate(n, additional)
      PROVE  Plain
  <2>1. CASE Exhausted(ctx)
    BY <1>2, <1>5, <2>1, Zenon DEF Generate
  <2>2. CASE ~Exhausted(ctx)
    <3>1. PICK code \in AdditionalOutcomes(ctx.alg, additional) :
            IF code # "SUCCESS" THEN Refuse(code)
            ELSE /\ ctx'  = Served(ctx, n, additional)
                 /\ call' = [ret |-> code, pr |-> FALSE,
                             out |-> Output(Mixed(ctx, additional), n),
                             keyed |-> Consumed(ctx, n, additional)]
                 /\ spent' = spent \cup BlocksOf(call.out) \cup call.keyed
      BY <1>5, <2>2, Zenon DEF Generate
    <3>2. CASE code # "SUCCESS"
      BY <1>2, <3>1, <3>2
    <3>3. CASE code = "SUCCESS"
      BY <3>1, <3>3
    <3> QED
      BY <3>2, <3>3
  <2> QED
    BY <2>1, <2>2
<1> HIDE DEF Plain
<1>6. CASE InstantiateSome
  <2>1. PICK a \in Algs, other \in Strings :
           \/ \E entropy, nonce \in Strings : Instantiate(a, entropy, nonce, other)
           \/ draws + 2 <= MaxDraws /\ (InstantiateOs(a, other) \/ InstantiateOsFails(a))
    BY <1>6, Zenon DEF InstantiateSome
  <2> QED
    BY <1>1, <1>2, <1>3, <2>1, Zenon
       DEF Instantiate, InstantiateOs, InstantiateOsFails
<1>7. CASE ReseedSome
  BY <1>1, <1>4, <1>7, Zenon DEF ReseedSome, Reseed, ReseedOs
<1>8. ASSUME NEW n \in 0 .. MaxOut, NEW additional \in Strings,
             GenerateResistant(n, additional)
      PROVE  PredictionResistant'
  <2>1. n \in Nat
    BY DrbgConstants
  <2> QED
    BY <1>8, <2>1, ResistantStep
<1>9. CASE GenerateSome
  BY <1>1, <1>5, <1>8, <1>9, Zenon DEF GenerateSome
<1>10. CASE \/ OsFails \/ NotInstantiated \/ BadArguments \/ UnknownAlg \/ Clear
            \/ \E n \in 0 .. MaxOut : GenerateTooLarge(n)
  BY <1>1, <1>2, <1>10, Zenon
     DEF OsFails, NotInstantiated, BadArguments, UnknownAlg, Clear, GenerateTooLarge
<1>11. CASE \E n \in 0 .. MaxOut : Generate(n, <<>>)
  BY <1>1, <1>5, <1>11, Zenon
<1>12. CASE UNCHANGED vars
  BY <1>12 DEF vars, PredictionResistant
<1> QED
  BY <1>6, <1>7, <1>9, <1>10, <1>11, <1>12 DEF Next

----------------------------------------------------------------------------
(* The context keeps the promise of inc/RandomNumberGeneration.h.          *)

(* A refusal is one of the abstract generator's.                           *)
LEMMA RefuseKeeps ==
    ASSUME NEW code, Refuse(code),
           \/ code \in {"INVALID_ARGUMENT", "MESSAGE_TOO_LARGE",
                        "ALLOCATION_FAILED", "RANDOM_FAILED", "INVALID_ALG_ID"}
           \/ /\ code = "RESEED_REQUIRED" /\ ctx.inst /\ ctx.alg # NoAlg
              /\ ctx.counter - 1 = Interval[ctx.alg]
    PROVE  Promise!Refuse
<1>1. ctx' = ctx /\ call'.ret = code
  BY PlainCalls DEF Refuse
<1> QED
  BY <1>1 DEF Promise!Refuse

(* A failure is one of the abstract generator's.                           *)
LEMMA WipeKeeps ==
    ASSUME NEW code, Wipe(code),
           code \in {call.ret, "INVALID_ARGUMENT", "MESSAGE_TOO_LARGE", "ALLOCATION_FAILED"}
    PROVE  Promise!Next
<1>1. ~ctx'.inst /\ call'.ret = code
  BY PlainCalls DEF Wipe, Cleared
<1>2. Promise!Forget(code)
  BY <1>1 DEF Promise!Forget
<1> QED
  BY <1>2 DEF Promise!Next

(* What a seeding may answer.                                              *)
LEMMA SeedingCodes ==
    ASSUME NEW a, NEW x, NEW y, NEW z
    PROVE  LET answers == {"SUCCESS", "INVALID_ARGUMENT", "MESSAGE_TOO_LARGE",
                           "ALLOCATION_FAILED"}
           IN  /\ InstantiateOutcomes(a, x, y, z) \subseteq answers
               /\ ReseedOutcomes(a, x, z) \subseteq answers
               /\ AdditionalOutcomes(a, z) \subseteq answers
<1> DEFINE answers == {"SUCCESS", "INVALID_ARGUMENT", "MESSAGE_TOO_LARGE",
                       "ALLOCATION_FAILED"}
<1>1. /\ \A n : DfOutcomes(n) \subseteq answers
      /\ {"INVALID_ARGUMENT"} \subseteq answers /\ {"SUCCESS"} \subseteq answers
  BY DEF DfOutcomes
<1> HIDE DEF answers
<1>2. InstantiateOutcomes(a, x, y, z) \subseteq answers
  BY <1>1, Zenon DEF InstantiateOutcomes
<1>3. ReseedOutcomes(a, x, z) \subseteq answers
  BY <1>1, Zenon DEF ReseedOutcomes
<1>4. AdditionalOutcomes(a, z) \subseteq answers
  BY <1>1, Zenon DEF AdditionalOutcomes
<1> QED
  BY <1>2, <1>3, <1>4 DEF answers

(* Instantiation is.                                                       *)
LEMMA InstantiateKeeps ==
    ASSUME NEW a \in Algs, NEW x \in Seq(Bytes), NEW y \in Seq(Bytes), NEW z \in Seq(Bytes),
           InstantiateWith(a, x, y, z)
    PROVE  Promise!Next
<1> DEFINE seed == SeedFrom(a, x, y, z)
<1>1. PICK code \in InstantiateOutcomes(a, x, y, z) :
         IF code # "SUCCESS" THEN Wipe(code)
         ELSE /\ ctx'  = Seeded(a, Blank(a), seed)
              /\ call' = [Quiet(code) EXCEPT !.keyed = Keying(Blank(a), 0)]
              /\ spent' = {}
  BY DEF InstantiateWith
<1>2. code \in {"SUCCESS", "INVALID_ARGUMENT", "MESSAGE_TOO_LARGE", "ALLOCATION_FAILED"}
  BY SeedingCodes
<1>3. seed \in Seed
  BY SeedTypes
<1> HIDE DEF seed
<1>4. CASE code # "SUCCESS"
  BY <1>1, <1>2, <1>4, WipeKeeps
<1>5. CASE code = "SUCCESS"
  <2>1. ctx'.inst /\ ctx'.alg = a /\ ctx'.counter = 1 /\ call'.ret = "SUCCESS"
    <3>1. ctx' = Seeded(a, Blank(a), seed)
      BY <1>1, <1>5
    <3>2. call'.ret = "SUCCESS"
      BY <1>1, <1>5, KeyedCalls
    <3> QED
      BY <1>3, <3>1, <3>2, SeededFacts
  <2>2. Promise!Seed(a)
    BY <2>1 DEF Promise!Seed
  <2> QED
    BY <2>2 DEF Promise!Next
<1> QED
  BY <1>4, <1>5

(* Reseeding is.                                                           *)
LEMMA ReseedKeeps ==
    ASSUME IInv, ctx.inst, NEW x \in Seq(Bytes), NEW z \in Seq(Bytes), ReseedWith(x, z)
    PROVE  Promise!Next
<1> DEFINE none == <<>>
           seed == SeedFrom(ctx.alg, x, none, z)
<1>1. ctx \in Context /\ ctx.alg \in Algs /\ none \in Seq(Bytes) /\ ctx.alg # NoAlg
  BY DrbgConstants DEF IInv, TypeOK
<1>2. PICK code \in ReseedOutcomes(ctx.alg, x, z) :
         IF code # "SUCCESS" THEN Refuse(code)
         ELSE /\ ctx'  = Reseeded(ctx, seed)
              /\ call' = [Quiet(code) EXCEPT !.keyed = Keying(ctx, 0)]
              /\ spent' = spent \cup BlocksOf(call.out) \cup call.keyed
  BY DEF ReseedWith
<1>3. code \in {"SUCCESS", "INVALID_ARGUMENT", "MESSAGE_TOO_LARGE", "ALLOCATION_FAILED"}
  BY SeedingCodes
<1>4. seed \in Seed
  BY <1>1, SeedTypes
<1> HIDE DEF seed
<1>5. CASE code # "SUCCESS"
  BY <1>2, <1>3, <1>5, RefuseKeeps DEF Promise!Next
<1>6. CASE code = "SUCCESS"
  <2>1. ctx'.inst /\ ctx'.alg = ctx.alg /\ ctx'.counter = 1 /\ call'.ret = "SUCCESS"
    <3>1. ctx' = Reseeded(ctx, seed)
      BY <1>2, <1>6
    <3>2. call'.ret = "SUCCESS"
      BY <1>2, <1>6, KeyedCalls
    <3>3. Reseeded(ctx, seed).inst /\ Reseeded(ctx, seed).alg = ctx.alg
          /\ Reseeded(ctx, seed).counter = 1
      BY <1>1, <1>4, ReseededFacts
    <3> QED
      BY <3>1, <3>2, <3>3
  <2>2. Promise!Reseed
    BY <1>1, <2>1 DEF Promise!Reseed
  <2> QED
    BY <2>2 DEF Promise!Next
<1> QED
  BY <1>5, <1>6

(* A request counts once.                                                  *)
LEMMA ServedCounts ==
    ASSUME NEW c \in Context, c.alg \in Algs, c.off = 0,
           NEW n \in 0 .. MaxRequest[c.alg], NEW additional \in Seq(Bytes)
    PROVE  Served(c, n, additional).alg = c.alg /\ Served(c, n, additional).counter = c.counter + 1
BY ServedFacts

(* Generation is.                                                          *)
LEMMA GenerateKeeps ==
    ASSUME IInv, NEW n \in Nat, NEW additional \in Seq(Bytes), Generate(n, additional)
    PROVE  Promise!Next
<1>1. /\ ctx.inst /\ n \in 0 .. MaxRequest[ctx.alg] /\ ctx \in Context
      /\ ctx.alg \in Algs /\ ctx.alg # NoAlg /\ ctx.off = 0
      /\ ctx.counter \in 1 .. Interval[ctx.alg] + 1 /\ Interval[ctx.alg] \in Nat
  BY DrbgConstants DEF IInv, TypeOK, Generate
<1>2. CASE Exhausted(ctx)
  <2>1. Refuse("RESEED_REQUIRED") /\ ctx.counter - 1 = Interval[ctx.alg]
    BY <1>1, <1>2 DEF Generate, Exhausted
  <2> QED
    BY <1>1, <2>1, RefuseKeeps DEF Promise!Next
<1>3. CASE ~Exhausted(ctx)
  <2>1. PICK code \in AdditionalOutcomes(ctx.alg, additional) :
           IF code # "SUCCESS" THEN Refuse(code)
           ELSE /\ ctx'  = Served(ctx, n, additional)
                /\ call' = [ret |-> code, pr |-> FALSE,
                            out |-> Output(Mixed(ctx, additional), n),
                            keyed |-> Consumed(ctx, n, additional)]
                /\ spent' = spent \cup BlocksOf(call.out) \cup call.keyed
    BY <1>3, Zenon DEF Generate
  <2>2. code \in {"SUCCESS", "INVALID_ARGUMENT", "MESSAGE_TOO_LARGE", "ALLOCATION_FAILED"}
    BY SeedingCodes
  <2>3. CASE code # "SUCCESS"
    BY <2>1, <2>2, <2>3, RefuseKeeps DEF Promise!Next
  <2>4. CASE code = "SUCCESS"
    <3>1. ctx' = Served(ctx, n, additional) /\ call'.ret = "SUCCESS"
      BY <2>1, <2>4
    <3>2. ctx'.inst = ctx.inst
      BY <1>1, <3>1, ServedKeeps
    <3>3. ctx'.alg = ctx.alg /\ ctx'.counter = ctx.counter + 1
      BY <1>1, <3>1, ServedCounts
    <3>4. ctx.counter - 1 < Interval[ctx.alg]
      BY <1>1, <1>3 DEF Exhausted
    <3>5. Promise!Serve
      BY <1>1, <3>1, <3>2, <3>3, <3>4 DEF Promise!Serve
    <3> QED
      BY <3>5 DEF Promise!Next
  <2> QED
    BY <2>3, <2>4
<1> QED
  BY <1>2, <1>3

(* Generation with prediction resistance is.                               *)
LEMMA ResistantKeeps ==
    ASSUME IInv, NEW n \in Nat, NEW additional \in Seq(Bytes),
           GenerateResistant(n, additional)
    PROVE  Promise!Next
<1> DEFINE entropy == OsBytes(draws + 1, EntropyLen(ctx.alg))
           none == <<>>
           seed == SeedFrom(ctx.alg, entropy, none, additional)
           c == Freshened(ctx, entropy, additional)
<1>1. /\ ctx.inst /\ n <= MaxRequest[ctx.alg] /\ ctx \in Context
      /\ ctx.alg \in Algs /\ ctx.alg # NoAlg /\ TypeOK
  BY DrbgConstants DEF GenerateResistant, IInv, TypeOK
<1>2. PICK code \in ReseedOutcomes(ctx.alg, entropy, additional) :
         IF code # "SUCCESS" THEN Refuse(code)
         ELSE /\ ctx'  = Served(c, n, none)
              /\ call' = [ret |-> code, pr |-> TRUE,
                          out |-> Output(c, n),
                          keyed |-> Keying(ctx, 0) \cup Consumed(c, n, none)]
              /\ spent' = spent \cup BlocksOf(call.out) \cup call.keyed
  BY Zenon DEF GenerateResistant
<1>3. code \in {"SUCCESS", "INVALID_ARGUMENT", "MESSAGE_TOO_LARGE", "ALLOCATION_FAILED"}
  BY SeedingCodes
<1>4. entropy \in Seq(Bytes) /\ none \in Seq(Bytes)
  BY <1>1, OsEntropy
<1>5. seed \in Seed
  BY <1>1, <1>4, SeedTypes
<1>6. c = Reseeded(ctx, seed)
  BY DEF Freshened
<1> HIDE DEF seed, c, entropy
<1>7. CASE code # "SUCCESS"
  BY <1>2, <1>3, <1>7, RefuseKeeps DEF Promise!Next
<1>8. CASE code = "SUCCESS"
  <2>1. /\ c \in Context /\ c.alg = ctx.alg /\ c.inst = ctx.inst /\ c.counter = 1
        /\ c.off = 0
    BY <1>1, <1>5, <1>6, ReseededFacts
  <2>2. ctx' = Served(c, n, none) /\ call'.ret = "SUCCESS"
    BY <1>2, <1>8
  <2>3. n \in 0 .. MaxRequest[c.alg] /\ c.alg \in Algs
    BY <1>1, <2>1, DrbgConstants
  <2>4. ctx'.inst = c.inst
    BY <1>4, <2>1, <2>2, <2>3, ServedKeeps
  <2>5. ctx'.alg = c.alg /\ ctx'.counter = c.counter + 1
    BY ZenonT(40), <1>4, <2>1, <2>2, <2>3, ServedFacts
  <2>6. /\ ctx'.inst /\ ctx'.alg = ctx.alg /\ ctx'.counter - 1 = 1
        /\ call'.ret = "SUCCESS"
    <3>1. ctx'.inst
      BY <1>1, <2>1, <2>4, Zenon
    <3>2. ctx'.counter - 1 = 1
      BY <2>1, <2>5
    <3> QED
      BY <2>1, <2>2, <2>5, <3>1, <3>2, Zenon
  <2>7. Promise!Serve
    BY <1>1, <2>6 DEF Promise!Serve
  <2> QED
    BY <2>7 DEF Promise!Next
<1> QED
  BY <1>7, <1>8

(* Every step is one of the abstract generator, or none.                   *)
LEMMA NextKeeps ==
    ASSUME IInv, [Next]_vars
    PROVE  [Promise!Next]_(Promise!vars)
<1>1. /\ TypeOK /\ call.ret \in Codes /\ draws \in Nat
      /\ ctx.inst => ctx.alg \in Algs
      /\ \A s \in Strings : s \in Seq(Bytes)
      /\ \A n \in 0 .. MaxOut : n \in Nat
      /\ <<>> \in Seq(Bytes)
  BY DrbgConstants DEF IInv, TypeOK
<1>2. \A code \in {"INVALID_ARGUMENT", "MESSAGE_TOO_LARGE", "ALLOCATION_FAILED",
                   "RANDOM_FAILED", "INVALID_ALG_ID"} :
         Refuse(code) => Promise!Next
  BY RefuseKeeps DEF Promise!Next
<1>3. CASE InstantiateSome
  <2>1. PICK a \in Algs, other \in Strings :
           \/ \E entropy, nonce \in Strings : Instantiate(a, entropy, nonce, other)
           \/ draws + 2 <= MaxDraws /\ (InstantiateOs(a, other) \/ InstantiateOsFails(a))
    BY <1>3, Zenon DEF InstantiateSome
  <2>2. ASSUME NEW entropy \in Strings, NEW nonce \in Strings,
               Instantiate(a, entropy, nonce, other)
        PROVE  Promise!Next
    BY <1>1, <2>2, InstantiateKeeps DEF Instantiate
  <2>3. CASE InstantiateOs(a, other)
    <3> DEFINE entropy == OsBytes(draws + 1, EntropyLen(a))
               nonce == OsBytes(draws + 2, NonceLen(a))
    <3>1. entropy \in Seq(Bytes) /\ nonce \in Seq(Bytes)
      BY <1>1, OsEntropy
    <3>2. InstantiateWith(a, entropy, nonce, other)
      BY <2>3 DEF InstantiateOs
    <3> HIDE DEF entropy, nonce
    <3> QED
      BY <1>1, <3>1, <3>2, InstantiateKeeps
  <2>4. CASE InstantiateOsFails(a)
    BY <1>2, <2>4 DEF InstantiateOsFails
  <2> QED
    BY <2>1, <2>2, <2>3, <2>4
<1>4. CASE ReseedSome
  <2>1. PICK additional \in Strings :
           \/ \E entropy \in Strings : Reseed(entropy, additional)
           \/ draws < MaxDraws /\ ReseedOs(additional)
    BY <1>4 DEF ReseedSome
  <2>2. ASSUME NEW entropy \in Strings, Reseed(entropy, additional)
        PROVE  Promise!Next
    BY <1>1, <2>2, ReseedKeeps DEF Reseed
  <2>3. CASE ReseedOs(additional)
    <3> DEFINE entropy == OsBytes(draws + 1, EntropyLen(ctx.alg))
    <3>1. ctx.inst /\ ReseedWith(entropy, additional)
      BY <2>3 DEF ReseedOs
    <3>2. entropy \in Seq(Bytes)
      BY <1>1, <3>1, OsEntropy
    <3> HIDE DEF entropy
    <3> QED
      BY <1>1, <3>1, <3>2, ReseedKeeps
  <2> QED
    BY <2>1, <2>2, <2>3
<1>5. CASE GenerateSome
  <2>1. PICK n \in 0 .. MaxOut, additional \in Strings :
           Generate(n, additional) \/ GenerateResistant(n, additional)
    BY <1>5 DEF GenerateSome
  <2> QED
    BY <1>1, <2>1, GenerateKeeps, ResistantKeeps
<1>6. ASSUME NEW n \in 0 .. MaxOut, Generate(n, <<>>)
      PROVE  Promise!Next
  BY <1>1, <1>6, GenerateKeeps
<1>7. CASE OsFails
  BY <1>2, <1>7 DEF OsFails
<1>8. CASE NotInstantiated
  BY <1>2, <1>8 DEF NotInstantiated
<1>9. ASSUME NEW n \in 0 .. MaxOut, GenerateTooLarge(n)
      PROVE  Promise!Next
  BY <1>2, <1>9 DEF GenerateTooLarge
<1>10. CASE BadArguments \/ UnknownAlg
  BY <1>2, <1>10 DEF BadArguments, UnknownAlg
<1>11. CASE Clear
  BY <1>11, WipeKeeps DEF Clear
<1>12. CASE UNCHANGED vars
  BY <1>12 DEF vars, Promise!vars
<1> QED
  BY <1>3, <1>4, <1>5, <1>6, <1>7, <1>8, <1>9, <1>10, <1>11, <1>12 DEF Next

----------------------------------------------------------------------------
(* Everything below holds for every block length, seed length, request     *)
(* limit and reseed interval, and for every set of strings callers pass.   *)

(* IInv is an invariant of the context under every sequence of calls to    *)
(* instantiate, reseed, generate and clear it.                             *)
THEOREM Invariant == Spec => []IInv
<1>1. Init => IInv
  BY InitStep
<1>2. IInv /\ [Next]_vars => IInv'
  BY NextStep
<1> QED
  BY <1>1, <1>2, PTL DEF Spec

(* RESEED_COUNTER never leaves 1 .. RESEED_INTERVAL + 1 in an instantiated *)
(* context, and every variable keeps its type.                             *)
THEOREM TypeCorrect == Spec => []TypeOK
<1>1. IInv => TypeOK
  BY DEF IInv
<1> QED
  BY <1>1, Invariant, PTL

(* LIBERAC_CTR_DRBG_GENERATE never delivers a keystream block twice        *)
(* between two instantiations, nor one that ctr_drbg_update made a KEY of. *)
THEOREM NoBlockTwice == Spec => []NeverTwice
<1>1. IInv => NeverTwice
  BY DEF IInv
<1> QED
  BY <1>1, Invariant, PTL

(* No call leaves in the context the KEY that made bytes it delivered: the *)
(* update that ends generate erases it.                                    *)
THEOREM BacktrackingResistance == Spec => []KeyErased
<1>1. ASSUME IInv
      PROVE  KeyErased
  <2>1. Len(ctx.name) \in Nat
    BY <1>1 DEF IInv, TypeOK, Context, Names
  <2>2. SUFFICES ASSUME NEW b \in Past, b[1] = ctx.name
                 PROVE  FALSE
    BY DEF KeyErased, Past
  <2>3. Len(b[1]) < Len(ctx.name)
    BY <1>1, <2>2 DEF IInv, Older
  <2> QED
    BY <2>1, <2>2, <2>3
<1> QED
  BY <1>1, Invariant, PTL

(* With PREDICTION_RESISTANCE every byte LIBERAC_CTR_DRBG_GENERATE gives,  *)
(* and the KEY and V it leaves, hold entropy drawn during that call.       *)
THEOREM FreshEntropy == Spec => []PredictionResistant
<1>1. Init => PredictionResistant
  BY PlainCalls DEF Init, PredictionResistant
<1>2. IInv /\ PredictionResistant /\ [Next]_vars => PredictionResistant'
  BY PredictionStep
<1> QED
  BY <1>1, <1>2, Invariant, PTL DEF Spec

(* Whatever calls are made, refused or failed, a seeding is good for       *)
(* RESEED_INTERVAL requests, no more and no fewer: the context implements  *)
(* the promise of inc/RandomNumberGeneration.h, step by step.              *)
THEOREM Refinement == Spec => ImplementsDrbgSpec
<1>1. Init => Promise!Init
  <2> SUFFICES ASSUME Init PROVE Promise!Init
    OBVIOUS
  <2>1. ~ctx.inst /\ call.ret = "SUCCESS"
    BY PlainCalls DEF Init, Cleared
  <2> QED
    BY <2>1 DEF Promise!Init
<1>2. IInv /\ [Next]_vars => [Promise!Next]_(Promise!vars)
  BY NextKeeps
<1> QED
  BY <1>1, <1>2, Invariant, PTL DEF Spec, ImplementsDrbgSpec, Promise!Spec
=============================================================================
