------------------------------- MODULE OsRandom -------------------------------
(***************************************************************************)
(* crypto_random_bytes_internal and random_os_bytes (random.c), as threads *)
(* of one process run them: getrandom with partial results and EINTR, the  *)
(* fallback to /dev/urandom for what is still missing, and the process's   *)
(* file descriptors, which are shared and reused.  Each system call is one *)
(* step; what it may answer is chosen once, in kernel.                     *)
(***************************************************************************)
EXTENDS Integers, FiniteSetsExt

CONSTANTS
    Threads,
    Kernels,        \* the kernels considered: see KernelAnswers
    MaxAsk,         \* 0x7ffff000, the most one system call is asked for
    NoThread,       \* the owner of a descriptor that is not open
    MaxLength,      \* bound: bytes one call asks for
    MaxInterrupts   \* bound: EINTR answers a call receives

(* A platform, and what its system calls can answer besides EINTR: "none"  *)
(* is a result of zero bytes.                                              *)
KernelAnswers ==
    [linux : BOOLEAN,
     getrandom : SUBSET {"bytes", "none", "nosys", "error"} \ {{}},
     open : SUBSET {"fd", "error"} \ {{}},
     read : SUBSET {"bytes", "none", "error"} \ {{}}]

ASSUME RandomConstants ==
    /\ Kernels \subseteq KernelAnswers
    /\ MaxAsk \in Nat \ {0} /\ MaxLength \in Nat /\ MaxInterrupts \in Nat
    /\ IsFiniteSet(Threads) /\ NoThread \notin Threads

VARIABLES
    kernel,     \* the platform and the answers its system calls can give
    pc,         \* the system call a thread makes next, or "idle"
    asked,      \* OUTPUT_LENGTH
    out,        \* how far out has moved from the start of OUTPUT
    left,       \* length: bytes still missing
    wrote,      \* history: how often each byte of OUTPUT was written
    fd,         \* the descriptor of /dev/urandom
    table,      \* which thread opened a descriptor that is open
    interrupts, \* EINTR answers so far
    ret         \* what a thread's last call returned, or will return

osVars == <<kernel, pc, asked, out, left, wrote, fd, table, interrupts, ret>>
buffer == <<asked, out, left, wrote>>

(* At most one descriptor per thread is open here.                         *)
Descriptors == 0 .. Cardinality(Threads) - 1

Goto(t, label)  == pc' = [pc EXCEPT ![t] = label]
Result(t, code) == ret' = [ret EXCEPT ![t] = code]
Return(t, code) == Goto(t, "idle") /\ Result(t, code)

(* The call is interrupted: every loop here tries again.                   *)
Interrupted(t) ==
    /\ interrupts[t] < MaxInterrupts
    /\ interrupts' = [interrupts EXCEPT ![t] = @ + 1]
    /\ UNCHANGED <<kernel, pc, buffer, fd, table, ret>>

(* The kernel writes k bytes at out; out and length move on.               *)
Moved(t, k) == out[t] + k

Receive(t) ==
    /\ \E k \in 1 .. Min({left[t], MaxAsk}) :
         /\ wrote' = [wrote EXCEPT ![t] = [i \in 1 .. MaxLength |->
                        @[i] + IF i \in out[t] + 1 .. out[t] + k THEN 1 ELSE 0]]
         /\ out'   = [out EXCEPT ![t] = Moved(t, k)]
         /\ left'  = [left EXCEPT ![t] = @ - k]
    /\ UNCHANGED <<kernel, pc, asked, fd, table, interrupts, ret>>

Call(t) ==
    /\ pc[t] = "idle"
    /\ \E n \in 0 .. MaxLength :
         /\ asked' = [asked EXCEPT ![t] = n]
         /\ left'  = [left EXCEPT ![t] = n]
    /\ out'   = [out EXCEPT ![t] = 0]
    /\ wrote' = [wrote EXCEPT ![t] = [i \in 1 .. MaxLength |-> 0]]
    /\ Goto(t, IF kernel.linux THEN "getrandom" ELSE "open")
    /\ interrupts' = [interrupts EXCEPT ![t] = 0]
    /\ UNCHANGED <<kernel, fd, table, ret>>

CallNull(t) ==
    /\ pc[t] = "idle"
    /\ Result(t, "INVALID_ARGUMENT")
    /\ UNCHANGED <<kernel, pc, buffer, fd, table, interrupts>>

(* Not there, or nothing more to give: /dev/urandom has to do.             *)
RanDry(t) ==
    /\ kernel.getrandom \cap {"nosys", "none"} # {}
    /\ Goto(t, "open")
    /\ UNCHANGED <<kernel, buffer, fd, table, interrupts, ret>>

Getrandom(t) ==
    /\ pc[t] = "getrandom"
    /\ left[t] > 0
    /\ \/ "bytes" \in kernel.getrandom /\ Receive(t)
       \/ Interrupted(t)
       \/ RanDry(t)
       \/ /\ "error" \in kernel.getrandom
          /\ Return(t, "RANDOM_FAILED")
          /\ UNCHANGED <<kernel, buffer, fd, table, interrupts>>

GetrandomDone(t) ==
    /\ pc[t] = "getrandom"
    /\ left[t] = 0
    /\ Return(t, "SUCCESS")
    /\ UNCHANGED <<kernel, buffer, fd, table, interrupts>>

(* open gives the lowest descriptor that is free.                          *)
Lowest == Min({d \in Descriptors : table[d] = NoThread})

OpenInterrupted(t) == Interrupted(t)

Open(t) ==
    /\ pc[t] = "open"
    /\ \/ /\ "fd" \in kernel.open
          /\ fd' = [fd EXCEPT ![t] = Lowest]
          /\ table' = [table EXCEPT ![Lowest] = t]
          /\ Goto(t, "read")
          /\ UNCHANGED <<kernel, buffer, interrupts, ret>>
       \/ OpenInterrupted(t)
       \/ /\ "error" \in kernel.open
          /\ Return(t, "RANDOM_FAILED")
          /\ UNCHANGED <<kernel, buffer, fd, table, interrupts>>

(* A failed read, or the end of the file, closes the descriptor and fails. *)
FaultyReadFailed(t) ==
    /\ "error" \in kernel.read
    /\ Return(t, "RANDOM_FAILED")
    /\ UNCHANGED <<kernel, buffer, fd, table, interrupts>>
ReadFailed(t) ==
    /\ "error" \in kernel.read
    /\ Goto(t, "close")
    /\ Result(t, "RANDOM_FAILED")
    /\ UNCHANGED <<kernel, buffer, fd, table, interrupts>>

FaultyReadEnd(t) == "none" \in kernel.read /\ UNCHANGED osVars
ReadEnd(t) ==
    /\ "none" \in kernel.read
    /\ Goto(t, "close")
    /\ Result(t, "RANDOM_FAILED")
    /\ UNCHANGED <<kernel, buffer, fd, table, interrupts>>

Read(t) ==
    /\ pc[t] = "read"
    /\ left[t] > 0
    /\ \/ "bytes" \in kernel.read /\ Receive(t)
       \/ Interrupted(t)
       \/ ReadFailed(t)
       \/ ReadEnd(t)

ReadDone(t) ==
    /\ pc[t] = "read"
    /\ left[t] = 0
    /\ Goto(t, "close")
    /\ Result(t, "SUCCESS")
    /\ UNCHANGED <<kernel, buffer, fd, table, interrupts>>

Close(t) ==
    /\ pc[t] = "close"
    /\ table' = [table EXCEPT ![fd[t]] = NoThread]
    /\ Goto(t, "idle")
    /\ UNCHANGED <<kernel, buffer, fd, interrupts, ret>>

OsInit ==
    /\ kernel \in Kernels
    /\ pc = [t \in Threads |-> "idle"]
    /\ asked = [t \in Threads |-> 0]
    /\ out = [t \in Threads |-> 0]
    /\ left = [t \in Threads |-> 0]
    /\ wrote = [t \in Threads |-> [i \in 1 .. MaxLength |-> 0]]
    /\ fd = [t \in Threads |-> 0]
    /\ table = [d \in Descriptors |-> NoThread]
    /\ interrupts = [t \in Threads |-> 0]
    /\ ret = [t \in Threads |-> "SUCCESS"]

(* A thread that is inside a call.                                         *)
Step(t) == Getrandom(t) \/ GetrandomDone(t) \/ Open(t) \/ Read(t) \/ ReadDone(t) \/ Close(t)

OsNext == \E t \in Threads : Call(t) \/ CallNull(t) \/ Step(t)

(* A thread keeps running and system calls return; signals interrupt a     *)
(* call at most MaxInterrupts times.  Nothing obliges a thread to call.    *)
OsFairness == \A t \in Threads : WF_osVars(Step(t))

OsSpec == OsInit /\ [][OsNext]_osVars /\ OsFairness

----------------------------------------------------------------------------
(* Properties.                                                             *)

Labels == {"idle", "getrandom", "open", "read", "close"}

(* Every variable has its type; in particular no byte of OUTPUT is written *)
(* twice, by either source.                                                *)
OsTypeOK ==
    /\ kernel \in Kernels
    /\ pc \in [Threads -> Labels]
    /\ asked \in [Threads -> 0 .. MaxLength]
    /\ out \in [Threads -> 0 .. MaxLength]
    /\ left \in [Threads -> 0 .. MaxLength]
    /\ wrote \in [Threads -> [1 .. MaxLength -> 0 .. 1]]
    /\ fd \in [Threads -> Descriptors]
    /\ table \in [Descriptors -> Threads \cup {NoThread}]
    /\ interrupts \in [Threads -> 0 .. MaxInterrupts]
    /\ ret \in [Threads -> {"SUCCESS", "INVALID_ARGUMENT", "RANDOM_FAILED"}]

(* LIBERAC_SUCCESS means that every byte of OUTPUT came from the kernel,   *)
(* in however many pieces and from whichever source, and none beyond it.   *)
SuccessFillsAll ==
    \A t \in Threads :
        pc[t] = "idle" /\ ret[t] = "SUCCESS" =>
            \A i \in 1 .. MaxLength : wrote[t][i] = IF i <= asked[t] THEN 1 ELSE 0

(* Every descriptor that is open belongs to the thread that is between its *)
(* open and its close: none is leaked on an error path, none is closed     *)
(* twice, and no thread reads from what another one opened.                *)
DescriptorsBalanced ==
    /\ \A t \in Threads : pc[t] \in {"read", "close"} => table[fd[t]] = t
    /\ \A d \in Descriptors : table[d] # NoThread =>
         pc[table[d]] \in {"read", "close"} /\ fd[table[d]] = d

(* While /dev/urandom answers, neither a kernel without getrandom, nor one *)
(* whose getrandom runs dry, nor any signal makes a call fail.             *)
FallbackSuffices ==
    /\ kernel.open = {"fd"}
    /\ kernel.read = {"bytes"}
    /\ kernel.linux => "error" \notin kernel.getrandom
    => \A t \in Threads : ret[t] # "RANDOM_FAILED"

(* A call of RANDOM_GENERATE keeps its promise to the caller and to the    *)
(* process, whatever the kernel has, refuses or interrupts: the parts      *)
(* above together.                                                         *)
RequestsAreServed ==
    OsTypeOK /\ SuccessFillsAll /\ DescriptorsBalanced /\ FallbackSuffices

(* Every call returns, even when /dev/urandom is an empty file.            *)
EveryCallReturns == \A t \in Threads : pc[t] # "idle" ~> pc[t] = "idle"
=============================================================================
