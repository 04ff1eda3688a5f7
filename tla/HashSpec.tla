------------------------------ MODULE HashSpec ------------------------------
(***************************************************************************)
(* What inc/HashFunction.h promises of a LiberaCHashContext: a context     *)
(* accepts a message piece by piece, the pieces only matter through their  *)
(* concatenation, a fixed-length digest is handed out once, a XOF's output *)
(* may be taken in pieces that concatenate to one stream, and a rejected   *)
(* call changes nothing.  There is no buffer, no length counter and no     *)
(* chaining value here.                                                    *)
(***************************************************************************)
EXTENDS HashAlgorithms

CONSTANTS Contexts, NoAlg

VARIABLES phase, alg, msg, out, ret

vars == <<phase, alg, msg, out, ret>>
state == <<phase, alg, msg, out>>

Init ==
    /\ phase = [c \in Contexts |-> "CLEARED"]
    /\ alg = [c \in Contexts |-> NoAlg]
    /\ msg = [c \in Contexts |-> <<>>]
    /\ out = [c \in Contexts |-> <<>>]
    /\ ret = "SUCCESS"

Begin(c, a) ==
    /\ phase' = [phase EXCEPT ![c] = "ABSORBING"]
    /\ alg' = [alg EXCEPT ![c] = a]
    /\ msg' = [msg EXCEPT ![c] = <<>>]
    /\ out' = [out EXCEPT ![c] = <<>>]
    /\ ret' = "SUCCESS"

Discard(c, code) ==
    /\ phase' = [phase EXCEPT ![c] = "CLEARED"]
    /\ alg' = [alg EXCEPT ![c] = NoAlg]
    /\ msg' = [msg EXCEPT ![c] = <<>>]
    /\ out' = [out EXCEPT ![c] = <<>>]
    /\ ret' = code

(* Any continuation of the message that still fits.                        *)
Accept(c) ==
    /\ phase[c] = "ABSORBING"
    /\ LET a == alg[c]
           n == Len(msg[c])
       IN  /\ Len(msg'[c]) >= n
           /\ SubSeq(msg'[c], 1, n) = msg[c]
           /\ Fits(a, Len(msg'[c]))
           /\ msg' = [msg EXCEPT ![c] = msg'[c]]
    /\ ret' = "SUCCESS"
    /\ UNCHANGED <<phase, alg, out>>

Close(c) ==
    /\ phase[c] = "ABSORBING"
    /\ phase' = [phase EXCEPT ![c] = "FINALIZED"]
    /\ ret' = "SUCCESS"
    /\ UNCHANGED <<alg, msg, out>>

(* The next bytes of the stream, however many were asked for.              *)
Extend(c) ==
    /\ phase[c] \in {"FINALIZED", "SQUEEZING"}
    /\ Family[alg[c]] = "SHAKE"
    /\ phase' = [phase EXCEPT ![c] = "SQUEEZING"]
    /\ LET n == Len(out[c])
       IN  /\ Len(out'[c]) >= n
           /\ SubSeq(out'[c], 1, n) = out[c]
           /\ \A k \in n + 1 .. Len(out'[c]) :
                  out'[c][k] = Stream(alg[c], msg[c], k - 1)
           /\ out' = [out EXCEPT ![c] = out'[c]]
    /\ ret' = "SUCCESS"
    /\ UNCHANGED <<alg, msg>>

Deliver(c) ==
    /\ phase[c] = "FINALIZED"
    /\ Family[alg[c]] # "SHAKE"
    /\ phase' = [phase EXCEPT ![c] = "CONSUMED"]
    /\ out' = [out EXCEPT ![c] = Digest(alg[c], msg[c])]
    /\ ret' = "SUCCESS"
    /\ UNCHANGED <<alg, msg>>

Refuse ==
    /\ \/ ret' = "INVALID_ARGUMENT"
       \/ /\ ret' = "BUFFER_TOO_SMALL"
          /\ \E c \in Contexts : /\ phase[c] = "FINALIZED"
                               /\ Family[alg[c]] # "SHAKE"
       \/ /\ ret' = "MESSAGE_TOO_LARGE"
          /\ \E c \in Contexts : phase[c] = "ABSORBING" /\ Bounded(alg[c])
    /\ UNCHANGED state

Next ==
    \/ Refuse
    \/ \E c \in Contexts :
          \/ \E a \in Algs : Begin(c, a)
          \/ Discard(c, "INVALID_ALG_ID")
          \/ Discard(c, ret)
          \/ Accept(c) \/ Close(c) \/ Extend(c) \/ Deliver(c)

Spec == Init /\ [][Next]_vars
=============================================================================
