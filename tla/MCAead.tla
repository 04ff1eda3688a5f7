------------------------------- MODULE MCAead -------------------------------
(***************************************************************************)
(* Small instances of Aead.  One algorithm of each family; a block has two *)
(* bytes, the counter word four values in GCM and three in ChaCha20, a     *)
(* length digit two.  Aliasing lets the buffers lie anywhere; formats      *)
(* reads one tape of bytes as nonce, AAD and message, cut in every way.    *)
(***************************************************************************)
EXTENDS Aead

MCAlgs == {"GCM", "CCM", "CHACHA"}
MCFamily == [a \in MCAlgs |-> a]
MCKeyLen == [a \in MCAlgs |-> 1]
MCNonceLens == [GCM |-> {1, 2, 3}, CCM |-> {2, 3}, CHACHA |-> {2}]
MCCtrMod == [GCM |-> 4, CCM |-> 4, CHACHA |-> 3]

AliasTagLens == [GCM |-> {2}, CCM |-> {4}, CHACHA |-> {2}]
AliasMemory == 1 .. 10
AliasMemories == {[i \in AliasMemory |-> {<<"init", i>>}]}

(* Nonce at 1 and 2, key at 3, AAD at 4; OUTPUT, INPUT and TAG anywhere.   *)
AliasRequests ==
    {r \in [alg : MCAlgs, out : 2 .. 9, cap : {9}, tag : 2 .. 9, tcap : {9}, t : {2, 4},
            in : {1, 4, 5, 6, 7, 8}, n : {1, 2}, key : {3}, kn : {1},
            nonce : {1}, nn : {2}, aad : {4}, an : {1}] :
        /\ r.t \in AliasTagLens[r.alg]
        /\ r.out + r.n <= 11 /\ r.tag + r.t <= 11 /\ r.in + r.n <= 11}

FormatTagLens == [GCM |-> {2, 3}, CCM |-> {4, 6}, CHACHA |-> {2}]
FormatMemory == 1 .. 15
FormatMemories == {[i \in FormatMemory |-> Digit(0)], [i \in FormatMemory |-> Digit(i % 2)]}

(* The tape holds nonce, AAD and message one after the other; the tag is   *)
(* at 9 to 14, the key at 15.  One byte too short, a NULL, an unknown      *)
(* algorithm and a wrong key length are refused.                           *)
Cut(a, nn, an, n, t) ==
    [alg |-> a, out |-> nn + an + 1, cap |-> n, tag |-> 9, tcap |-> t, t |-> t,
     in |-> nn + an + 1, n |-> n, key |-> 15, kn |-> 1,
     nonce |-> 1, nn |-> nn, aad |-> nn + 1, an |-> an]

FormatRequests ==
    LET Good == {Cut(a, nn, an, n, t) : a \in MCAlgs, nn \in 1 .. 3, an \in 0 .. 2,
                                        n \in 0 .. 5, t \in {2, 3, 4, 5, 6}}
        Some == Cut("GCM", 2, 1, 2, 2)
    IN  {r \in Good : /\ r.nn + r.an + r.n <= 8
                      /\ r.nn \in NonceLens[r.alg]
                      /\ r.t \in TagLens[r.alg] \cup {5}}
        \cup {[Some EXCEPT !.cap = 1], [Some EXCEPT !.tcap = 1], [Some EXCEPT !.key = 14, !.kn = 2],
              [Some EXCEPT !.aad = NULL], [Some EXCEPT !.alg = "NONE"]}
=============================================================================
