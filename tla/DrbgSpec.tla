------------------------------ MODULE DrbgSpec ------------------------------
(***************************************************************************)
(* What inc/RandomNumberGeneration.h promises of a CTR-DRBG context,       *)
(* without keys, counters or block ciphers: it serves requests only while  *)
(* it is seeded and at most Interval[a] of them between two seedings, asks *)
(* to be reseeded exactly when that many were served, and forgets nothing  *)
(* in a call that fails unless the call was to seed it.                    *)
(***************************************************************************)
EXTENDS Naturals

CONSTANTS
    Algs, Interval,
    NoAlg       \* an identifier that is no CTR-DRBG algorithm

VARIABLES
    ready,      \* the algorithm of a context that is seeded, else NoAlg
    served,     \* requests served since it was seeded
    ret         \* what the last call returned

vars == <<ready, served, ret>>

Init == ready = NoAlg /\ served = 0 /\ ret = "SUCCESS"

Seed(a) ==
    /\ ready' = a
    /\ served' = 0
    /\ ret' = "SUCCESS"

Reseed ==
    /\ ready # NoAlg
    /\ served' = 0
    /\ ret' = "SUCCESS"
    /\ UNCHANGED ready

(* A request is served; with prediction resistance it reseeds first.       *)
Serve ==
    /\ ready # NoAlg
    /\ \/ served < Interval[ready] /\ served' = served + 1
       \/ served' = 1
    /\ ret' = "SUCCESS"
    /\ UNCHANGED ready

Refuse ==
    /\ \/ ret' \in {"INVALID_ARGUMENT", "MESSAGE_TOO_LARGE",
                    "ALLOCATION_FAILED", "RANDOM_FAILED", "INVALID_ALG_ID"}
       \/ /\ ret' = "RESEED_REQUIRED"
          /\ ready # NoAlg
          /\ served = Interval[ready]
    /\ UNCHANGED <<ready, served>>

(* LIBERAC_CTR_DRBG_CLEAR, and an instantiation that fails.                *)
Forget(code) ==
    /\ ready' = NoAlg
    /\ served' = 0
    /\ ret' = code

Next ==
    \/ \E a \in Algs : Seed(a)
    \/ Reseed \/ Serve \/ Refuse
    \/ \E code \in {ret, "INVALID_ARGUMENT", "MESSAGE_TOO_LARGE",
                    "ALLOCATION_FAILED"} : Forget(code)

Spec == Init /\ [][Next]_vars
=============================================================================
