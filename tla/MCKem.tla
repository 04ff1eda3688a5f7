------------------------------- MODULE MCKem -------------------------------
(***************************************************************************)
(* Kem with two parameter sets of each scheme.                             *)
(***************************************************************************)
EXTENDS Kem, TLC

MCThreads == Permutations(Threads)

MCFamily ==
    [a \in Algs |->
        CASE a \in {"mlkem512", "mlkem768"}     -> "MLKEM"
          [] a \in {"ntru768", "ntru864"}       -> "NTRU"
          [] a \in {"smaug128", "smaug192"}     -> "SMAUG"]

MCSize == [a \in Algs |-> IF a \in {"mlkem512", "ntru768", "smaug128"} THEN 1 ELSE 2]
=============================================================================
