------------------------------ MODULE MCOsRandom ------------------------------
(* Two threads that share a descriptor table; calls of up to two bytes of  *)
(* which a system call delivers at most one, with one EINTR each.          *)
EXTENDS OsRandom

CONSTANTS t1, t2
MCThreads == {t1, t2}

Opens == {{"fd"}, {"fd", "error"}}
Reads == {{"bytes"}, {"none"}, {"bytes", "error"}}

(* getrandom that works, that stops half way, that is missing, that fails; *)
(* and a platform without it.                                              *)
MCKernels ==
    [linux : {TRUE}, open : Opens, read : Reads,
     getrandom : {{"bytes"}, {"bytes", "none"}, {"nosys"}, {"bytes", "error"}}]
    \cup [linux : {FALSE}, open : Opens, read : Reads, getrandom : {{"nosys"}}]
=============================================================================
