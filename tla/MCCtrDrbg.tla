------------------------------ MODULE MCCtrDrbg ------------------------------
(* Small instances of CtrDrbg: one algorithm with the derivation function, *)
(* one without, blocks of two bytes, a V of a few values.                  *)
EXTENDS CtrDrbg

Df   == "AES_DF"
NoDf == "AES_NO_DF"

MCAlgs  == {Df, NoDf}
MCUseDf == [a \in MCAlgs |-> a = Df]

MCBlockLen   == [a \in MCAlgs |-> IF a = Df THEN 2 ELSE 1]
MCSeedLen    == [a \in MCAlgs |-> IF a = Df THEN 3 ELSE 2]
MCSecurity   == [a \in MCAlgs |-> IF a = Df THEN 2 ELSE 1]
MCMaxRequest == [a \in MCAlgs |-> IF a = Df THEN 3 ELSE 2]
MCInterval   == [a \in MCAlgs |-> IF a = Df THEN 1 ELSE 2]
MCVMod       == [a \in MCAlgs |-> 4]

One == {<<0, 1>>}
MCStrings == {<<>>, <<{}, One>>, <<One, One, One>>}
=============================================================================
