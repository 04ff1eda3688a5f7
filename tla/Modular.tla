------------------------------ MODULE Modular -------------------------------
(****************************************************************************)
(* Reference arithmetic modulo a small number, against which the modules of *)
(* the public-key schemes are checked.                                      *)
(****************************************************************************)
EXTENDS Integers, FiniteSets

\* b^e mod m for e >= 0.
PowMod(b, e, m) ==
  LET pow[k \in 0 .. e] == IF k = 0 THEN 1 % m ELSE (pow[k - 1] * b) % m
  IN  pow[e]

Divides(d, v) == v % d = 0
IsPrime(v) == v > 1 /\ \A k \in 2 .. v - 1 : ~Divides(k, v)
Coprime(x, y) == \A k \in 2 .. x : ~(Divides(k, x) /\ Divides(k, y))

\* The bits of a number, and the numbers of exactly b bits.
BitLength(v) == CHOOSE b \in 0 .. 31 : v < 2^b /\ (b = 0 \/ 2^(b - 1) <= v)
OfBits(b) == 2^(b - 1) .. 2^b - 1
PrimesOfBits(b) == {v \in OfBits(b) : IsPrime(v) /\ v % 2 = 1}

\* The inverse of v modulo m, where it exists.
InverseMod(v, m) == CHOOSE w \in 0 .. m - 1 : (v * w) % m = 1 % m

=============================================================================
