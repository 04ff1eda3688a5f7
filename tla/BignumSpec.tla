----------------------------- MODULE BignumSpec -----------------------------
(*****************************************************************************)
(* What the big-number functions promise: registers that hold natural        *)
(* numbers.  A call that succeeds replaces its output register by the exact  *)
(* result on the values before the call, whichever registers it names twice; *)
(* a call that fails leaves every number alone, except that adding a word in *)
(* place may lose the number it was adding to.                               *)
(*****************************************************************************)
EXTENDS Integers

CONSTANT Registers

VARIABLES
  value,  \* the number in each register
  call    \* the last call: what was made, with its operands, and whether it was ok

Init == value = [r \in Registers |-> 0] /\ call = [made |-> [op |-> "none"], ok |-> FALSE]

\* The result of a call that succeeds; k is its operand that is not a register.
Exact(c) ==
  LET a == value[c.a]
      b == value[c.b]
  IN CASE c.op = "add"    -> a + b
       [] c.op = "sub"    -> a - b
       [] c.op = "mul"    -> a * b
       [] c.op = "square" -> a * a
       [] c.op = "mod"    -> a % b
       [] c.op = "mulmod" -> (a * value[c.k]) % b
       [] c.op = "copy"   -> a
       [] c.op = "shift"  -> 2 * a
       [] c.op = "addu32" -> a + c.k
       [] c.op = "subu32" -> a - c.k
       [] c.op = "mulu32" -> a * c.k
       [] c.op = "divu32" -> a \div c.k
       [] c.op = "set"    -> c.k
       [] c.op = "fixedcopy" -> a % c.k
       [] c.op = "fixedsub"  -> (a % c.k) - (b % c.k)
       [] c.op = "free"      -> 0

\* Draws are in range, exports are the number they export, and every other call
\* stores its exact result.
Succeed(c) ==
  CASE c.op = "range"  -> \E v \in 0 .. value[c.a] - 1 : value' = [value EXCEPT ![c.out] = v]
    [] c.op = "draw"   -> \E v \in 0 .. c.k - 1 :
                            /\ c.top => 2 * v >= c.k
                            /\ c.odd => v % 2 = 1
                            /\ value' = [value EXCEPT ![c.out] = v]
    [] c.op = "export" -> value' = value /\ c.exported = value[c.a]
    [] OTHER           -> value' = [value EXCEPT ![c.out] = Exact(c)]

Fail(c) ==
  \A r \in Registers : value'[r] = value[r] \/ (c.op = "addu32" /\ r = c.out)

Next == IF call'.ok THEN Succeed(call'.made) ELSE Fail(call'.made)

Spec == Init /\ [][Next]_<<value, call>>

=============================================================================
