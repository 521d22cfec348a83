----------------------------- MODULE MCImages -----------------------------
(***************************************************************************)
(* Program images for the model checker, put together from instructions.   *)
(***************************************************************************)
EXTENDS RocketIsa, Sequences

\* The bytes of a sequence of words, low byte first.
BytesOf(words) ==
  [i \in 1 .. 2 * Len(words) |->
     IF i % 2 = 1 THEN words[(i + 1) \div 2] % 256 ELSE words[i \div 2] \div 256]

\* Every program of n instructions from a menu.
Programs(menu, n) == {BytesOf(words) : words \in [1 .. n -> menu]}

Imm(op, reg, imm) == rvm_encode(op, reg, RVM_MODE_IMM_OR_ADDR, imm)
Rr(op, reg, src)  == rvm_encode(op, reg, RVM_MODE_REG, src)

=============================================================================
