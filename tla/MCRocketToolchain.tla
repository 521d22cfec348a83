------------------------- MODULE MCRocketToolchain -------------------------
(***************************************************************************)
(* Texts and old files for the model checker.  No text and no file has a   *)
(* backward jump, so that every mixture of two of them ends.  One text has *)
(* stores, which hit the heap.                                             *)
(***************************************************************************)
EXTENDS RocketToolchain, MCImages

\* What a text is does not depend on Texts.
Lexer == INSTANCE RocketLexer

SomeTexts == {Lexer!Chars(string) : string \in
  { "call f\nret\nf: ret",
    "cmp rv1, rv0\njz b\nb: ret\nb:",
    "jnz a\n\tmov rv1, 2 ; a\n\na:",
    "mov rv0, 0x80000000\nret",
    "jmp nowhere\nret",
    "ret\njmp 4",
    "load rv1, [x]",
    "mov rv1, 16\nstore [rv1], rv1\nstore [18], rv1",
    "x: load rv2, [x]\ncall rv2",
    "ret ret", "x:", "; nothing", "" }}

OldFiles ==
  { <<>>,
    BytesOf(<<EncodeRelative(RVM_OP.CALL, 2), Imm(RVM_OP.MOV, 1, 9), rvm_ret>>),
    [i \in 1 .. RVM_MEMORY_SIZE + 1 |-> 0] }

=============================================================================
