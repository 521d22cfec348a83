---------------------------- MODULE MCRocketAlu ----------------------------
(***************************************************************************)
(* Operands for the model checker: zero, the largest word, and what lies   *)
(* at the signs, at the bytes and at the widths of a shift.                *)
(***************************************************************************)
EXTENDS RocketAluBench

BoundaryWords == { 0, 1, 2, 3, 15, 127, 128, 255, 256, 257,
                   32766, 32767, 32768, 32769, 65279, 65534, 65535 }

=============================================================================
