---------------------------- MODULE MCLoopMotion ----------------------------
(***************************************************************************)
(* TLC instance of LoopMotion: every graph of four blocks.                 *)
(***************************************************************************)
EXTENDS LoopMotion

EveryGraph == [Blocks -> Terminators]

Instr(k, r) == [kind |-> k, reads |-> r]

(* The entry computes a value, the others read one of a block listed before;
   or there is nothing to move.                                             *)
Chains ==
  {<<Instr("pure", {}), i, j, k>> :
     i \in {Instr("phi", {}), Instr("pure", {1})},
     j \in {Instr("phi", {}), Instr("pure", {2}), Instr("fixed", {2})},
     k \in {Instr("phi", {}), Instr("pure", {2}), Instr("pure", {3})}}
  \cup {[b \in Blocks |-> Instr("fixed", {})]}
=============================================================================
