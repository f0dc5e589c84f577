---------------------------- MODULE MCLinearScan ----------------------------
(***************************************************************************)
(* TLC instance of LinearScan: four vregs, two caller-saved registers, one *)
(* callee-saved and one SIMD register, a call in the middle of a function  *)
(* of five positions, so that every pool runs dry and refills.             *)
(***************************************************************************)
EXTENDS LinearScan, TLC

CONSTANTS v1, v2, v3, v4, r10, rcx, rbx, xmm0

MCVregs  == {v1, v2, v3, v4}
MCCaller == {r10, rcx}
MCCallee == {rbx}
MCXmm    == {xmm0}
MCCalls  == {3}
MCWidths == {1, 2}
Symmetry == Permutations(MCVregs)

(* A smaller instance, enough for a value to be clobbered by a call.        *)
FewVregs  == {v1, v2, v3}
FewCaller == {r10}
FewSymmetry == Permutations(FewVregs)
=============================================================================
