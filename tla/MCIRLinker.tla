----------------------------- MODULE MCIRLinker -----------------------------
(* A destination and two modules linked into it, over two functions and a  *)
(* global: every way the three can declare and define them.                *)
EXTENDS IRLinker
=============================================================================
