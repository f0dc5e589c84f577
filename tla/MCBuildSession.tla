--------------------------- MODULE MCBuildSession ---------------------------
(***************************************************************************)
(* One alias of the default triple, a WASM32 triple and one that does not  *)
(* resolve; two modules that define the same symbol, the second of which   *)
(* also loses a call when it is linked, so that the validator refuses it;  *)
(* a source module in a state that validates and one that does not.        *)
(***************************************************************************)
EXTENDS BuildSession

CONSTANTS good, bad, m1, m2

Alias == [n \in {"linux", "x64-linux-bin", "wasm32-wasi-wasm", "vax-vms"} |->
              IF n = "linux" THEN "x64-linux-bin" ELSE n]
PartsUpTo == [src : Sources, linked : UNION {[1 .. n -> Additional] : n \in 0 .. MaxModules}]
Clashes == {p \in PartsUpTo : Len(p.linked) > 1}
Refused == {p \in PartsUpTo : p.src = bad \/ (p.linked # <<>> /\ p.linked[1] = m2)}
=============================================================================
