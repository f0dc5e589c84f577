------------------------- MODULE MCSSAConstruction -------------------------
(***************************************************************************)
(* TLC instances of SSAConstruction.                                       *)
(***************************************************************************)
EXTENDS SSAConstruction

(* A variable of two bits.  A byte access is of the low bit, an access at a
   computed address of the high one; storel writes it all but is not Store.  *)
Bits     == 0 .. 3
Extremes == {0, 3}
MCLoads  == {"load", "loadub", "loadat"}
MCStores == {"store", "storel", "storeb", "storeat"}
MCDirect == {"load", "loadub", "store", "storel", "storeb"}
MCPlain  == {"store"}

MCReads == [op \in MCLoads |-> [m \in Bits |->
              CASE op = "load" -> m [] op = "loadub" -> m % 2 [] op = "loadat" -> m \div 2]]

MCWrites == [op \in MCStores |-> [m \in Bits |-> [x \in Bits |->
               CASE op \in {"store", "storel"} -> x
                 [] op = "storeb"  -> 2 * (m \div 2) + (x % 2)
                 [] op = "storeat" -> (m % 2) + 2 * (x % 2)]]]

(* Functions in which nothing jumps to the entry and every block is
   reachable, the entry stores and one other block loads.  The blocks are
   numbered so that the entry jumps to 2, or to 2 and 3.                     *)
Graphs == {term \in [Blocks -> [falls : {FALSE}, targets : SUBSET (2 .. N)]] :
             /\ term[Entry].targets \in {{2}, {2, 3}}
             /\ \A b \in Blocks : Cardinality(term[b].targets) <= 2
             /\ AllReachable(Graph(term))}

Loading(c) == {b \in Blocks : \E k \in 1 .. Len(c[b]) : c[b][k] \in MCLoads}

Codes(S) == {c \in [Blocks -> S] : c[Entry] = <<"store">> /\ Cardinality(Loading(c)) = 1}

Converted == [term : Graphs, code : Codes({<<>>, <<"store">>, <<"load">>, <<"load", "storel">>})]

(* Functions in which something jumps to the entry or a block is unreachable
   and the address is passed to calls; the entry only jumps, and the analyses
   end.                                                                      *)
OddGraph == {term \in [Blocks -> [falls : {FALSE}, targets : SUBSET Blocks]] :
               /\ term[Entry].targets = {2}
               /\ \A b \in Blocks : Cardinality(term[b].targets) <= 2
               /\ Rooted(Graph(term))
               /\ ~AllReachable(Graph(term)) \/ Preds(Graph(term), Entry) # {}}

OddCode == {<<"call">>, <<"load", "store">>}

(* Functions with accesses of a part of the variable.                        *)
Partial == [term : Graphs, code : {c \in [Blocks -> {<<"store">>, <<"loadub", "storeb">>, <<"loadat", "storeat">>}] :
              \A b \in Blocks : c[b] = <<"store">> <=> b = Entry}]

Odd == [term : OddGraph, code : {c \in [Blocks -> OddCode \cup {<<>>}] :
          \A b \in Blocks : c[b] = <<>> <=> b = Entry}]

ConvertedOrOdd == Converted \cup Odd \cup Partial

(* A load after a store in one block.                                       *)
Return == [falls |-> FALSE, targets |-> {}]

LoadAfterStore == {[term |-> <<Return>>, code |-> <<<<"store", "load">>>>]}
=============================================================================
