-------------------------- MODULE MCInternalLinker --------------------------
(***************************************************************************)
(* A TLC instance of InternalLinker: the module's object, an input object  *)
(* and two archive members over main, _start, a section and two symbols.   *)
(***************************************************************************)
EXTENDS InternalLinker

CONSTANTS a, b, data

(* main is global in the first object and _start may be in the second.  An
   object holds something of at most three names.                           *)
First  == {h \in [Names -> Holds] :
             /\ h[Main] = "global" /\ h[Start] = "none" /\ h[data] = "none"
             /\ <<h[a], h[b]>> \in {<<"none", "ref">>, <<"ref", "ref">>, <<"ref", "none">>,
                                    <<"local", "none">>, <<"global", "ref">>}}
Second == {h \in [Names -> Holds] :
             /\ h[Main] = "none" /\ h[b] # "undef"
             /\ h[Start] \in {"none", "global"} /\ h[data] \in {"none", "ref"}
             /\ h[Start] = "global" => h[a] = "none"
             /\ h[data] = "ref" => h[b] = "none"}
Third  == {h \in [Names -> Holds] :
             /\ h[Main] = "none" /\ h[Start] = "none" /\ h[data] = "none"
             /\ h[a] # "undef" /\ h[b] # "undef"
             /\ h[a] = "global" \/ h[b] = "global"}
Fourth == {h \in [Names -> Holds] :
             /\ h[Main] = "none" /\ h[data] = "none"
             /\ <<h[Start], h[a], h[b]>> \in
                  {<<"none", "none", "global">>, <<"ref", "none", "global">>,
                   <<"none", "ref", "global">>, <<"none", "global", "none">>}}

(* Two ways in which libraries provide the symbols.                         *)
Provided ==
  {[n \in Names |-> CASE n = a -> p[1] [] n = b -> p[2] [] OTHER -> "none"] :
     p \in {<<"none", "function">>, <<"function", "data">>}}

SectionOfEach == [n \in Names |-> IF n = data THEN 2 ELSE 1]

(* The bytes of .text and .data.  The relocations of the last member patch a
   section that is not placed.                                              *)
Pieces == << <<3, 1>>, <<1, 0>>, <<2, 2>>, <<1, 1>> >>
SizeOfEach == [o \in 1 .. 4 |-> [s \in 0 .. 2 |-> IF s = 0 THEN 1 ELSE Pieces[o][s]]]

Usual(f, s, m, l, i) ==
  [holds |-> <<f, s, m, l>>, size |-> SizeOfEach, patched |-> <<1, 1, 2, 0>>,
   foreign |-> {}, imports |-> i, startable |-> TRUE]

(* Builds with a member for another target, for a system that needs no start
   stub; and builds without code.                                           *)
EveryBuild ==
  LET Used == {h \in First : h[a] = "ref" /\ h[b] = "ref"}
  IN  {Usual(f, s, m, l, i) :
         f \in First, s \in Second, m \in Third, l \in Fourth, i \in Provided}
      \cup {[Usual(f, s, m, l, i) EXCEPT !.foreign = {4}, !.startable = FALSE] :
               f \in Used, s \in Second, m \in Third, l \in Fourth, i \in Provided}
      \cup {[Usual(f, s, m, m, i) EXCEPT !.patched = <<2, 2, 2, 2>>,
                                        !.size = [o \in 1 .. 4 |-> [n \in 0 .. 2 |-> n \div 2]]] :
               f \in First, s \in Second, m \in Third, i \in Provided}
=============================================================================
