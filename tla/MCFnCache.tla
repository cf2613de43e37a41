----------------------------- MODULE MCFnCache -----------------------------
(* f calls g, or k, which only a file brings; g has two pure bodies and    *)
(* one that draws.  One file brings h and its helper k; another stops at   *)
(* its second function, which uses an unbound variable; a third one draws. *)
EXTENDS FnCache, TLC

MCNames == {"f", "g", "h", "k", "m", "n", "r"}
MCImpure == {"GR", "RR"}
MCFree == {"NF"}
MCLevel == [x \in MCNames |-> IF x \in {"f", "h", "m"} THEN 1 ELSE 0]

Def(name, code, calls) == [name |-> name, body |-> [code |-> code, calls |-> calls]]

MCDefinitions ==
  { Def("f", "F1", <<"g">>), Def("f", "F2", <<"k">>),
    Def("g", "G1", <<>>), Def("g", "G2", <<>>), Def("g", "GR", <<>>) }

MCFiles ==
  { <<Def("h", "H1", <<"k">>), Def("k", "K1", <<>>)>>,
    <<Def("m", "M1", <<"n">>), Def("n", "NF", <<>>)>>,
    <<Def("r", "RR", <<>>)>> }

(* The helper of a file before and after an edit.                          *)
MCEditedFiles ==
  { <<Def("h", "H1", <<>>)>>, <<Def("h", "H2", <<>>)>> }

MCInline == { Def("g", "G1", <<>>), Def("f", "F1", <<"g">>) }

Symmetry == Permutations(Processes)
=============================================================================
