--------------------------- MODULE MCPrefixCache ---------------------------
(* One source reads the slider, and the switch only if the slider is high; *)
(* one draws, one seeds, draws and leaves hold on, one draws on a          *)
(* figure by its handle.  Of the prose, one draws, scaled by the slider.   *)
(* The steady documents give every source one set of directives and        *)
(* declare both widgets.                                                   *)
EXTENDS PrefixCache, TLC

MCSources == {"reads", "draws", "seeds", "handles", "graph"}
MCDraws == {"draws", "seeds", "rolls"}
MCSeeds == {"seeds"}
MCHolds == {"seeds"}
MCHandles == {"handles"}
MCDirectives == {"plain", "hide"}
MCProses == {"p", "q", "rolls"}
MCActs == {"rolls"}
MCWidgets == {"slider", "switch"}
MCValues == {"low", "high"}

(* A widget() call of an undeclared name ends the block with an error.     *)
MCReadsOf(src, env, table) ==
  CASE src = "reads" /\ table["slider"] = "high" -> {"slider", "switch"}
    [] src = "reads" /\ table["slider"] # "high" -> {"slider"}
    [] src = "rolls" -> {"slider"}
    [] OTHER -> {}

Code(src) == [kind |-> "code", src |-> src, dir |-> "plain"]
Diagram == [kind |-> "mermaid", src |-> "graph", dir |-> "plain"]
Declared == [w \in MCWidgets |-> <<"low", "high">>]
Doc(blocks, proses) == [blocks |-> blocks, proses |-> proses, choices |-> Declared]

Symmetry == Permutations(Threads)

MCSteadyDocs ==
  { Doc(<<Code("reads"), Code("draws"), Code("seeds")>>, <<"p", "p", "p", "p">>),
    Doc(<<Code("reads"), Code("draws")>>, <<"p", "rolls", "q">>),
    [Doc(<<Code("handles"), Diagram>>, <<"rolls", "rolls", "p">>)
       EXCEPT !.choices["switch"] = <<"low">>] }
=============================================================================
