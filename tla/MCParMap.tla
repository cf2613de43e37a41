------------------------------ MODULE MCParMap ------------------------------
(***************************************************************************)
(* Instances of ParMap: bodies that draw before they wait, and a body that *)
(* draws after a nested parmap.                                            *)
(***************************************************************************)
EXTENDS ParMap, TLC

CONSTANTS c1, c2, outer, failing, inner, late, bad

(* One element of outer draws and maps inner, the other draws and does a   *)
(* long array operation.  failing fails in a nested map, in a builtin of   *)
(* the denylist that follows a wait.                                       *)
MCMain == c1 :> outer @@ c2 :> failing

MCBody ==
     outer   :> << <<"draw", inner>>, <<"draw", "wide">> >>
  @@ failing :> << <<bad>> >>
  @@ inner   :> << <<"draw">>, <<"draw">> >>
  @@ bad     :> << <<"wide", "impure">> >>

(* late draws after a nested parmap.                                       *)
MCLateMain == c1 :> late

MCLateBody ==
     late  :> << <<inner, "draw">> >>
  @@ inner :> << <<"draw">>, <<"draw">> >>
=============================================================================
