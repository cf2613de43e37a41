------------------------------ MODULE PageView ------------------------------
(***************************************************************************)
(* What the live server promises a browser tab that keeps up: the tab      *)
(* shows the published pages one after the other, may skip ahead, and what *)
(* is on its way to it ends in the page published last.                    *)
(***************************************************************************)
EXTENDS Naturals, Sequences

CONSTANTS Tabs, Pages

VARIABLES
  page,    \* the published page
  line     \* per tab: the page it shows and those on their way, in order;
           \* empty for a tab that does not follow

vars == <<page, line>>

Init ==
  /\ page \in Pages
  /\ line = [t \in Tabs |-> <<>>]

Publish(p) ==
  /\ page' = p
  /\ line' = [t \in Tabs |-> IF line[t] = <<>> THEN <<>> ELSE Append(line[t], p)]

(* The next page takes the place of the one that is shown.                 *)
Show(t) ==
  /\ Len(line[t]) > 1
  /\ line' = [line EXCEPT ![t] = Tail(@)]
  /\ UNCHANGED page

Leave(t) ==
  /\ line' = [line EXCEPT ![t] = <<>>]
  /\ UNCHANGED page

(* A tab begins to follow, with pages on their way that end in the newest. *)
Join(t, q) ==
  /\ line[t] = <<>>
  /\ q \in Seq(Pages) /\ q # <<>> /\ q[Len(q)] = page
  /\ line' = [line EXCEPT ![t] = q]
  /\ UNCHANGED page

(* A slow tab shows the first n pages of its line, then the newest.        *)
SkipAfter(t, n) ==
  /\ line' = [line EXCEPT ![t] = Append(SubSeq(@, 1, n), page)]
  /\ UNCHANGED page

Next ==
  \/ \E p \in Pages : Publish(p)
  \/ \E t \in Tabs :
       \/ Show(t) \/ Leave(t) \/ Join(t, line'[t])
       \/ \E n \in 1..Len(line[t]) : SkipAfter(t, n)

Spec == Init /\ [][Next]_vars

(* Whatever a following tab shows, the last page on its way to it is the   *)
(* published one (publishing in server/render_loop.rs, subscribing and     *)
(* forwarding in server/ws.rs).                                            *)
EndsCurrent == \A t \in Tabs : line[t] # <<>> => line[t][Len(line[t])] = page
=============================================================================
