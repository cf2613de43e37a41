------------------------------ MODULE ForLoop ------------------------------
(***************************************************************************)
(* What parmap(f, xs) promises a caller with seed s (eval/parmap.rs,       *)
(* docs/quickref.md): the answer of a sequential loop over xs that seeds   *)
(* the generator for each element, or the first error in input order.      *)
(* Nothing in it depends on a thread.                                      *)
(***************************************************************************)
EXTENDS Naturals, Sequences, FiniteSets

CONSTANTS
  Callers,    \* threads that call parmap from outside the pool
  MaxCalls,   \* bound: calls of one caller
  Lambdas,    \* the lambdas of the script
  Main,       \* Main[c]: the lambda that c maps
  Body        \* Body[f][i]: what f does for the i-th element

(* A draw; an array operation long enough to use the pool; a builtin of    *)
(* the denylist.  An operation of a body is one of these or a lambda, for  *)
(* a nested parmap of that lambda.                                         *)
Ops == {"draw", "wide", "impure"}

Script ==
  /\ IsFiniteSet(Lambdas) /\ Lambdas \cap Ops = {}
  /\ Main \in [Callers -> Lambdas]
  /\ Body \in [Lambdas -> Seq(Seq(Ops \cup Lambdas))]

(* No lambda reaches itself.                                               *)
Nesting ==
  \E depth \in [Lambdas -> 1..Cardinality(Lambdas)] :
    \A f, g \in Lambdas : \A i \in DOMAIN Body[f] : \A n \in DOMAIN Body[f][i] :
      Body[f][i][n] = g => depth[f] < depth[g]

(* A seed is the caller's seed(N) and the path of elements below it: no    *)
(* two paths give one seed.                                                *)
Seeds == Seq(Callers \cup Nat)
Derive(s, i) == Append(s, i)
SeedOf(c) == <<c>>

(* The n-th number of the generator started from a seed, and a log: which  *)
(* number each place of a script drew.                                     *)
Numbers == [seed : Seeds, count : Nat]
Logs == SUBSET [place : Seq(Nat), number : Numbers]

Below(n, log) == {[d EXCEPT !.place = <<n>> \o @] : d \in log}

(* The first error in input order, and what the trials drew: a value is    *)
(* known by the numbers it was made from.                                  *)
Errors(trials) == {i \in DOMAIN trials : trials[i].state = "error"}

Answer(trials) ==
  [failed |-> {i \in Errors(trials) : \A j \in Errors(trials) : i <= j},
   log    |-> IF Errors(trials) # {} THEN {}
              ELSE UNION {Below(i, trials[i].log) : i \in DOMAIN trials}]

(* One element after the other, if t[g][k][s] is what element k of a map   *)
(* of g comes to under its own seed s.                                     *)
InTurn(t, g, s) == Answer([k \in DOMAIN Body[g] |-> t[g][k][Derive(s, k)]])

Fails(t, body, s, n) ==
  \/ body[n] = "impure"
  \/ body[n] \in Lambdas /\ InTurn(t, body[n], s).failed # {}

DrawsBefore(body, n) == Cardinality({m \in 1..(n - 1) : body[m] = "draw"})

Drawn(t, body, s, n) ==
  CASE body[n] = "draw" ->
         {[place |-> <<n>>, number |-> [seed |-> s, count |-> DrawsBefore(body, n)]]}
    [] body[n] \in Lambdas -> Below(n, InTurn(t, body[n], s).log)
    [] OTHER -> {}

Ran(t, body, s) ==
  IF \E n \in DOMAIN body : Fails(t, body, s, n)
  THEN [state |-> "error", log |-> {}]
  ELSE [state |-> "ok", log |-> UNION {Drawn(t, body, s, n) : n \in DOMAIN body}]

(* What the elements of a map of f come to in one thread.                  *)
Trial[f \in Lambdas] ==
  [i \in DOMAIN Body[f] |-> [s \in Seeds |-> Ran(Trial, Body[f][i], s)]]

Loop(c) == InTurn(Trial, Main[c], SeedOf(c))

VARIABLE answers   \* per caller: the answers of its calls so far

Init == answers = [c \in Callers |-> <<>>]

Return(c) ==
  /\ Len(answers[c]) < MaxCalls
  /\ answers' = [answers EXCEPT ![c] = Append(@, Loop(c))]

Next == \E c \in Callers : Return(c)

Spec == Init /\ [][Next]_answers
=============================================================================
