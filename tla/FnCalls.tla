------------------------------ MODULE FnCalls -------------------------------
(***************************************************************************)
(* What the persistent function cache of rustlab promises: a script cannot *)
(* tell that it is there.  A call of a pure function answers what its      *)
(* present definition, and those of everything it calls, compute.          *)
(*                                                                         *)
(* Functions are symbolic.  A body is its code and the functions it calls, *)
(* in order; a result is the tree of the codes that ran.  An impure code   *)
(* (one that calls a builtin of IMPURE_BUILTINS) draws another number each *)
(* time; a free one uses an unbound variable, and fails when it runs.      *)
(*                                                                         *)
(* The arguments are fixed: results for different arguments never mix,     *)
(* since the fingerprint of the arguments is half of a row's key.          *)
(***************************************************************************)
EXTENDS Naturals, Sequences

CONSTANTS
  Processes,    \* rustlab processes, each with one evaluator
  Names,        \* names of user functions
  Impure,       \* codes that call a denied builtin
  Free,         \* codes that refer to an unbound variable
  Definitions,  \* what a script may define: a name and a body
  Files,        \* versions of a helper file: a sequence of such definitions
  Level,        \* the depth of a name in the call graph
  Failure       \* the answer of a call that fails

Callees(body) == {body.calls[i] : i \in DOMAIN body.calls}

AllDefinitions ==
  Definitions \cup UNION {{file[i] : i \in DOMAIN file} : file \in Files}

(* Recursive functions are left out: with one symbolic argument, a call of *)
(* one would not end.                                                      *)
ASSUME LanguageAssumption ==
  /\ Level \in [Names -> Nat]
  /\ Files \subseteq Seq(AllDefinitions)
  /\ \A d \in AllDefinitions :
       /\ d.name \in Names /\ d.body.calls \in Seq(Names)
       /\ \A g \in Callees(d.body) : Level[g] < Level[d.name]

(* Where an id is computed, what a function is made of and the name of one *)
(* that is not defined are apart: tags 0xA1 and 0xA4 of ast_hash.rs.       *)
ASSUME CodesAssumption ==
  \A d \in AllDefinitions : d.body.code \notin Names

-----------------------------------------------------------------------------
(* defs is a partial function from names to bodies.                        *)

Leaf(code) == [code |-> code, draw |-> 0, calls |-> <<>>]

(* The codes f is made of, callees in place of their names; a callee that  *)
(* is not defined stands for itself.                                       *)
CanonicalId(defs, f) ==
  LET tree[g \in Names] ==
        IF g \in DOMAIN defs
        THEN [code |-> defs[g].code, draw |-> 0,
              calls |-> [i \in DOMAIN defs[g].calls |-> tree[defs[g].calls[i]]]]
        ELSE Leaf(g)
  IN  tree[f]

(* f and everything its calls can lead to.                                 *)
Reach(defs, f) ==
  LET below[g \in Names] ==
        IF g \in DOMAIN defs THEN UNION {{h} \cup below[h] : h \in Callees(defs[g])} ELSE {}
  IN  {f} \cup below[f]

CheckTransitiveImpurity(defs, f) ==
  \A g \in Reach(defs, f) \cap DOMAIN defs : defs[g].code \notin Impure

Computes(defs, f) ==
  IF \A g \in Reach(defs, f) : g \in DOMAIN defs /\ defs[g].code \notin Free
  THEN CanonicalId(defs, f)
  ELSE Leaf(Failure)

-----------------------------------------------------------------------------
VARIABLES
  fns,     \* per process: the functions that are defined
  answer   \* per process: the function called last from the top, its answer

Unanswered == [fn |-> Failure, value |-> Leaf(Failure)]

CallsInit ==
  /\ fns = [p \in Processes |-> <<>>]
  /\ answer = [p \in Processes |-> Unanswered]

Edit(p) == answer' = answer /\ \A q \in Processes \ {p} : fns'[q] = fns[q]

Answer(p, f) ==
  /\ fns' = fns
  /\ \A q \in Processes \ {p} : answer'[q] = answer[q]
  /\ answer'[p].fn = f
  /\ CheckTransitiveImpurity(fns[p], f) => answer'[p].value = Computes(fns[p], f)

CallsNext == \E p \in Processes : Edit(p) \/ \E f \in Names : Answer(p, f)

CallsSpec == CallsInit /\ [][CallsNext]_<<fns, answer>>
=============================================================================
