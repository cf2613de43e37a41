------------------------------ MODULE FnCache -------------------------------
(***************************************************************************)
(* The persistent function cache: the cache statements and the dispatch of *)
(* user functions of crates/rustlab-script/src/eval/mod.rs, over the scope *)
(* of cache_registry.rs, the checks of purity.rs, the canonical entry ids  *)
(* of ast_hash.rs and the SQLite store of crates/rustlab-cache.            *)
(*                                                                         *)
(* Several processes share one store.  A call computes its key, looks it   *)
(* up, runs its body (whose calls are dispatched in their turn) and stores *)
(* the result; other processes act between any two of these steps.         *)
(*                                                                         *)
(* The registry's explicit and file-loaded sets are left out: every mode   *)
(* of the code keeps all_scope on, so only the removed set decides.        *)
(***************************************************************************)
EXTENDS FnCalls, FiniteSets

CONSTANT MaxStatements   \* bound on the statements of all scripts together

ASSUME BoundAssumption == MaxStatements \in Nat

VARIABLES
  active,      \* per process: a store is open
  removed,     \* per process: removed_fns of the registry
  memo,        \* per process: cached_entry_ids
  stack,       \* per process: the calls in progress, the innermost last
  store,       \* the rows on disk: from entry ids to results
  draws,       \* random numbers drawn so far
  statements,  \* statements executed so far
  optedOut,    \* history: names the script removed and has not added back
  unswept      \* history: names a file brought since the scope was last swept

scopeVars == <<active, removed, optedOut, unswept>>
vars == <<fns, answer, scopeVars, memo, stack, store, draws, statements>>

Empty == <<>>

(* defs with the bodies of new, in order; a later one wins.                *)
Install(defs, new) ==
  LET names == {new[i].name : i \in DOMAIN new}
      body(g) == new[CHOOSE i \in DOMAIN new :
                       /\ new[i].name = g
                       /\ \A j \in DOMAIN new : new[j].name = g => j <= i].body
  IN  [g \in DOMAIN defs \cup names |-> IF g \in names THEN body(g) ELSE defs[g]]

-----------------------------------------------------------------------------
(* The purity contract.                                                    *)

CheckFreeVars(body, siblings) == body.code \notin Free /\ Callees(body) \subseteq siblings

CheckImpurity(body) == body.code \notin Impure

\* Mutant of Gate: the body itself is not looked at, only its names.
GateNames(defs, f) == CheckFreeVars(defs[f], DOMAIN defs)

Gate(defs, f) == CheckFreeVars(defs[f], DOMAIN defs) /\ CheckTransitiveImpurity(defs, f)

\* Mutant of Rescan: a name that was removed once stays removed.
NoRescan(defs, out) == out

Rescan(defs, out) == {f \in out : f \notin DOMAIN defs \/ ~Gate(defs, f)}

IsInScope(p, f) == active[p] /\ f \notin removed[p]

-----------------------------------------------------------------------------
(* Statements.                                                             *)

(* A script runs its statements one after the other.                       *)
Statement(p) ==
  /\ stack[p] = <<>>
  /\ statements < MaxStatements
  /\ statements' = statements + 1

\* Mutant of ForgetIds: a definition leaves the ids of its callers alone.
KeepIds(p) == memo' = memo

ForgetIds(p) == memo' = [memo EXCEPT ![p] = Empty]

(* A function definition: every id is forgotten, the new function is       *)
(* checked, then every name that was removed is checked again.             *)
FunctionDef(p, d) ==
  LET defs == Install(fns[p], <<d>>)
      out  == IF Gate(defs, d.name) THEN removed[p] ELSE removed[p] \cup {d.name}
  IN
  /\ Statement(p)
  /\ fns' = [fns EXCEPT ![p] = defs]
  /\ ForgetIds(p)
  /\ removed' = IF active[p] THEN [removed EXCEPT ![p] = Rescan(defs, out)] ELSE removed
  /\ unswept' = [unswept EXCEPT ![p] = {}]
  /\ UNCHANGED <<answer, active, optedOut, stack, store, draws>>

(* Opening a store starts a fresh scope and checks every function.         *)
CacheEnable(p) ==
  /\ Statement(p)
  /\ active' = [active EXCEPT ![p] = TRUE]
  /\ removed' = [removed EXCEPT ![p] = {f \in DOMAIN fns[p] : ~Gate(fns[p], f)}]
  /\ optedOut' = [optedOut EXCEPT ![p] = {}] /\ unswept' = [unswept EXCEPT ![p] = {}]
  /\ UNCHANGED <<fns, answer, memo, stack, store, draws>>

\* Mutant of ResetScope: closing the store leaves the removals behind.
KeepScope(p) == removed' = removed

ResetScope(p) == removed' = [removed EXCEPT ![p] = {}]

CacheOff(p) ==
  /\ Statement(p)
  /\ active' = [active EXCEPT ![p] = FALSE]
  /\ ResetScope(p)
  /\ optedOut' = [optedOut EXCEPT ![p] = {}] /\ unswept' = [unswept EXCEPT ![p] = {}]
  /\ UNCHANGED <<fns, answer, memo, stack, store, draws>>

(* The definitions of a file are installed one by one, checked against the *)
(* names of the file, up to the first that has an unbound name: that is an *)
(* error.  One that is impure is installed and removed from the scope.     *)
CacheAddFile(p, file) ==
  LET siblings == {file[i].name : i \in DOMAIN file}
      bad == {i \in DOMAIN file : ~CheckFreeVars(file[i].body, siblings)}
      upTo == IF bad = {} THEN Len(file)
              ELSE (CHOOSE i \in bad : \A j \in bad : i <= j) - 1
      taken == SubSeq(file, 1, upTo)
      names == {taken[i].name : i \in DOMAIN taken}
      defs  == Install(fns[p], taken)
      impure == {f \in names : ~CheckImpurity(defs[f])}
  IN
  /\ Statement(p) /\ active[p]
  /\ fns' = [fns EXCEPT ![p] = defs]
  /\ removed' = [removed EXCEPT ![p] = (@ \ names) \cup impure]
  /\ optedOut' = [optedOut EXCEPT ![p] = @ \ names]
  /\ unswept' = [unswept EXCEPT ![p] = @ \cup names]
  /\ UNCHANGED <<answer, active, memo, stack, store, draws>>

(* All names are checked before the first is added; only the body itself   *)
(* is checked for impurity.                                                *)
CacheAddFunctions(p, names) ==
  /\ Statement(p) /\ active[p]
  /\ names \subseteq DOMAIN fns[p]
  /\ \A f \in names : CheckFreeVars(fns[p][f], DOMAIN fns[p]) /\ CheckImpurity(fns[p][f])
  /\ removed' = [removed EXCEPT ![p] = @ \ names]
  /\ optedOut' = [optedOut EXCEPT ![p] = @ \ names]
  /\ UNCHANGED <<fns, answer, active, unswept, memo, stack, store, draws>>

CacheRemoveFunction(p, f) ==
  /\ Statement(p)
  /\ removed' = [removed EXCEPT ![p] = @ \cup {f}]
  /\ optedOut' = [optedOut EXCEPT ![p] = @ \cup {f}]
  /\ UNCHANGED <<fns, answer, active, unswept, memo, stack, store, draws>>

(* The listing computes the id of every function.                          *)
CacheList(p) ==
  /\ Statement(p) /\ active[p] /\ store # Empty
  /\ memo' = [memo EXCEPT ![p] =
                [f \in DOMAIN memo[p] \cup DOMAIN fns[p] |->
                   IF f \in DOMAIN memo[p] THEN memo[p][f] ELSE CanonicalId(fns[p], f)]]
  /\ UNCHANGED <<fns, answer, scopeVars, stack, store, draws>>

(* `cache clear` and `cache prune`, here or from the command line.         *)
CachePrune(ids) ==
  /\ statements < MaxStatements
  /\ statements' = statements + 1
  /\ store' = [id \in DOMAIN store \ ids |-> store[id]]
  /\ UNCHANGED <<fns, answer, scopeVars, memo, stack, draws>>

(* `clear` at the prompt: variables and functions, not the ids.            *)
ClearVars(p) ==
  /\ Statement(p)
  /\ fns' = [fns EXCEPT ![p] = Empty]
  /\ UNCHANGED <<answer, scopeVars, memo, stack, store, draws>>

-----------------------------------------------------------------------------
(* Calls.                                                                  *)

NoKey == Leaf(Failure)

Top(p) == stack[p][Len(stack[p])]

(* f is called next: by a statement, or by the innermost call.             *)
Called(p, f) ==
  /\ f \in DOMAIN fns[p]
  /\ IF stack[p] = <<>> THEN Statement(p)
     ELSE /\ Len(Top(p).results) < Len(Top(p).body.calls)
          /\ f = Top(p).body.calls[Len(Top(p).results) + 1]
          /\ UNCHANGED statements

EntryId(p, f) == IF f \in DOMAIN memo[p] THEN memo[p][f] ELSE CanonicalId(fns[p], f)

RememberId(p, f) ==
  memo' = IF IsInScope(p, f)
          THEN [memo EXCEPT ![p] =
                  [g \in DOMAIN @ \cup {f} |-> IF g = f THEN EntryId(p, f) ELSE @[g]]]
          ELSE memo

(* The result goes to the call below, or is the answer of the statement.   *)
Deliver(p, below, f, result) ==
  IF below = <<>>
  THEN /\ stack' = [stack EXCEPT ![p] = <<>>]
       /\ answer' = [answer EXCEPT ![p] = [fn |-> f, value |-> result]]
  ELSE /\ stack' = [stack EXCEPT ![p] =
                      [below EXCEPT ![Len(below)].results = Append(@, result)]]
       /\ answer' = answer

Hit(p, f) ==
  /\ Called(p, f)
  /\ IsInScope(p, f) /\ EntryId(p, f) \in DOMAIN store
  /\ RememberId(p, f)
  /\ Deliver(p, stack[p], f, store[EntryId(p, f)])
  /\ UNCHANGED <<fns, scopeVars, store, draws>>

(* No row, a row that cannot be read, or (keyed = FALSE) arguments that    *)
(* have no fingerprint.                                                    *)
Miss(p, f, keyed) ==
  /\ Called(p, f)
  /\ keyed => IsInScope(p, f)
  /\ RememberId(p, f)
  /\ stack' = [stack EXCEPT ![p] = Append(@,
       [fn |-> f, body |-> fns[p][f], results |-> <<>>,
        key |-> IF keyed THEN EntryId(p, f) ELSE NoKey])]
  /\ UNCHANGED <<fns, answer, scopeVars, store, draws>>

(* INSERT OR IGNORE; a write that fails is skipped.                        *)
Put(id, result) ==
  \/ store' = [k \in DOMAIN store \cup {id} |->
                 IF k \in DOMAIN store THEN store[k] ELSE result]
  \/ UNCHANGED store

Return(p) ==
  LET impure == ~CheckImpurity(Top(p).body)
      result == [code |-> Top(p).body.code, draw |-> IF impure THEN draws + 1 ELSE 0,
                 calls |-> Top(p).results]
  IN
  /\ stack[p] # <<>>
  /\ Len(Top(p).results) = Len(Top(p).body.calls) /\ Top(p).body.code \notin Free
  /\ draws' = IF impure THEN draws + 1 ELSE draws
  /\ IF Top(p).key = NoKey THEN UNCHANGED store ELSE Put(Top(p).key, result)
  /\ Deliver(p, SubSeq(stack[p], 1, Len(stack[p]) - 1), Top(p).fn, result)
  /\ UNCHANGED <<fns, scopeVars, memo, statements>>

(* An unbound variable or an undefined callee: the error unwinds all calls,*)
(* and none of them is stored.                                             *)
Fail(p) ==
  LET next == Len(Top(p).results) + 1 IN
  /\ stack[p] # <<>>
  /\ \/ Top(p).body.code \in Free
     \/ /\ next <= Len(Top(p).body.calls)
        /\ Top(p).body.calls[next] \notin DOMAIN fns[p]
  /\ stack' = [stack EXCEPT ![p] = <<>>]
  /\ answer' = [answer EXCEPT ![p] = [fn |-> stack[p][1].fn, value |-> Leaf(Failure)]]
  /\ UNCHANGED <<fns, scopeVars, memo, store, draws, statements>>

(* A tripped cancel flag unwinds the calls in the same way.                *)
Interrupt(p) ==
  /\ stack[p] # <<>>
  /\ stack' = [stack EXCEPT ![p] = <<>>]
  /\ UNCHANGED <<fns, answer, scopeVars, memo, store, draws, statements>>

(* The process ends, and another one starts in its place: rows survive.    *)
Exit(p) ==
  /\ statements < MaxStatements
  /\ statements' = statements + 1
  /\ fns' = [fns EXCEPT ![p] = Empty]
  /\ active' = [active EXCEPT ![p] = FALSE]
  /\ ResetScope(p)
  /\ optedOut' = [optedOut EXCEPT ![p] = {}] /\ unswept' = [unswept EXCEPT ![p] = {}]
  /\ memo' = [memo EXCEPT ![p] = Empty]
  /\ stack' = [stack EXCEPT ![p] = <<>>]
  /\ UNCHANGED <<answer, store, draws>>

-----------------------------------------------------------------------------
Init ==
  /\ CallsInit
  /\ active = [p \in Processes |-> FALSE]
  /\ removed = [p \in Processes |-> {}]
  /\ optedOut = [p \in Processes |-> {}] /\ unswept = [p \in Processes |-> {}]
  /\ memo = [p \in Processes |-> Empty]
  /\ stack = [p \in Processes |-> <<>>]
  /\ store = Empty /\ draws = 0 /\ statements = 0

CacheStatement(p) ==
  \/ CacheEnable(p) \/ CacheOff(p) \/ CacheList(p)
  \/ \E file \in Files : CacheAddFile(p, file)
  \/ \E names \in SUBSET DOMAIN fns[p] : names # {} /\ CacheAddFunctions(p, names)
  \/ \E f \in Names : CacheRemoveFunction(p, f)

Call(p) ==
  \/ \E f \in DOMAIN fns[p] : Hit(p, f) \/ \E keyed \in BOOLEAN : Miss(p, f, keyed)
  \/ Return(p) \/ Fail(p) \/ Interrupt(p)

Next ==
  \/ \E p \in Processes :
       \/ \E d \in Definitions : FunctionDef(p, d)
       \/ CacheStatement(p) \/ Call(p) \/ ClearVars(p) \/ Exit(p)
  \/ \E ids \in SUBSET DOMAIN store : CachePrune(ids)

Spec == Init /\ [][Next]_vars

-----------------------------------------------------------------------------
(* The shape of the state.  While no store is open, nothing is out of      *)
(* scope but what the script removed itself; a call in progress was made   *)
(* by the call below it, and has as many results as callees that returned. *)
TypeOK ==
  /\ \A p \in Processes :
       /\ DOMAIN fns[p] \subseteq Names
       /\ active[p] \in BOOLEAN
       /\ removed[p] \subseteq Names /\ optedOut[p] \subseteq Names
       /\ unswept[p] \subseteq Names
       /\ ~active[p] => removed[p] = optedOut[p]
       /\ DOMAIN memo[p] \subseteq Names
       /\ answer[p].fn \in Names \cup {Failure}
       /\ \A i \in DOMAIN stack[p] :
            LET c == stack[p][i] IN
            /\ c.fn \in Names /\ Len(c.results) <= Len(c.body.calls)
            /\ i < Len(stack[p]) => stack[p][i + 1].fn = c.body.calls[Len(c.results) + 1]
  /\ draws \in Nat /\ statements \in 0..MaxStatements

(* No function whose own body draws random numbers or uses an unbound      *)
(* variable is ever in scope, whatever the order of definitions, openings, *)
(* file loads (one that stops half-way included), opt-ins and clears.      *)
ScopeIsPure ==
  \A p \in Processes : \A f \in DOMAIN fns[p] :
    IsInScope(p, f) => fns[p][f].code \notin Impure \cup Free

(* A function that passes the checks is in scope unless the script removed *)
(* it: one defined before its helpers is taken back when they arrive (the  *)
(* comment at eval/mod.rs:1295).  One whose helpers a file brought waits   *)
(* for the next definition: `cache add file` does not look at the others.  *)
NotForgotten ==
  \A p \in Processes : \A f \in removed[p] \cap DOMAIN fns[p] :
    active[p] /\ unswept[p] = {} => f \in optedOut[p] \/ ~Gate(fns[p], f)

(* A script cannot tell that the cache is there: what a call of a pure     *)
(* function answers at the top is what the present definitions compute, in *)
(* every process, whatever other processes store, prune or redefine.       *)
ImplementsCalls == CallsSpec
=============================================================================
