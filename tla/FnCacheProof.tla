---------------------------- MODULE FnCacheProof ----------------------------
(***************************************************************************)
(* Only pure functions are in scope, none that passes the checks is        *)
(* forgotten, and calls in progress are chained, for any functions and     *)
(* files, and any number of processes and statements.  The first two are   *)
(* inductive once it is known that the variables they read are functions   *)
(* of processes; what takes work is which body of a file ends up under a   *)
(* name.  The third needs that callees are named, and returned from, in    *)
(* the order of the body that calls them.                                  *)
(*                                                                         *)
(* And the cache is invisible to a script, unless a file is loaded over    *)
(* ids that are remembered: one id stands for functions that do the same.  *)
(***************************************************************************)
EXTENDS FnCache, FiniteSetTheorems, WellFoundedInduction, TLAPS

PerProcess(v) == v = [p \in Processes |-> v[p]]

Shape == PerProcess(fns) /\ PerProcess(removed) /\ PerProcess(active)

IInv == Shape /\ ScopeIsPure

PureBody(body) == body.code \notin Impure \cup Free

-----------------------------------------------------------------------------
(* A finite set of numbers that is not empty has a last element: the one   *)
(* with the fewest elements above it.                                      *)
LEMMA LastExists ==
  ASSUME NEW S \in SUBSET Nat, IsFiniteSet(S), S # {}
  PROVE  \E i \in S : \A j \in S : j <= i
<1> DEFINE Above(i) == {j \in S : i < j}
           Aboves == {Above(i) : i \in S}
<1>1. Aboves \subseteq FiniteSubsetsOf(S) /\ Aboves # {}
  <2>1. ASSUME NEW i \in S PROVE Above(i) \in FiniteSubsetsOf(S)
    BY FS_Subset DEF FiniteSubsetsOf
  <2> QED BY <2>1
<1>2. PICK A \in Aboves : \A B \in Aboves : <<B, A>> \notin StrictSubsetOrdering(S)
  <2> HIDE DEF Aboves
  <2> QED BY <1>1, FS_StrictSubsetOrderingWellFounded, WFMin
<1>3. PICK i \in S : A = Above(i)
  OBVIOUS
<1>4. ASSUME NEW j \in S, i < j PROVE FALSE
  <2>1. j \in Above(i) /\ j \notin Above(j)
    BY <1>4
  <2>2. ASSUME NEW k \in Above(j) PROVE k \in Above(i)
    <3>1. i \in Nat /\ j \in Nat /\ k \in Nat /\ k \in S /\ j < k
      OBVIOUS
    <3> QED BY <1>4, <3>1
  <2>3. Above(j) \in Aboves /\ Above(i) \in SUBSET S /\ Above(j) \in SUBSET S
    OBVIOUS
  <2>4. <<Above(j), Above(i)>> \in StrictSubsetOrdering(S)
    <3> HIDE DEF Above
    <3> QED BY <2>1, <2>2, <2>3 DEF StrictSubsetOrdering
  <2> QED BY <1>2, <1>3, <2>3, <2>4
<1>5. ASSUME NEW j \in S PROVE j <= i
  <2>1. i \in Nat /\ j \in Nat
    OBVIOUS
  <2> QED BY <1>4, <2>1
<1> QED BY <1>5

(* The same, read downwards: a set of positions has a first element.       *)
LEMMA FirstExists ==
  ASSUME NEW n \in Nat, NEW S \in SUBSET (1..n), S # {}
  PROVE  \E i \in S : \A j \in S : i <= j
<1> DEFINE T == {n - i : i \in S}
<1>1. T \in SUBSET Nat /\ T # {} /\ \A t \in T : t <= n
  <2>1. ASSUME NEW i \in S PROVE n - i \in Nat /\ n - i <= n
    <3>1. i \in Nat /\ 1 <= i /\ i <= n
      OBVIOUS
    <3> QED BY <3>1
  <2> QED BY <2>1
<1>2. IsFiniteSet(T)
  <2> HIDE DEF T
  <2> QED BY <1>1, FS_BoundedSetOfNaturals
<1>3. PICK t \in T : \A u \in T : u <= t
  <2> HIDE DEF T
  <2> QED BY <1>1, <1>2, LastExists
<1>4. PICK i \in S : t = n - i
  OBVIOUS
<1>5. ASSUME NEW j \in S PROVE i <= j
  <2>1. i \in Nat /\ j \in Nat /\ n - j \in T
    OBVIOUS
  <2>2. n - j <= n - i
    BY <1>3, <1>4, <2>1
  <2> QED BY <2>1, <2>2
<1> QED BY <1>5

(* After an installation a name has its old body, or the body of a new     *)
(* definition of that name.                                                *)
LEMMA Installed ==
  ASSUME NEW defs, NEW S, NEW new \in Seq(S), NEW f \in DOMAIN Install(defs, new)
  PROVE  \/ /\ f \in DOMAIN defs /\ \A i \in DOMAIN new : new[i].name # f
            /\ Install(defs, new)[f] = defs[f]
         \/ \E i \in DOMAIN new : new[i].name = f /\ Install(defs, new)[f] = new[i].body
<1> DEFINE At == {i \in DOMAIN new : new[i].name = f}
<1>1. CASE At = {}
  BY <1>1 DEF Install
<1>2. CASE At # {}
  <2>1. At \in SUBSET Nat /\ IsFiniteSet(At)
    <3>1. DOMAIN new = 1..Len(new) /\ Len(new) \in Nat
      OBVIOUS
    <3>2. IsFiniteSet(DOMAIN new)
      BY <3>1, FS_Interval
    <3> QED BY <3>1, <3>2, FS_Subset
  <2>2. \E i \in At : \A j \in At : j <= i
    BY <1>2, <2>1, LastExists
  <2>3. PICK i \in DOMAIN new : /\ new[i].name = f
                                /\ Install(defs, new)[f] = new[i].body
    BY <1>2, <2>2 DEF Install
  <2> QED BY <2>3
<1> QED BY <1>1, <1>2

(* A function that passes the gate is pure.                                *)
LEMMA GateIsSound ==
  ASSUME NEW defs, NEW f \in DOMAIN defs, Gate(defs, f)
  PROVE  PureBody(defs[f])
BY DEF Gate, CheckFreeVars, CheckTransitiveImpurity, Reach, PureBody

-----------------------------------------------------------------------------
(* One lemma per kind of step.  What a step leaves alone, it leaves pure:  *)
(* a process whose three variables do not change needs no argument.        *)
LEMMA OthersPure ==
  ASSUME NEW q \in Processes, ScopeIsPure, fns'[q] = fns[q],
         active'[q] => active[q], active'[q] => removed[q] \subseteq removed'[q]
  PROVE  \A f \in DOMAIN fns'[q] : IsInScope(q, f)' => PureBody(fns'[q][f])
BY DEF ScopeIsPure, IsInScope, PureBody

LEMMA FunctionDefPure ==
  ASSUME NEW p \in Processes, NEW d \in AllDefinitions, IInv, FunctionDef(p, d)
  PROVE  IInv'
<1> DEFINE defs == Install(fns[p], <<d>>)
           out  == IF Gate(defs, d.name) THEN removed[p] ELSE removed[p] \cup {d.name}
<1>1. /\ fns' = [fns EXCEPT ![p] = defs]
      /\ active' = active
      /\ removed' = IF active[p] THEN [removed EXCEPT ![p] = Rescan(defs, out)] ELSE removed
  BY DEF FunctionDef
<1>2. Shape'
  <2> HIDE DEF defs, out
  <2> QED BY <1>1 DEF IInv, Shape, PerProcess
<1>3. ASSUME NEW f \in DOMAIN defs, active[p], f \notin Rescan(defs, out)
      PROVE  PureBody(defs[f])
  <2>1. CASE Gate(defs, f)
    BY <2>1, GateIsSound
  <2>2. CASE ~Gate(defs, f)
    <3>1. f \notin out
      BY <1>3, <2>2 DEF Rescan
    <3>2. f # d.name /\ f \notin removed[p]
      BY <2>2, <3>1
    <3>3. f \in DOMAIN fns[p] /\ defs[f] = fns[p][f]
      <4>1. <<d>> \in Seq({d}) /\ DOMAIN <<d>> = {1} /\ <<d>>[1] = d
        OBVIOUS
      <4> DEFINE new == <<d>>
      <4>2. new \in Seq({d}) /\ DOMAIN new = {1} /\ new[1] = d /\ f \in DOMAIN Install(fns[p], new)
        BY <1>3, <4>1
      <4>3. \A i \in DOMAIN new : new[i].name # f
        BY <3>2, <4>2
      <4> HIDE DEF new
      <4>4. f \in DOMAIN fns[p] /\ Install(fns[p], new)[f] = fns[p][f]
        BY <4>2, <4>3, Installed
      <4> QED BY <4>4 DEF new
    <3> QED BY <1>3, <3>2, <3>3 DEF IInv, ScopeIsPure, IsInScope, PureBody
  <2> QED BY <2>1, <2>2
<1>4. ASSUME NEW q \in Processes, NEW f \in DOMAIN fns'[q], IsInScope(q, f)'
      PROVE  PureBody(fns'[q][f])
  <2> HIDE DEF defs, out
  <2>1. CASE q = p
    <3>1. fns'[q] = defs /\ active[p]
      BY <1>1, <1>4, <2>1 DEF IInv, Shape, PerProcess, IsInScope
    <3>2. f \notin Rescan(defs, out)
      BY <1>1, <1>4, <2>1, <3>1 DEF IInv, Shape, PerProcess, IsInScope
    <3> QED BY <1>3, <3>1, <3>2
  <2>2. CASE q # p
    <3>1. fns'[q] = fns[q] /\ active'[q] = active[q] /\ removed'[q] = removed[q]
      BY <1>1, <2>2 DEF IInv, Shape, PerProcess
    <3> QED BY <1>4, <3>1, OthersPure DEF IInv
  <2> QED BY <2>1, <2>2
<1> QED BY <1>2, <1>4 DEF IInv, ScopeIsPure, PureBody

LEMMA CacheEnablePure ==
  ASSUME NEW p \in Processes, IInv, CacheEnable(p)
  PROVE  IInv'
<1>1. /\ fns' = fns
      /\ active' = [active EXCEPT ![p] = TRUE]
      /\ removed' = [removed EXCEPT ![p] = {f \in DOMAIN fns[p] : ~Gate(fns[p], f)}]
  BY DEF CacheEnable
<1>2. Shape'
  BY <1>1 DEF IInv, Shape, PerProcess
<1>3. ASSUME NEW q \in Processes, NEW f \in DOMAIN fns'[q], IsInScope(q, f)'
      PROVE  PureBody(fns'[q][f])
  <2>1. CASE q = p
    <3>1. removed'[p] = {g \in DOMAIN fns[p] : ~Gate(fns[p], g)}
      BY <1>1 DEF IInv, Shape, PerProcess
    <3>2. Gate(fns[p], f)
      BY <1>1, <1>3, <2>1, <3>1 DEF IsInScope
    <3> QED BY <1>1, <1>3, <2>1, <3>2, GateIsSound
  <2>2. CASE q # p
    <3>1. fns'[q] = fns[q] /\ active'[q] = active[q] /\ removed'[q] = removed[q]
      BY <1>1, <2>2 DEF IInv, Shape, PerProcess
    <3> QED BY <1>3, <3>1, OthersPure DEF IInv
  <2> QED BY <2>1, <2>2
<1> QED BY <1>2, <1>3 DEF IInv, ScopeIsPure, PureBody

(* Closing the store, and the end of the process, leave nothing in scope.  *)
LEMMA ClosedPure ==
  ASSUME NEW p \in Processes, IInv, active' = [active EXCEPT ![p] = FALSE],
         ResetScope(p), NEW table, fns' = [fns EXCEPT ![p] = table]
  PROVE  IInv'
<1>1. Shape'
  BY DEF IInv, Shape, PerProcess, ResetScope
<1>2. ASSUME NEW q \in Processes, NEW f \in DOMAIN fns'[q], IsInScope(q, f)'
      PROVE  PureBody(fns'[q][f])
  <2>1. q # p
    BY <1>2 DEF IInv, Shape, PerProcess, IsInScope
  <2>2. fns'[q] = fns[q] /\ active'[q] = active[q] /\ removed'[q] = removed[q]
    BY <2>1 DEF IInv, Shape, PerProcess, ResetScope
  <2> QED BY <1>2, <2>2, OthersPure DEF IInv
<1> QED BY <1>1, <1>2 DEF IInv, ScopeIsPure, PureBody

(* The definitions of a file that are installed passed the check of their  *)
(* names; those that are impure are removed.                               *)
LEMMA CacheAddFilePure ==
  ASSUME NEW p \in Processes, NEW file \in Files, IInv, CacheAddFile(p, file)
  PROVE  IInv'
<1> DEFINE siblings == {file[i].name : i \in DOMAIN file}
           bad == {i \in DOMAIN file : ~CheckFreeVars(file[i].body, siblings)}
           upTo == IF bad = {} THEN Len(file)
                   ELSE (CHOOSE i \in bad : \A j \in bad : i <= j) - 1
           taken == SubSeq(file, 1, upTo)
           names == {taken[i].name : i \in DOMAIN taken}
           defs == Install(fns[p], taken)
           impure == {f \in names : ~CheckImpurity(defs[f])}
<1>1. /\ fns' = [fns EXCEPT ![p] = defs]
      /\ active' = active
      /\ removed' = [removed EXCEPT ![p] = (removed[p] \ names) \cup impure]
  BY DEF CacheAddFile
<1>2. file \in Seq(AllDefinitions) /\ DOMAIN file = 1..Len(file) /\ Len(file) \in Nat
  BY LanguageAssumption DEF LanguageAssumption
<1>3. upTo \in 0..Len(file) /\ \A i \in 1..upTo : i \notin bad
  <2>1. CASE bad = {}
    <3> HIDE DEF bad
    <3> QED BY <1>2, <2>1
  <2>2. CASE bad # {}
    <3>1. bad \in SUBSET (1..Len(file))
      BY <1>2
    <3>2. \E i \in bad : \A j \in bad : i <= j
      <4> HIDE DEF bad
      <4> QED BY <1>2, <2>2, <3>1, FirstExists
    <3>3. PICK b \in bad : upTo = b - 1 /\ \A j \in bad : b <= j
      <4> HIDE DEF bad
      <4> QED BY <2>2, <3>2
    <3>4. b \in 1..Len(file)
      BY <3>1
    <3> HIDE DEF bad, upTo
    <3>5. upTo \in 0..Len(file)
      BY <1>2, <3>3, <3>4
    <3>6. ASSUME NEW i \in 1..upTo, i \in bad PROVE FALSE
      <4>1. b <= i /\ upTo = b - 1
        BY <3>3, <3>6
      <4>2. i \in Int /\ i <= upTo /\ b \in Int
        BY <3>4, <3>5, <3>6
      <4> QED BY <4>1, <4>2
    <3> QED BY <3>5, <3>6
  <2> QED BY <2>1, <2>2
<1>4. /\ taken \in Seq(AllDefinitions)
      /\ \A i \in DOMAIN taken : i \in 1..upTo /\ taken[i] = file[i]
  <2> HIDE DEF upTo
  <2> QED BY <1>2, <1>3
<1>5. \A i \in DOMAIN taken : taken[i].body.code \notin Free
  <2> SUFFICES ASSUME NEW i \in DOMAIN taken PROVE taken[i].body.code \notin Free
    OBVIOUS
  <2>1. i \in DOMAIN file /\ taken[i] = file[i] /\ i \notin bad
    <3> HIDE DEF taken, bad, upTo
    <3> QED BY <1>2, <1>3, <1>4
  <2> QED BY <2>1 DEF CheckFreeVars
<1> HIDE DEF taken, upTo, bad, siblings
<1>6. Shape'
  <2> HIDE DEF defs, names, impure
  <2> QED BY <1>1 DEF IInv, Shape, PerProcess
<1>7. ASSUME NEW f \in DOMAIN defs, active[p], f \notin (removed[p] \ names) \cup impure
      PROVE  PureBody(defs[f])
  <2>1. CASE f \in names
    <3>1. defs[f].code \notin Impure
      BY <1>7, <2>1 DEF CheckImpurity
    <3>2. PICK i \in DOMAIN taken : defs[f] = taken[i].body
      BY <1>4, <1>7, <2>1, Installed
    <3> QED BY <1>5, <3>1, <3>2 DEF PureBody
  <2>2. CASE f \notin names
    <3>1. f \in DOMAIN fns[p] /\ defs[f] = fns[p][f]
      BY <1>4, <1>7, <2>2, Installed
    <3> QED BY <1>7, <2>2, <3>1 DEF IInv, ScopeIsPure, IsInScope, PureBody
  <2> QED BY <2>1, <2>2
<1>8. ASSUME NEW q \in Processes, NEW f \in DOMAIN fns'[q], IsInScope(q, f)'
      PROVE  PureBody(fns'[q][f])
  <2> HIDE DEF defs, names, impure
  <2>1. CASE q = p
    <3>1. /\ fns'[p] = defs /\ active'[p] = active[p]
          /\ removed'[p] = (removed[p] \ names) \cup impure
      BY <1>1 DEF IInv, Shape, PerProcess
    <3> QED BY <1>7, <1>8, <2>1, <3>1 DEF IsInScope
  <2>2. CASE q # p
    <3>1. fns'[q] = fns[q] /\ active'[q] = active[q] /\ removed'[q] = removed[q]
      BY <1>1, <2>2 DEF IInv, Shape, PerProcess
    <3> QED BY <1>8, <3>1, OthersPure DEF IInv
  <2> QED BY <2>1, <2>2
<1> QED BY <1>6, <1>8 DEF IInv, ScopeIsPure, PureBody

LEMMA CacheAddFunctionsPure ==
  ASSUME NEW p \in Processes, NEW names, IInv, CacheAddFunctions(p, names)
  PROVE  IInv'
<1>1. /\ fns' = fns /\ active' = active
      /\ removed' = [removed EXCEPT ![p] = removed[p] \ names]
      /\ \A f \in names : fns[p][f].code \notin Impure \cup Free
  BY DEF CacheAddFunctions, CheckFreeVars, CheckImpurity
<1>2. Shape'
  BY <1>1 DEF IInv, Shape, PerProcess
<1>3. ASSUME NEW q \in Processes, NEW f \in DOMAIN fns[q], IsInScope(q, f)'
      PROVE  fns[q][f].code \notin Impure \cup Free
  <2>1. removed'[q] = removed[q] \/ (q = p /\ removed'[q] = removed[q] \ names)
    BY <1>1 DEF IInv, Shape, PerProcess
  <2> QED BY <1>1, <1>3, <2>1 DEF IInv, ScopeIsPure, IsInScope
<1> QED BY <1>1, <1>2, <1>3 DEF IInv, ScopeIsPure

LEMMA CacheRemoveFunctionPure ==
  ASSUME NEW p \in Processes, NEW f, IInv, CacheRemoveFunction(p, f)
  PROVE  IInv'
<1>1. /\ fns' = fns /\ active' = active
      /\ removed' = [removed EXCEPT ![p] = removed[p] \cup {f}]
  BY DEF CacheRemoveFunction
<1>2. Shape'
  BY <1>1 DEF IInv, Shape, PerProcess
<1>3. \A q \in Processes : removed[q] \subseteq removed'[q]
  BY <1>1 DEF IInv, Shape, PerProcess
<1> QED BY <1>1, <1>2, <1>3 DEF IInv, ScopeIsPure, IsInScope

LEMMA ClearVarsPure ==
  ASSUME NEW p \in Processes, IInv, ClearVars(p)
  PROVE  IInv'
<1>1. fns' = [fns EXCEPT ![p] = Empty] /\ UNCHANGED <<active, removed>>
  BY DEF ClearVars, scopeVars
<1>2. Shape'
  BY <1>1 DEF IInv, Shape, PerProcess
<1>3. DOMAIN Empty = {}
  BY DEF Empty
<1>4. \A q \in Processes : fns'[q] = Empty \/ fns'[q] = fns[q]
  BY <1>1 DEF IInv, Shape, PerProcess
<1> HIDE DEF Empty
<1> QED BY <1>1, <1>2, <1>3, <1>4 DEF IInv, ScopeIsPure, IsInScope

(* Calls and the store do not touch definitions or scope.                  *)
LEMMA UntouchedPure ==
  ASSUME IInv, UNCHANGED <<fns, active, removed>>
  PROVE  IInv'
BY DEF IInv, Shape, PerProcess, ScopeIsPure, IsInScope

-----------------------------------------------------------------------------
(* A function whose own body draws random numbers or uses an unbound       *)
(* variable is never in scope, in no process and after no sequence of      *)
(* statements.                                                             *)
THEOREM OnlyPureInScope == Spec => []ScopeIsPure
<1>1. Init => IInv
  BY DEF Init, CallsInit, IInv, Shape, PerProcess, ScopeIsPure, IsInScope
<1>2. IInv /\ [Next]_vars => IInv'
  <2> SUFFICES ASSUME IInv, [Next]_vars PROVE IInv'
    OBVIOUS
  <2>1. ASSUME NEW p \in Processes, NEW d \in Definitions, FunctionDef(p, d) PROVE IInv'
    <3>1. d \in AllDefinitions
      BY DEF AllDefinitions
    <3> QED BY <2>1, <3>1, FunctionDefPure
  <2>2. ASSUME NEW p \in Processes, CacheStatement(p) PROVE IInv'
    <3>1. CASE CacheEnable(p)
      BY <3>1, CacheEnablePure
    <3>2. CASE CacheOff(p)
      <4>1. fns' = [fns EXCEPT ![p] = fns[p]]
        BY <3>2 DEF CacheOff, IInv, Shape, PerProcess
      <4> QED BY <3>2, <4>1, ClosedPure DEF CacheOff
    <3>3. CASE CacheList(p)
      BY <3>3, UntouchedPure DEF CacheList, scopeVars
    <3>4. ASSUME NEW file \in Files, CacheAddFile(p, file) PROVE IInv'
      BY <3>4, CacheAddFilePure
    <3>5. ASSUME NEW names \in SUBSET DOMAIN fns[p], CacheAddFunctions(p, names) PROVE IInv'
      BY <3>5, CacheAddFunctionsPure
    <3>6. ASSUME NEW f \in Names, CacheRemoveFunction(p, f) PROVE IInv'
      BY <3>6, CacheRemoveFunctionPure
    <3> QED BY <2>2, <3>1, <3>2, <3>3, <3>4, <3>5, <3>6 DEF CacheStatement
  <2>3. ASSUME NEW p \in Processes, Call(p) PROVE IInv'
    <3>1. UNCHANGED <<fns, active, removed>>
      BY <2>3 DEF Call, Hit, Miss, Return, Fail, Interrupt, scopeVars
    <3> QED BY <3>1, UntouchedPure
  <2>4. ASSUME NEW p \in Processes, ClearVars(p) PROVE IInv'
    BY <2>4, ClearVarsPure
  <2>5. ASSUME NEW p \in Processes, Exit(p) PROVE IInv'
    BY <2>5, ClosedPure DEF Exit
  <2>6. ASSUME NEW ids \in SUBSET DOMAIN store, CachePrune(ids) PROVE IInv'
    BY <2>6, UntouchedPure DEF CachePrune, scopeVars
  <2>7. CASE UNCHANGED vars
    BY <2>7, UntouchedPure DEF vars, scopeVars
  <2> QED BY <2>1, <2>2, <2>3, <2>4, <2>5, <2>6, <2>7 DEF Next
<1>3. IInv => ScopeIsPure
  BY DEF IInv
<1> QED BY <1>1, <1>2, <1>3, PTL DEF Spec

-----------------------------------------------------------------------------
(* Coming back into scope.  The argument goes process by process.          *)
Returns(q) ==
  \A f \in removed[q] \cap DOMAIN fns[q] :
    active[q] /\ unswept[q] = {} => f \in optedOut[q] \/ ~Gate(fns[q], f)

Table(q) == fns[q] = [f \in DOMAIN fns[q] |-> fns[q][f]]

KeptShape == Shape /\ PerProcess(optedOut) /\ PerProcess(unswept)

KInv == KeptShape /\ \A q \in Processes : Table(q) /\ Returns(q)

(* A step of p that keeps the shape, and whatever p does to its own scope. *)
LEMMA OnlyOwnScope ==
  ASSUME NEW p \in Processes, KInv, KeptShape', Table(p)', Returns(p)',
         \A q \in Processes \ {p} :
           /\ fns'[q] = fns[q] /\ active'[q] = active[q] /\ removed'[q] = removed[q]
           /\ optedOut'[q] = optedOut[q] /\ unswept'[q] = unswept[q]
  PROVE  KInv'
BY DEF KInv, Table, Returns

LEMMA FunctionDefReturns ==
  ASSUME NEW p \in Processes, NEW d, KInv, FunctionDef(p, d)
  PROVE  KInv'
<1> DEFINE defs == Install(fns[p], <<d>>)
           out  == IF Gate(defs, d.name) THEN removed[p] ELSE removed[p] \cup {d.name}
<1>1. /\ fns' = [fns EXCEPT ![p] = defs]
      /\ active' = active /\ optedOut' = optedOut
      /\ removed' = IF active[p] THEN [removed EXCEPT ![p] = Rescan(defs, out)] ELSE removed
      /\ unswept' = [unswept EXCEPT ![p] = {}]
  BY DEF FunctionDef
<1>2. defs = [f \in DOMAIN defs |-> defs[f]]
  BY DEF Install
<1> HIDE DEF defs, out
<1>3. KeptShape'
  BY <1>1 DEF KInv, KeptShape, Shape, PerProcess
<1>4. fns'[p] = defs /\ active'[p] = active[p]
      /\ (active[p] => removed'[p] = Rescan(defs, out))
  BY <1>1 DEF KInv, KeptShape, Shape, PerProcess
<1>5. Table(p)'
  BY <1>2, <1>4 DEF Table
<1>6. Returns(p)'
  BY <1>4 DEF Returns, Rescan
<1>7. \A q \in Processes \ {p} :
        /\ fns'[q] = fns[q] /\ active'[q] = active[q] /\ removed'[q] = removed[q]
        /\ optedOut'[q] = optedOut[q] /\ unswept'[q] = unswept[q]
  BY <1>1 DEF KInv, KeptShape, Shape, PerProcess
<1> QED BY <1>3, <1>5, <1>6, <1>7, OnlyOwnScope

LEMMA CacheEnableReturns ==
  ASSUME NEW p \in Processes, KInv, CacheEnable(p)
  PROVE  KInv'
<1>1. /\ fns' = fns
      /\ active' = [active EXCEPT ![p] = TRUE]
      /\ removed' = [removed EXCEPT ![p] = {f \in DOMAIN fns[p] : ~Gate(fns[p], f)}]
      /\ optedOut' = [optedOut EXCEPT ![p] = {}]
      /\ unswept' = [unswept EXCEPT ![p] = {}]
  BY DEF CacheEnable
<1>2. KeptShape'
  BY <1>1 DEF KInv, KeptShape, Shape, PerProcess
<1>3. fns'[p] = fns[p] /\ removed'[p] = {f \in DOMAIN fns[p] : ~Gate(fns[p], f)}
  BY <1>1 DEF KInv, KeptShape, Shape, PerProcess
<1>4. Table(p)' /\ Returns(p)'
  BY <1>3 DEF KInv, Table, Returns
<1>5. \A q \in Processes \ {p} :
        /\ fns'[q] = fns[q] /\ active'[q] = active[q] /\ removed'[q] = removed[q]
        /\ optedOut'[q] = optedOut[q] /\ unswept'[q] = unswept[q]
  BY <1>1 DEF KInv, KeptShape, Shape, PerProcess
<1> QED BY <1>2, <1>4, <1>5, OnlyOwnScope

(* With no store open, or no function defined, nothing can be forgotten.   *)
LEMMA ClosedReturns ==
  ASSUME NEW p \in Processes, KInv, KeptShape', NEW table,
         fns' = [fns EXCEPT ![p] = table], table = [f \in DOMAIN table |-> table[f]],
         DOMAIN table = {} \/ active'[p] = FALSE,
         \A q \in Processes \ {p} :
           /\ active'[q] = active[q] /\ removed'[q] = removed[q]
           /\ optedOut'[q] = optedOut[q] /\ unswept'[q] = unswept[q]
  PROVE  KInv'
<1>1. fns'[p] = table /\ \A q \in Processes \ {p} : fns'[q] = fns[q]
  BY DEF KInv, KeptShape, Shape, PerProcess
<1>2. Table(p)'
  BY <1>1 DEF Table
<1>3. Returns(p)'
  BY <1>1 DEF Returns
<1> QED BY <1>1, <1>2, <1>3, OnlyOwnScope

LEMMA EmptyTable == Empty = [f \in DOMAIN Empty |-> Empty[f]] /\ DOMAIN Empty = {}
BY DEF Empty

(* A file that brings no definition changes nothing; one that brings some  *)
(* is remembered until the next sweep.                                     *)
LEMMA CacheAddFileReturns ==
  ASSUME NEW p \in Processes, NEW file, KInv, CacheAddFile(p, file)
  PROVE  KInv'
<1> DEFINE siblings == {file[i].name : i \in DOMAIN file}
           bad == {i \in DOMAIN file : ~CheckFreeVars(file[i].body, siblings)}
           upTo == IF bad = {} THEN Len(file)
                   ELSE (CHOOSE i \in bad : \A j \in bad : i <= j) - 1
           taken == SubSeq(file, 1, upTo)
           names == {taken[i].name : i \in DOMAIN taken}
           defs == Install(fns[p], taken)
           impure == {f \in names : ~CheckImpurity(defs[f])}
<1>1. /\ fns' = [fns EXCEPT ![p] = defs]
      /\ active' = active
      /\ removed' = [removed EXCEPT ![p] = (removed[p] \ names) \cup impure]
      /\ optedOut' = [optedOut EXCEPT ![p] = optedOut[p] \ names]
      /\ unswept' = [unswept EXCEPT ![p] = unswept[p] \cup names]
  BY DEF CacheAddFile
<1> HIDE DEF taken
<1>2. names = {} => defs = [f \in DOMAIN fns[p] |-> fns[p][f]]
  BY DEF Install
<1>3. defs = [f \in DOMAIN defs |-> defs[f]]
  BY DEF Install
<1>4. names = {} => impure = {}
  OBVIOUS
<1>5. names = {} => defs = fns[p]
  BY <1>2 DEF KInv, Table
<1> HIDE DEF defs, names
<1>6. KeptShape'
  <2> HIDE DEF impure
  <2> QED BY <1>1 DEF KInv, KeptShape, Shape, PerProcess
<1>7. /\ fns'[p] = defs /\ active'[p] = active[p]
      /\ removed'[p] = (removed[p] \ names) \cup impure
      /\ optedOut'[p] = optedOut[p] \ names /\ unswept'[p] = unswept[p] \cup names
  BY <1>1 DEF KInv, KeptShape, Shape, PerProcess
<1>8. Table(p)'
  BY <1>3, <1>7 DEF Table
<1>9. Returns(p)'
  <2>1. CASE names = {}
    <3>1. /\ fns'[p] = fns[p] /\ active'[p] = active[p] /\ removed'[p] = removed[p]
          /\ optedOut'[p] = optedOut[p] /\ unswept'[p] = unswept[p]
      BY <1>4, <1>5, <1>7, <2>1
    <3> QED BY <3>1 DEF KInv, Returns
  <2>2. CASE names # {}
    BY <1>7, <2>2 DEF Returns
  <2> QED BY <2>1, <2>2
<1>10. \A q \in Processes \ {p} :
         /\ fns'[q] = fns[q] /\ active'[q] = active[q] /\ removed'[q] = removed[q]
         /\ optedOut'[q] = optedOut[q] /\ unswept'[q] = unswept[q]
  BY <1>1 DEF KInv, KeptShape, Shape, PerProcess
<1> QED BY <1>6, <1>8, <1>9, <1>10, OnlyOwnScope

(* What the script adds leaves both sets; what it removes enters both.     *)
LEMMA OptingReturns ==
  ASSUME NEW p \in Processes, KInv, UNCHANGED <<fns, active, unswept>>, NEW names,
         \/ /\ removed' = [removed EXCEPT ![p] = removed[p] \ names]
            /\ optedOut' = [optedOut EXCEPT ![p] = optedOut[p] \ names]
         \/ /\ removed' = [removed EXCEPT ![p] = removed[p] \cup names]
            /\ optedOut' = [optedOut EXCEPT ![p] = optedOut[p] \cup names]
  PROVE  KInv'
<1>1. KeptShape'
  BY DEF KInv, KeptShape, Shape, PerProcess
<1>2. \/ removed'[p] = removed[p] \ names /\ optedOut'[p] = optedOut[p] \ names
      \/ removed'[p] = removed[p] \cup names /\ optedOut'[p] = optedOut[p] \cup names
  BY DEF KInv, KeptShape, Shape, PerProcess
<1>3. Table(p)' /\ Returns(p)'
  BY <1>2 DEF KInv, Table, Returns
<1>4. \A q \in Processes \ {p} :
        /\ fns'[q] = fns[q] /\ active'[q] = active[q] /\ removed'[q] = removed[q]
        /\ optedOut'[q] = optedOut[q] /\ unswept'[q] = unswept[q]
  BY DEF KInv, KeptShape, Shape, PerProcess
<1> QED BY <1>1, <1>3, <1>4, OnlyOwnScope

LEMMA UntouchedReturns ==
  ASSUME KInv, UNCHANGED <<fns, scopeVars>>
  PROVE  KInv'
BY DEF KInv, KeptShape, Shape, PerProcess, Table, Returns, scopeVars

(* While a store is open, a function that passes the checks is in scope    *)
(* unless the script took it out or a file was loaded since the last       *)
(* definition, in every process and after any sequence of statements.      *)
THEOREM NothingIsForgotten == Spec => []NotForgotten
<1>1. Init => KInv
  <2> SUFFICES ASSUME Init PROVE KInv
    OBVIOUS
  <2>1. /\ fns = [p \in Processes |-> Empty] /\ active = [p \in Processes |-> FALSE]
        /\ removed = [p \in Processes |-> {}] /\ optedOut = [p \in Processes |-> {}]
        /\ unswept = [p \in Processes |-> {}]
    BY DEF Init, CallsInit, Empty
  <2> HIDE DEF Empty
  <2> QED BY <2>1, EmptyTable DEF KInv, KeptShape, Shape, PerProcess, Table, Returns
<1>2. KInv /\ [Next]_vars => KInv'
  <2> SUFFICES ASSUME KInv, [Next]_vars PROVE KInv'
    OBVIOUS
  <2>1. ASSUME NEW p \in Processes, NEW d \in Definitions, FunctionDef(p, d) PROVE KInv'
    BY <2>1, FunctionDefReturns
  <2>2. ASSUME NEW p \in Processes, CacheStatement(p) PROVE KInv'
    <3>1. CASE CacheEnable(p)
      BY <3>1, CacheEnableReturns
    <3>2. CASE CacheOff(p)
      <4>1. /\ fns' = [fns EXCEPT ![p] = fns[p]]
            /\ active' = [active EXCEPT ![p] = FALSE]
            /\ removed' = [removed EXCEPT ![p] = {}]
            /\ optedOut' = [optedOut EXCEPT ![p] = {}]
            /\ unswept' = [unswept EXCEPT ![p] = {}]
        BY <3>2 DEF CacheOff, ResetScope, KInv, KeptShape, Shape, PerProcess
      <4>2. KeptShape' /\ active'[p] = FALSE
        BY <4>1 DEF KInv, KeptShape, Shape, PerProcess
      <4>3. \A q \in Processes \ {p} :
              /\ active'[q] = active[q] /\ removed'[q] = removed[q]
              /\ optedOut'[q] = optedOut[q] /\ unswept'[q] = unswept[q]
        BY <4>1 DEF KInv, KeptShape, Shape, PerProcess
      <4>4. fns[p] = [f \in DOMAIN fns[p] |-> fns[p][f]]
        BY DEF KInv, Table
      <4> QED BY <4>1, <4>2, <4>3, <4>4, ClosedReturns
    <3>3. CASE CacheList(p)
      BY <3>3, UntouchedReturns DEF CacheList
    <3>4. ASSUME NEW file \in Files, CacheAddFile(p, file) PROVE KInv'
      BY <3>4, CacheAddFileReturns
    <3>5. ASSUME NEW names \in SUBSET DOMAIN fns[p], CacheAddFunctions(p, names) PROVE KInv'
      BY <3>5, OptingReturns DEF CacheAddFunctions
    <3>6. ASSUME NEW f \in Names, CacheRemoveFunction(p, f) PROVE KInv'
      BY <3>6, OptingReturns DEF CacheRemoveFunction
    <3> QED BY <2>2, <3>1, <3>2, <3>3, <3>4, <3>5, <3>6 DEF CacheStatement
  <2>3. ASSUME NEW p \in Processes, Call(p) PROVE KInv'
    <3>1. UNCHANGED <<fns, scopeVars>>
      BY <2>3 DEF Call, Hit, Miss, Return, Fail, Interrupt
    <3> QED BY <3>1, UntouchedReturns
  <2>4. ASSUME NEW p \in Processes, ClearVars(p) \/ Exit(p) PROVE KInv'
    <3>1. fns' = [fns EXCEPT ![p] = Empty]
      BY <2>4 DEF ClearVars, Exit
    <3>2. KeptShape' /\ \A q \in Processes \ {p} :
            /\ active'[q] = active[q] /\ removed'[q] = removed[q]
            /\ optedOut'[q] = optedOut[q] /\ unswept'[q] = unswept[q]
      BY <2>4 DEF ClearVars, Exit, ResetScope, scopeVars, KInv, KeptShape, Shape, PerProcess
    <3> HIDE DEF Empty
    <3> QED BY <3>1, <3>2, EmptyTable, ClosedReturns
  <2>5. ASSUME NEW ids \in SUBSET DOMAIN store, CachePrune(ids) PROVE KInv'
    BY <2>5, UntouchedReturns DEF CachePrune
  <2>6. CASE UNCHANGED vars
    BY <2>6, UntouchedReturns DEF vars
  <2> QED BY <2>1, <2>2, <2>3, <2>4, <2>5, <2>6 DEF Next
<1>3. KInv => NotForgotten
  BY DEF KInv, Returns, NotForgotten
<1> QED BY <1>1, <1>2, <1>3, PTL DEF Spec

-----------------------------------------------------------------------------
(* The calls in progress.                                                  *)

(* A sequence, of whatever it holds.                                       *)
IsSeq(s) == s \in Seq({s[i] : i \in DOMAIN s})

Frame(c) ==
  /\ c = [fn |-> c.fn, body |-> c.body, results |-> c.results, key |-> c.key]
  /\ c.fn \in Names /\ c.body.calls \in Seq(Names)
  /\ IsSeq(c.results) /\ Len(c.results) <= Len(c.body.calls)

(* The call above this one is the next that its body makes.                *)
Calls(c, f) ==
  Len(c.results) < Len(c.body.calls) /\ f = c.body.calls[Len(c.results) + 1]

Stacked(s) ==
  /\ IsSeq(s) /\ \A i \in 1..Len(s) : Frame(s[i])
  /\ \A i \in 1..Len(s) : i < Len(s) => Calls(s[i], s[i + 1].fn)

LEMMA SeqIs ==
  ASSUME NEW S, NEW s \in Seq(S)
  PROVE  IsSeq(s) /\ Len(s) \in Nat /\ DOMAIN s = 1..Len(s)
<1>1. PICK n \in Nat : n = Len(s) /\ DOMAIN s = 1..n /\ s = [i \in 1..n |-> s[i]]
  OBVIOUS
<1> DEFINE R == {s[i] : i \in DOMAIN s}
<1>2. \A i \in 1..n : s[i] \in R
  BY <1>1
<1> HIDE DEF R
<1>3. s \in [1..n -> R]
  BY <1>1, <1>2
<1>4. s \in Seq(R)
  BY <1>3
<1> QED BY <1>1, <1>4 DEF IsSeq, R

LEMMA SeqAppend ==
  ASSUME NEW s, IsSeq(s), NEW x
  PROVE  /\ IsSeq(Append(s, x)) /\ Len(Append(s, x)) = Len(s) + 1 /\ Len(s) \in Nat
         /\ \A i \in 1..Len(s) : Append(s, x)[i] = s[i]
         /\ Append(s, x)[Len(s) + 1] = x
<1> DEFINE R == {s[i] : i \in DOMAIN s}
           T == R \cup {x}
<1>1. s \in Seq(R)
  BY DEF IsSeq
<1>2. R \subseteq T /\ x \in T
  OBVIOUS
<1> HIDE DEF R, T
<1>3. s \in Seq(T)
  <2>1. PICK n \in Nat : n = Len(s) /\ s \in [1..n -> R]
    BY <1>1
  <2>2. s \in [1..n -> T]
    BY <1>2, <2>1
  <2> QED BY <2>2
<1>4. /\ Append(s, x) \in Seq(T) /\ Len(Append(s, x)) = Len(s) + 1 /\ Len(s) \in Nat
      /\ \A i \in 1..Len(s) : Append(s, x)[i] = s[i]
      /\ Append(s, x)[Len(s) + 1] = x
  BY <1>2, <1>3
<1> QED BY <1>4, SeqIs

LEMMA SeqPrefix ==
  ASSUME NEW s, IsSeq(s), NEW n \in Nat, n <= Len(s)
  PROVE  /\ IsSeq(SubSeq(s, 1, n)) /\ Len(SubSeq(s, 1, n)) = n
         /\ \A i \in 1..n : SubSeq(s, 1, n)[i] = s[i]
<1> DEFINE R == {s[i] : i \in DOMAIN s}
<1>1. s \in Seq(R)
  BY DEF IsSeq
<1> HIDE DEF R
<1>2. /\ SubSeq(s, 1, n) \in Seq(R) /\ Len(SubSeq(s, 1, n)) = n
      /\ \A i \in 1..n : SubSeq(s, 1, n)[i] = s[i]
  <2>1. PICK k \in Nat : k = Len(s) /\ n <= k /\ \A i \in 1..k : s[i] \in R
    BY <1>1
  <2>2. SubSeq(s, 1, n) = [i \in 1..n |-> s[i]]
    BY <1>1, <2>1
  <2> QED BY <2>1, <2>2
<1> QED BY <1>2, SeqIs

LEMMA SeqExcept ==
  ASSUME NEW s, IsSeq(s), NEW n \in 1..Len(s), NEW x
  PROVE  LET r == [s EXCEPT ![n] = x] IN
         /\ IsSeq(r) /\ Len(r) = Len(s) /\ Len(s) \in Nat
         /\ \A i \in 1..Len(s) : r[i] = IF i = n THEN x ELSE s[i]
<1> DEFINE R == {s[i] : i \in DOMAIN s}
           T == R \cup {x}
           r == [s EXCEPT ![n] = x]
<1>1. s \in Seq(R)
  BY DEF IsSeq
<1>2. R \subseteq T /\ x \in T
  OBVIOUS
<1> HIDE DEF R, T
<1>3. PICK k \in Nat : k = Len(s) /\ s \in [1..k -> R] /\ DOMAIN s = 1..k
  BY <1>1
<1>4. r \in [1..k -> T] /\ \A i \in 1..k : r[i] = IF i = n THEN x ELSE s[i]
  BY <1>2, <1>3
<1> HIDE DEF r
<1>5. r \in Seq(T) /\ Len(r) = k
  BY <1>4
<1>6. IsSeq(r)
  BY <1>5, SeqIs
<1> QED BY <1>3, <1>4, <1>5, <1>6 DEF r

LEMMA EmptyStack == Stacked(<<>>) /\ IsSeq(<<>>)
<1>1. <<>> \in Seq({}) /\ Len(<<>>) = 0
  OBVIOUS
<1>2. IsSeq(<<>>)
  BY <1>1, SeqIs
<1> QED BY <1>1, <1>2 DEF Stacked

LEMMA PushStack ==
  ASSUME NEW s, Stacked(s), NEW c, Frame(c),
         s # <<>> => Calls(s[Len(s)], c.fn)
  PROVE  Stacked(Append(s, c))
<1>1. IsSeq(s) /\ Len(s) \in Nat
  BY SeqAppend DEF Stacked
<1>2. PICK n \in Nat : n = Len(s)
  BY <1>1
<1>3. PICK r : r = Append(s, c)
  OBVIOUS
<1>4. /\ IsSeq(r) /\ Len(r) = n + 1 /\ r[n + 1] = c
      /\ \A i \in 1..n : r[i] = s[i]
  BY <1>1, <1>2, <1>3, SeqAppend
<1>5. \A i \in 1..(n + 1) : Frame(r[i])
  <2> SUFFICES ASSUME NEW i \in 1..(n + 1) PROVE Frame(r[i])
    OBVIOUS
  <2>1. CASE i = n + 1
    BY <1>4, <2>1
  <2>2. CASE i \in 1..n
    BY <1>2, <1>4, <2>2 DEF Stacked
  <2> QED BY <2>1, <2>2
<1>6. ASSUME NEW i \in 1..(n + 1), i < n + 1 PROVE Calls(r[i], r[i + 1].fn)
  <2>1. CASE i = n
    <3>1. r[i] = s[n] /\ r[i + 1] = c /\ s # <<>>
      BY <1>1, <1>2, <1>4, <2>1
    <3> QED BY <1>2, <3>1
  <2>2. CASE i < n
    <3>1. i \in 1..n /\ i + 1 \in 1..n
      BY <2>2
    <3>2. r[i] = s[i] /\ r[i + 1] = s[i + 1]
      BY <1>4, <3>1
    <3> QED BY <1>2, <2>2, <3>1, <3>2 DEF Stacked
  <2> QED BY <1>6, <2>1, <2>2
<1> QED BY <1>3, <1>4, <1>5, <1>6 DEF Stacked

(* The innermost call returned: the calls below it wait for its result.    *)
LEMMA PopStack ==
  ASSUME NEW s, Stacked(s), s # <<>>
  PROVE  LET r == SubSeq(s, 1, Len(s) - 1) IN
         /\ Stacked(r)
         /\ r # <<>> => Len(r) \in 1..Len(r) /\ Calls(r[Len(r)], s[Len(s)].fn)
<1> DEFINE r == SubSeq(s, 1, Len(s) - 1)
<1>1. IsSeq(s) /\ Len(s) \in Nat /\ Len(s) # 0
  <2>1. IsSeq(s) /\ Len(s) \in Nat
    BY SeqAppend DEF Stacked
  <2> QED BY <2>1 DEF IsSeq
<1>2. PICK n \in Nat : Len(s) = n + 1
  <2>1. Len(s) - 1 \in Nat /\ Len(s) = (Len(s) - 1) + 1
    BY <1>1
  <2> QED BY <2>1
<1>3. /\ IsSeq(r) /\ Len(r) = n /\ \A i \in 1..n : r[i] = s[i]
  <2>1. Len(s) - 1 = n /\ n <= Len(s)
    BY <1>2
  <2> QED BY <1>1, <2>1, SeqPrefix
<1> HIDE DEF r
<1>4. Stacked(r)
  <2>1. \A i \in 1..n : Frame(r[i])
    BY <1>2, <1>3 DEF Stacked
  <2>2. ASSUME NEW i \in 1..n, i < n PROVE Calls(r[i], r[i + 1].fn)
    <3>1. i + 1 \in 1..n /\ i \in 1..(n + 1) /\ i < n + 1
      BY <2>2
    <3>2. Calls(s[i], s[i + 1].fn)
      BY <1>2, <3>1 DEF Stacked
    <3> QED BY <1>3, <3>1, <3>2
  <2> QED BY <1>3, <2>1, <2>2 DEF Stacked
<1>5. ASSUME r # <<>> PROVE Len(r) \in 1..Len(r) /\ Calls(r[Len(r)], s[Len(s)].fn)
  <2>1. n # 0
    BY <1>3, <1>5 DEF IsSeq
  <2>2. n \in 1..n /\ n \in 1..(n + 1) /\ n < n + 1
    BY <2>1
  <2>3. Calls(s[n], s[n + 1].fn)
    BY <1>2, <2>2 DEF Stacked
  <2> QED BY <1>2, <1>3, <2>2, <2>3
<1> QED BY <1>4, <1>5 DEF r

LEMMA FrameResults ==
  ASSUME NEW c, NEW f, NEW body, NEW results, NEW key, NEW new,
         c = [fn |-> f, body |-> body, results |-> results, key |-> key]
  PROVE  [c EXCEPT !.results = new] = [fn |-> f, body |-> body, results |-> new, key |-> key]
OBVIOUS

LEMMA ResultStack ==
  ASSUME NEW s, Stacked(s), s # <<>>, NEW f, Calls(s[Len(s)], f), NEW x
  PROVE  Stacked([s EXCEPT ![Len(s)].results = Append(@, x)])
<1>1. IsSeq(s) /\ Len(s) \in Nat /\ Len(s) # 0
  <2>1. IsSeq(s) /\ Len(s) \in Nat
    BY SeqAppend DEF Stacked
  <2> QED BY <2>1 DEF IsSeq
<1>2. PICK n \in Nat : n = Len(s) /\ n \in 1..n
  BY <1>1
<1> DEFINE c == s[n]
           e == [c EXCEPT !.results = Append(c.results, x)]
           r == [s EXCEPT ![n] = e]
<1>3. Frame(c)
  BY <1>2 DEF Stacked
<1>4. e = [fn |-> c.fn, body |-> c.body, results |-> Append(c.results, x), key |-> c.key]
  <2> HIDE DEF c
  <2>1. c = [fn |-> c.fn, body |-> c.body, results |-> c.results, key |-> c.key]
    BY <1>3 DEF Frame
  <2> QED BY SMTT(40), <2>1, FrameResults
<1>5. /\ IsSeq(Append(c.results, x)) /\ Len(Append(c.results, x)) = Len(c.results) + 1
      /\ Len(c.results) \in Nat
  BY <1>3, SeqAppend DEF Frame
<1>6. Len(c.body.calls) \in Nat /\ Len(c.results) < Len(c.body.calls)
  BY <1>2, <1>3 DEF Frame, Calls
<1>7. Frame(e) /\ e.fn = c.fn
  <2>1. e.fn = c.fn /\ e.body = c.body /\ e.results = Append(c.results, x) /\ e.key = c.key
    BY <1>4
  <2>2. Len(e.results) <= Len(e.body.calls)
    BY SMTT(40), <1>5, <1>6, <2>1
  <2> QED BY <1>3, <1>4, <1>5, <2>1, <2>2 DEF Frame
<1>8. [s EXCEPT ![Len(s)].results = Append(@, x)] = r
  BY <1>2
<1> HIDE DEF e
<1>9. /\ IsSeq(r) /\ Len(r) = n
      /\ \A i \in 1..n : r[i] = IF i = n THEN e ELSE s[i]
  <2> HIDE DEF c
  <2>1. n \in 1..Len(s)
    BY <1>2
  <2>2. LET t == [s EXCEPT ![n] = e] IN
        /\ IsSeq(t) /\ Len(t) = Len(s)
        /\ \A i \in 1..Len(s) : t[i] = IF i = n THEN e ELSE s[i]
    BY <1>1, <2>1, SeqExcept
  <2> QED BY <1>2, <2>2
<1> HIDE DEF r, c
<1>10. \A i \in 1..n : Frame(r[i])
  BY <1>2, <1>7, <1>9 DEF Stacked
<1>11. ASSUME NEW i \in 1..n, i < n PROVE Calls(r[i], r[i + 1].fn)
  <2>1. i + 1 \in 1..n /\ i # n
    BY <1>11
  <2>2. Calls(s[i], s[i + 1].fn)
    BY <1>2, <1>11 DEF Stacked
  <2>3. r[i] = s[i] /\ r[i + 1].fn = s[i + 1].fn
    BY <1>7, <1>9, <2>1 DEF c
  <2> QED BY <2>2, <2>3
<1> QED BY <1>8, <1>9, <1>10, <1>11 DEF Stacked

-----------------------------------------------------------------------------
(* The shape of the whole state, one part at a time: definitions and scope *)
(* of each process, the ids it remembers, its calls and its last answer.   *)
Bodies(defs) ==
  DOMAIN defs \subseteq Names /\ \A f \in DOMAIN defs : defs[f].calls \in Seq(Names)

ScopeOK(q) ==
  /\ Bodies(fns[q]) /\ active[q] \in BOOLEAN
  /\ removed[q] \subseteq Names /\ optedOut[q] \subseteq Names /\ unswept[q] \subseteq Names
  /\ ~active[q] => removed[q] = optedOut[q]

ScopeTyped == KeptShape /\ \A q \in Processes : ScopeOK(q)

MemoTyped == PerProcess(memo) /\ \A q \in Processes : DOMAIN memo[q] \subseteq Names

CallsTyped ==
  /\ PerProcess(stack) /\ PerProcess(answer)
  /\ \A q \in Processes : Stacked(stack[q]) /\ answer[q].fn \in Names \cup {Failure}

Counted == draws \in Nat /\ statements \in 0..MaxStatements

Typed == ScopeTyped /\ MemoTyped /\ CallsTyped /\ Counted

LEMMA InstallsBodies ==
  ASSUME NEW defs, Bodies(defs), NEW new \in Seq(AllDefinitions)
  PROVE  Bodies(Install(defs, new))
<1> SUFFICES ASSUME NEW f \in DOMAIN Install(defs, new)
             PROVE  f \in Names /\ Install(defs, new)[f].calls \in Seq(Names)
  BY DEF Bodies
<1>1. CASE f \in DOMAIN defs /\ Install(defs, new)[f] = defs[f]
  BY <1>1 DEF Bodies
<1>2. ASSUME NEW i \in DOMAIN new, new[i].name = f, Install(defs, new)[f] = new[i].body
      PROVE  f \in Names /\ Install(defs, new)[f].calls \in Seq(Names)
  <2>1. new[i] \in AllDefinitions
    OBVIOUS
  <2> HIDE DEF Install
  <2> QED BY <1>2, <2>1, LanguageAssumption DEF LanguageAssumption
<1> QED BY <1>1, <1>2, Installed

LEMMA OneScope ==
  ASSUME NEW p \in Processes, ScopeTyped, KeptShape', ScopeOK(p)',
         \A q \in Processes \ {p} :
           /\ fns'[q] = fns[q] /\ active'[q] = active[q] /\ removed'[q] = removed[q]
           /\ optedOut'[q] = optedOut[q] /\ unswept'[q] = unswept[q]
  PROVE  ScopeTyped'
<1> SUFFICES ASSUME NEW q \in Processes PROVE ScopeOK(q)'
  BY DEF ScopeTyped
<1>1. CASE q = p
  BY <1>1
<1>2. CASE q # p
  BY <1>2 DEF ScopeTyped, ScopeOK
<1> QED BY <1>1, <1>2

LEMMA FunctionDefScope ==
  ASSUME NEW p \in Processes, NEW d \in AllDefinitions, ScopeTyped, FunctionDef(p, d)
  PROVE  ScopeTyped'
<1> DEFINE new  == <<d>>
           defs == Install(fns[p], new)
           out  == IF Gate(defs, d.name) THEN removed[p] ELSE removed[p] \cup {d.name}
           swept == Rescan(defs, out)
<1>1. /\ fns' = [fns EXCEPT ![p] = defs]
      /\ active' = active /\ optedOut' = optedOut
      /\ removed' = IF active[p] THEN [removed EXCEPT ![p] = swept] ELSE removed
      /\ unswept' = [unswept EXCEPT ![p] = {}]
  BY DEF FunctionDef
<1>2. Bodies(defs)
  <2>1. new \in Seq(AllDefinitions) /\ Bodies(fns[p])
    BY DEF ScopeTyped, ScopeOK
  <2> HIDE DEF new
  <2> QED BY <2>1, InstallsBodies
<1>3. swept \subseteq Names
  <2>1. d.name \in Names
    BY LanguageAssumption DEF LanguageAssumption
  <2>2. removed[p] \subseteq Names
    BY DEF ScopeTyped, ScopeOK
  <2>3. out \subseteq Names
    <3> HIDE DEF defs
    <3> QED BY <2>1, <2>2
  <2> HIDE DEF defs, out
  <2> QED BY <2>3 DEF Rescan
<1> HIDE DEF defs, swept
<1>4. KeptShape'
  BY <1>1 DEF ScopeTyped, KeptShape, Shape, PerProcess
<1>5. /\ fns'[p] = defs /\ active'[p] = active[p] /\ optedOut'[p] = optedOut[p]
      /\ removed'[p] = IF active[p] THEN swept ELSE removed[p]
      /\ unswept'[p] = {}
  BY <1>1 DEF ScopeTyped, KeptShape, Shape, PerProcess
<1>6. ScopeOK(p)'
  BY <1>2, <1>3, <1>5 DEF ScopeTyped, ScopeOK
<1>7. \A q \in Processes \ {p} :
        /\ fns'[q] = fns[q] /\ active'[q] = active[q] /\ removed'[q] = removed[q]
        /\ optedOut'[q] = optedOut[q] /\ unswept'[q] = unswept[q]
  BY <1>1 DEF ScopeTyped, KeptShape, Shape, PerProcess
<1> QED BY <1>4, <1>6, <1>7, OneScope

LEMMA CacheEnableScope ==
  ASSUME NEW p \in Processes, ScopeTyped, CacheEnable(p)
  PROVE  ScopeTyped'
<1> DEFINE out == {f \in DOMAIN fns[p] : ~Gate(fns[p], f)}
<1>1. /\ fns' = fns /\ active' = [active EXCEPT ![p] = TRUE]
      /\ removed' = [removed EXCEPT ![p] = out]
      /\ optedOut' = [optedOut EXCEPT ![p] = {}] /\ unswept' = [unswept EXCEPT ![p] = {}]
  BY DEF CacheEnable
<1>2. out \subseteq Names
  BY DEF ScopeTyped, ScopeOK, Bodies
<1> HIDE DEF out
<1>3. KeptShape'
  BY <1>1 DEF ScopeTyped, KeptShape, Shape, PerProcess
<1>4. /\ fns'[p] = fns[p] /\ active'[p] = TRUE /\ removed'[p] = out
      /\ optedOut'[p] = {} /\ unswept'[p] = {}
  BY <1>1 DEF ScopeTyped, KeptShape, Shape, PerProcess
<1>5. ScopeOK(p)'
  BY <1>2, <1>4 DEF ScopeTyped, ScopeOK
<1>6. \A q \in Processes \ {p} :
        /\ fns'[q] = fns[q] /\ active'[q] = active[q] /\ removed'[q] = removed[q]
        /\ optedOut'[q] = optedOut[q] /\ unswept'[q] = unswept[q]
  BY <1>1 DEF ScopeTyped, KeptShape, Shape, PerProcess
<1> QED BY <1>3, <1>5, <1>6, OneScope

(* The part of a file that is loaded is a sequence of definitions.         *)
LEMMA FilePart ==
  ASSUME NEW file \in Files, NEW bad \in SUBSET DOMAIN file
  PROVE  SubSeq(file, 1, IF bad = {} THEN Len(file)
                         ELSE (CHOOSE i \in bad : \A j \in bad : i <= j) - 1)
           \in Seq(AllDefinitions)
<1>1. file \in Seq(AllDefinitions) /\ DOMAIN file = 1..Len(file) /\ Len(file) \in Nat
  BY LanguageAssumption DEF LanguageAssumption
<1>2. CASE bad = {}
  BY <1>1, <1>2
<1>3. CASE bad # {}
  <2> DEFINE first == CHOOSE i \in bad : \A j \in bad : i <= j
  <2>1. \E i \in bad : \A j \in bad : i <= j
    BY <1>1, <1>3, FirstExists
  <2>2. first \in 1..Len(file)
    BY <1>1, <2>1
  <2> HIDE DEF first
  <2>3. first - 1 \in 0..Len(file)
    BY <1>1, <2>2
  <2>4. SubSeq(file, 1, first - 1) \in Seq(AllDefinitions)
    BY <1>1, <2>3
  <2> QED BY <1>3, <2>4 DEF first
<1> QED BY <1>2, <1>3

LEMMA CacheAddFileScope ==
  ASSUME NEW p \in Processes, NEW file \in Files, ScopeTyped, CacheAddFile(p, file)
  PROVE  ScopeTyped'
<1> DEFINE siblings == {file[i].name : i \in DOMAIN file}
           bad == {i \in DOMAIN file : ~CheckFreeVars(file[i].body, siblings)}
           upTo == IF bad = {} THEN Len(file)
                   ELSE (CHOOSE i \in bad : \A j \in bad : i <= j) - 1
           taken == SubSeq(file, 1, upTo)
           names == {taken[i].name : i \in DOMAIN taken}
           defs == Install(fns[p], taken)
           impure == {f \in names : ~CheckImpurity(defs[f])}
<1>1. /\ fns' = [fns EXCEPT ![p] = defs]
      /\ active' = active /\ active[p]
      /\ removed' = [removed EXCEPT ![p] = (removed[p] \ names) \cup impure]
      /\ optedOut' = [optedOut EXCEPT ![p] = optedOut[p] \ names]
      /\ unswept' = [unswept EXCEPT ![p] = unswept[p] \cup names]
  BY DEF CacheAddFile
<1>2. taken \in Seq(AllDefinitions)
  <2>1. bad \in SUBSET DOMAIN file
    OBVIOUS
  <2> HIDE DEF bad
  <2> QED BY <2>1, FilePart
<1> HIDE DEF taken
<1>3. Bodies(defs)
  BY <1>2, InstallsBodies DEF ScopeTyped, ScopeOK
<1>4. names \subseteq Names
  <2> SUFFICES ASSUME NEW i \in DOMAIN taken PROVE taken[i].name \in Names
    OBVIOUS
  <2>1. taken[i] \in AllDefinitions
    BY <1>2
  <2> QED BY <2>1, LanguageAssumption DEF LanguageAssumption
<1>5. impure \subseteq names
  OBVIOUS
<1> HIDE DEF defs, names, impure
<1>6. KeptShape'
  BY <1>1 DEF ScopeTyped, KeptShape, Shape, PerProcess
<1>7. /\ fns'[p] = defs /\ active'[p] = active[p]
      /\ removed'[p] = (removed[p] \ names) \cup impure
      /\ optedOut'[p] = optedOut[p] \ names /\ unswept'[p] = unswept[p] \cup names
  BY <1>1 DEF ScopeTyped, KeptShape, Shape, PerProcess
<1>8. ScopeOK(p)'
  <2>1. /\ removed[p] \subseteq Names /\ optedOut[p] \subseteq Names
        /\ unswept[p] \subseteq Names /\ active[p] \in BOOLEAN
    BY DEF ScopeTyped, ScopeOK
  <2>2. removed'[p] \subseteq Names /\ optedOut'[p] \subseteq Names /\ unswept'[p] \subseteq Names
    BY <1>4, <1>5, <1>7, <2>1
  <2> QED BY <1>1, <1>3, <1>7, <2>1, <2>2 DEF ScopeOK
<1>9. \A q \in Processes \ {p} :
        /\ fns'[q] = fns[q] /\ active'[q] = active[q] /\ removed'[q] = removed[q]
        /\ optedOut'[q] = optedOut[q] /\ unswept'[q] = unswept[q]
  BY <1>1 DEF ScopeTyped, KeptShape, Shape, PerProcess
<1> QED BY <1>6, <1>8, <1>9, OneScope

(* What the script adds or removes changes both sets alike.                *)
LEMMA OptingScope ==
  ASSUME NEW p \in Processes, ScopeTyped, UNCHANGED <<fns, active, unswept>>,
         NEW names \in SUBSET Names,
         \/ /\ removed' = [removed EXCEPT ![p] = removed[p] \ names]
            /\ optedOut' = [optedOut EXCEPT ![p] = optedOut[p] \ names]
         \/ /\ removed' = [removed EXCEPT ![p] = removed[p] \cup names]
            /\ optedOut' = [optedOut EXCEPT ![p] = optedOut[p] \cup names]
  PROVE  ScopeTyped'
<1>1. KeptShape'
  BY DEF ScopeTyped, KeptShape, Shape, PerProcess
<1>2. \/ removed'[p] = removed[p] \ names /\ optedOut'[p] = optedOut[p] \ names
      \/ removed'[p] = removed[p] \cup names /\ optedOut'[p] = optedOut[p] \cup names
  BY DEF ScopeTyped, KeptShape, Shape, PerProcess
<1>3. ScopeOK(p)'
  BY <1>2 DEF ScopeTyped, ScopeOK
<1>4. \A q \in Processes \ {p} :
        /\ fns'[q] = fns[q] /\ active'[q] = active[q] /\ removed'[q] = removed[q]
        /\ optedOut'[q] = optedOut[q] /\ unswept'[q] = unswept[q]
  BY DEF ScopeTyped, KeptShape, Shape, PerProcess
<1> QED BY <1>1, <1>3, <1>4, OneScope

LEMMA EmptyBodies == Bodies(Empty)
BY EmptyTable DEF Bodies

LEMMA CacheStatementScope ==
  ASSUME NEW p \in Processes, ScopeTyped, CacheStatement(p)
  PROVE  ScopeTyped'
<1>1. CASE CacheEnable(p)
  BY <1>1, CacheEnableScope
<1>2. CASE CacheOff(p)
  <2>1. /\ fns' = fns /\ active' = [active EXCEPT ![p] = FALSE]
        /\ removed' = [removed EXCEPT ![p] = {}]
        /\ optedOut' = [optedOut EXCEPT ![p] = {}] /\ unswept' = [unswept EXCEPT ![p] = {}]
    BY <1>2 DEF CacheOff, ResetScope
  <2>2. KeptShape'
    BY <2>1 DEF ScopeTyped, KeptShape, Shape, PerProcess
  <2>3. /\ fns'[p] = fns[p] /\ active'[p] = FALSE /\ removed'[p] = {}
        /\ optedOut'[p] = {} /\ unswept'[p] = {}
    BY <2>1 DEF ScopeTyped, KeptShape, Shape, PerProcess
  <2>4. ScopeOK(p)'
    BY <2>3 DEF ScopeTyped, ScopeOK
  <2>5. \A q \in Processes \ {p} :
          /\ fns'[q] = fns[q] /\ active'[q] = active[q] /\ removed'[q] = removed[q]
          /\ optedOut'[q] = optedOut[q] /\ unswept'[q] = unswept[q]
    BY <2>1 DEF ScopeTyped, KeptShape, Shape, PerProcess
  <2> QED BY <2>2, <2>4, <2>5, OneScope
<1>3. CASE CacheList(p)
  BY <1>3 DEF CacheList, scopeVars, ScopeTyped, KeptShape, Shape, PerProcess, ScopeOK
<1>4. ASSUME NEW file \in Files, CacheAddFile(p, file) PROVE ScopeTyped'
  BY <1>4, CacheAddFileScope
<1>5. ASSUME NEW names \in SUBSET DOMAIN fns[p], CacheAddFunctions(p, names)
      PROVE  ScopeTyped'
  <2>1. names \in SUBSET Names
    BY DEF ScopeTyped, ScopeOK, Bodies
  <2> QED BY <1>5, <2>1, OptingScope DEF CacheAddFunctions
<1>6. ASSUME NEW f \in Names, CacheRemoveFunction(p, f) PROVE ScopeTyped'
  <2>1. {f} \in SUBSET Names
    OBVIOUS
  <2> QED BY <1>6, <2>1, OptingScope DEF CacheRemoveFunction
<1> QED BY <1>1, <1>2, <1>3, <1>4, <1>5, <1>6 DEF CacheStatement

LEMMA ScopeStays ==
  ASSUME ScopeTyped, [Next]_vars
  PROVE  ScopeTyped'
<1>1. ASSUME NEW p \in Processes, NEW d \in Definitions, FunctionDef(p, d) PROVE ScopeTyped'
  <2>1. d \in AllDefinitions
    BY DEF AllDefinitions
  <2> QED BY <1>1, <2>1, FunctionDefScope
<1>2. ASSUME NEW p \in Processes, CacheStatement(p) PROVE ScopeTyped'
  BY <1>2, CacheStatementScope
<1>3. ASSUME UNCHANGED <<fns, scopeVars>> PROVE ScopeTyped'
  BY <1>3 DEF scopeVars, ScopeTyped, KeptShape, Shape, PerProcess, ScopeOK
<1>4. ASSUME NEW p \in Processes, Call(p) PROVE ScopeTyped'
  <2>1. UNCHANGED <<fns, scopeVars>>
    BY <1>4 DEF Call, Hit, Miss, Return, Fail, Interrupt
  <2> QED BY <1>3, <2>1
<1>5. ASSUME NEW p \in Processes, ClearVars(p) \/ Exit(p) PROVE ScopeTyped'
  <2>1. /\ fns' = [fns EXCEPT ![p] = Empty]
        /\ \/ UNCHANGED scopeVars
           \/ /\ active' = [active EXCEPT ![p] = FALSE]
              /\ removed' = [removed EXCEPT ![p] = {}]
              /\ optedOut' = [optedOut EXCEPT ![p] = {}]
              /\ unswept' = [unswept EXCEPT ![p] = {}]
    BY <1>5 DEF ClearVars, Exit, ResetScope
  <2> HIDE DEF Empty
  <2>2. KeptShape'
    BY <2>1 DEF scopeVars, ScopeTyped, KeptShape, Shape, PerProcess
  <2>3. /\ fns'[p] = Empty
        /\ \/ /\ active'[p] = active[p] /\ removed'[p] = removed[p]
              /\ optedOut'[p] = optedOut[p] /\ unswept'[p] = unswept[p]
           \/ active'[p] = FALSE /\ removed'[p] = {} /\ optedOut'[p] = {} /\ unswept'[p] = {}
    BY <2>1 DEF scopeVars, ScopeTyped, KeptShape, Shape, PerProcess
  <2>4. ScopeOK(p)'
    BY <2>3, EmptyBodies DEF ScopeTyped, ScopeOK
  <2>5. \A q \in Processes \ {p} :
          /\ fns'[q] = fns[q] /\ active'[q] = active[q] /\ removed'[q] = removed[q]
          /\ optedOut'[q] = optedOut[q] /\ unswept'[q] = unswept[q]
    BY <2>1 DEF scopeVars, ScopeTyped, KeptShape, Shape, PerProcess
  <2> QED BY <2>2, <2>4, <2>5, OneScope
<1>6. ASSUME NEW ids \in SUBSET DOMAIN store, CachePrune(ids) PROVE ScopeTyped'
  BY <1>3, <1>6 DEF CachePrune
<1>7. CASE UNCHANGED vars
  BY <1>3, <1>7 DEF vars
<1> QED BY <1>1, <1>2, <1>4, <1>5, <1>6, <1>7 DEF Next

(* Ids are remembered for functions that exist.                            *)
LEMMA OneMemo ==
  ASSUME NEW p \in Processes, MemoTyped, NEW table, DOMAIN table \subseteq Names,
         memo' = [memo EXCEPT ![p] = table]
  PROVE  MemoTyped'
BY DEF MemoTyped, PerProcess

LEMMA RememberedMemo ==
  ASSUME NEW p \in Processes, NEW f \in Names, MemoTyped, RememberId(p, f)
  PROVE  MemoTyped'
<1> DEFINE table == [g \in DOMAIN memo[p] \cup {f} |-> IF g = f THEN EntryId(p, f) ELSE memo[p][g]]
<1>1. memo' = [memo EXCEPT ![p] = table] \/ memo' = memo
  BY DEF RememberId
<1>2. DOMAIN table \subseteq Names
  BY DEF MemoTyped
<1> HIDE DEF table
<1>3. CASE memo' = memo
  BY <1>3 DEF MemoTyped, PerProcess
<1> QED BY <1>1, <1>2, <1>3, OneMemo

LEMMA MemoStays ==
  ASSUME ScopeTyped, MemoTyped, [Next]_vars
  PROVE  MemoTyped'
<1>1. ASSUME UNCHANGED memo PROVE MemoTyped'
  BY <1>1 DEF MemoTyped, PerProcess
<1>2. ASSUME NEW p \in Processes, ForgetIds(p) PROVE MemoTyped'
  <2> HIDE DEF Empty
  <2>1. DOMAIN Empty \subseteq Names
    BY EmptyTable
  <2> QED BY <1>2, <2>1, OneMemo DEF ForgetIds
<1>3. ASSUME NEW p \in Processes, NEW d \in Definitions, FunctionDef(p, d) PROVE MemoTyped'
  BY <1>2, <1>3 DEF FunctionDef
<1>4. ASSUME NEW p \in Processes, CacheStatement(p) PROVE MemoTyped'
  <2>1. CASE CacheList(p)
    <3> DEFINE table == [f \in DOMAIN memo[p] \cup DOMAIN fns[p] |->
                   IF f \in DOMAIN memo[p] THEN memo[p][f] ELSE CanonicalId(fns[p], f)]
    <3>1. memo' = [memo EXCEPT ![p] = table]
      BY <2>1 DEF CacheList
    <3>2. DOMAIN table \subseteq Names
      BY DEF MemoTyped, ScopeTyped, ScopeOK, Bodies
    <3> HIDE DEF table
    <3> QED BY <3>1, <3>2, OneMemo
  <2>2. CASE ~CacheList(p)
    <3>1. UNCHANGED memo
      BY <1>4, <2>2 DEF CacheStatement, CacheEnable, CacheOff, CacheAddFile,
                        CacheAddFunctions, CacheRemoveFunction
    <3> QED BY <1>1, <3>1
  <2> QED BY <2>1, <2>2
<1>5. ASSUME NEW p \in Processes, Call(p) PROVE MemoTyped'
  <2>1. ASSUME NEW f \in DOMAIN fns[p], RememberId(p, f) PROVE MemoTyped'
    <3>1. f \in Names
      BY DEF ScopeTyped, ScopeOK, Bodies
    <3> QED BY <2>1, <3>1, RememberedMemo
  <2>2. UNCHANGED memo \/ \E f \in DOMAIN fns[p] : RememberId(p, f)
    BY <1>5 DEF Call, Hit, Miss, Return, Fail, Interrupt
  <2> QED BY <1>1, <2>1, <2>2
<1>6. ASSUME NEW p \in Processes, ClearVars(p) \/ Exit(p) PROVE MemoTyped'
  <2>1. UNCHANGED memo \/ ForgetIds(p)
    BY <1>6 DEF ClearVars, Exit, ForgetIds
  <2> QED BY <1>1, <1>2, <2>1
<1>7. ASSUME NEW ids \in SUBSET DOMAIN store, CachePrune(ids) PROVE MemoTyped'
  BY <1>1, <1>7 DEF CachePrune
<1>8. CASE UNCHANGED vars
  BY <1>1, <1>8 DEF vars
<1> QED BY <1>3, <1>4, <1>5, <1>6, <1>7, <1>8 DEF Next

-----------------------------------------------------------------------------
(* Calls and answers.  A call is made by the one below it, and a result    *)
(* goes to the call that waits for it.                                     *)
LEMMA OneStack ==
  ASSUME NEW p \in Processes, CallsTyped, NEW s, Stacked(s), stack' = [stack EXCEPT ![p] = s],
         \/ answer' = answer
         \/ \E f \in Names : \E value : answer' = [answer EXCEPT ![p] = [fn |-> f, value |-> value]]
  PROVE  CallsTyped'
<1>1. PerProcess(stack)' /\ \A q \in Processes : Stacked(stack'[q])
  BY DEF CallsTyped, PerProcess
<1>2. PerProcess(answer)' /\ \A q \in Processes : answer'[q].fn \in Names \cup {Failure}
  <2>1. CASE answer' = answer
    BY <2>1 DEF CallsTyped, PerProcess
  <2>2. ASSUME NEW f \in Names, NEW value,
               answer' = [answer EXCEPT ![p] = [fn |-> f, value |-> value]]
        PROVE  PerProcess(answer)' /\ \A q \in Processes : answer'[q].fn \in Names \cup {Failure}
    <3>1. PerProcess(answer)'
      BY <2>2 DEF CallsTyped, PerProcess
    <3>2. ASSUME NEW q \in Processes PROVE answer'[q].fn \in Names \cup {Failure}
      <4>1. answer'[q] = IF q = p THEN [fn |-> f, value |-> value] ELSE answer[q]
        BY <2>2 DEF CallsTyped, PerProcess
      <4> QED BY <4>1 DEF CallsTyped
    <3> QED BY <3>1, <3>2
  <2> QED BY <2>1, <2>2
<1> QED BY <1>1, <1>2 DEF CallsTyped

LEMMA DeliverTyped ==
  ASSUME NEW p \in Processes, CallsTyped, NEW below, Stacked(below), NEW f \in Names, NEW result,
         below # <<>> => Calls(below[Len(below)], f),
         Deliver(p, below, f, result)
  PROVE  CallsTyped'
<1>1. CASE below = <<>>
  <2>1. /\ stack' = [stack EXCEPT ![p] = <<>>]
        /\ answer' = [answer EXCEPT ![p] = [fn |-> f, value |-> result]]
    BY <1>1 DEF Deliver
  <2> QED BY <2>1, EmptyStack, OneStack
<1>2. CASE below # <<>>
  <2> DEFINE s == [below EXCEPT ![Len(below)].results = Append(@, result)]
  <2>1. stack' = [stack EXCEPT ![p] = s] /\ answer' = answer
    BY <1>2 DEF Deliver
  <2>2. Stacked(s)
    BY <1>2, ResultStack
  <2> HIDE DEF s
  <2> QED BY <2>1, <2>2, OneStack
<1> QED BY <1>1, <1>2

LEMMA CalledNext ==
  ASSUME NEW p \in Processes, NEW f, Called(p, f), stack[p] # <<>>
  PROVE  Calls(stack[p][Len(stack[p])], f)
BY DEF Called, Calls, Top

LEMMA MissTyped ==
  ASSUME NEW p \in Processes, NEW f \in DOMAIN fns[p], NEW keyed, ScopeTyped, CallsTyped,
         Miss(p, f, keyed)
  PROVE  CallsTyped'
<1> DEFINE key == IF keyed THEN EntryId(p, f) ELSE NoKey
           c == [fn |-> f, body |-> fns[p][f], results |-> <<>>, key |-> key]
           s == Append(stack[p], c)
<1>1. Called(p, f) /\ stack' = [stack EXCEPT ![p] = Append(stack[p], c)] /\ answer' = answer
  BY DEF Miss
<1> HIDE DEF key
<1>2. f \in Names /\ fns[p][f].calls \in Seq(Names)
  BY DEF ScopeTyped, ScopeOK, Bodies
<1>3. /\ c = [fn |-> c.fn, body |-> c.body, results |-> c.results, key |-> c.key]
      /\ c.fn = f /\ c.body = fns[p][f] /\ c.results = <<>>
  OBVIOUS
<1> HIDE DEF c
<1>4. Frame(c)
  <2>1. Len(<<>>) <= Len(fns[p][f].calls)
    BY <1>2
  <2> QED BY <1>2, <1>3, <2>1, EmptyStack DEF Frame
<1>5. Stacked(s)
  <2>1. Stacked(stack[p])
    BY DEF CallsTyped
  <2>2. stack[p] # <<>> => Calls(stack[p][Len(stack[p])], c.fn)
    BY <1>1, <1>3, CalledNext
  <2> QED BY <1>4, <2>1, <2>2, PushStack
<1> HIDE DEF s
<1>6. stack' = [stack EXCEPT ![p] = s]
  BY <1>1 DEF s
<1> QED BY <1>1, <1>5, <1>6, OneStack

LEMMA TopFrame ==
  ASSUME NEW p \in Processes, CallsTyped, stack[p] # <<>>
  PROVE  Frame(Top(p)) /\ Frame(stack[p][1])
<1>1. Stacked(stack[p])
  BY DEF CallsTyped
<1>2. Len(stack[p]) \in Nat /\ Len(stack[p]) # 0
  <2>1. IsSeq(stack[p]) /\ Len(stack[p]) \in Nat
    BY <1>1, SeqAppend DEF Stacked
  <2> QED BY <2>1 DEF IsSeq
<1>3. Len(stack[p]) \in 1..Len(stack[p]) /\ 1 \in 1..Len(stack[p])
  BY <1>2
<1> QED BY <1>1, <1>3 DEF Stacked, Top

LEMMA ReturnTyped ==
  ASSUME NEW p \in Processes, CallsTyped, Return(p)
  PROVE  CallsTyped'
<1> DEFINE impure == ~CheckImpurity(Top(p).body)
           result == [code |-> Top(p).body.code, draw |-> IF impure THEN draws + 1 ELSE 0,
                      calls |-> Top(p).results]
           below == SubSeq(stack[p], 1, Len(stack[p]) - 1)
<1>1. stack[p] # <<>> /\ Deliver(p, below, Top(p).fn, result)
  BY DEF Return
<1>2. Stacked(stack[p])
  BY DEF CallsTyped
<1>3. Stacked(below) /\ (below # <<>> => Calls(below[Len(below)], Top(p).fn))
  BY <1>1, <1>2, PopStack DEF Top
<1>4. Top(p).fn \in Names
  BY <1>1, TopFrame DEF Frame
<1> HIDE DEF below, result
<1> QED BY <1>1, <1>3, <1>4, DeliverTyped

LEMMA CallTyped ==
  ASSUME NEW p \in Processes, ScopeTyped, CallsTyped, Call(p)
  PROVE  CallsTyped'
<1>1. ASSUME NEW f \in DOMAIN fns[p], Hit(p, f) PROVE CallsTyped'
  <2>1. Called(p, f) /\ Deliver(p, stack[p], f, store[EntryId(p, f)])
    BY <1>1 DEF Hit
  <2>2. stack[p] # <<>> => Calls(stack[p][Len(stack[p])], f)
    BY <2>1, CalledNext
  <2>3. f \in Names /\ Stacked(stack[p])
    BY DEF ScopeTyped, ScopeOK, Bodies, CallsTyped
  <2> QED BY <2>1, <2>2, <2>3, DeliverTyped
<1>2. ASSUME NEW f \in DOMAIN fns[p], NEW keyed \in BOOLEAN, Miss(p, f, keyed) PROVE CallsTyped'
  BY <1>2, MissTyped
<1>3. CASE Return(p)
  BY <1>3, ReturnTyped
<1>4. CASE Fail(p)
  <2>1. /\ stack[p] # <<>> /\ stack' = [stack EXCEPT ![p] = <<>>]
        /\ answer' = [answer EXCEPT ![p] = [fn |-> stack[p][1].fn, value |-> Leaf(Failure)]]
    BY <1>4 DEF Fail
  <2>2. stack[p][1].fn \in Names
    BY <2>1, TopFrame DEF Frame
  <2> QED BY <2>1, <2>2, EmptyStack, OneStack
<1>5. CASE Interrupt(p)
  BY <1>5, EmptyStack, OneStack DEF Interrupt
<1> QED BY <1>1, <1>2, <1>3, <1>4, <1>5 DEF Call

LEMMA CallsStay ==
  ASSUME ScopeTyped, CallsTyped, [Next]_vars
  PROVE  CallsTyped'
<1>1. ASSUME UNCHANGED <<stack, answer>> PROVE CallsTyped'
  BY <1>1 DEF CallsTyped, PerProcess
<1>2. ASSUME NEW p \in Processes, NEW d \in Definitions, FunctionDef(p, d) PROVE CallsTyped'
  BY <1>1, <1>2 DEF FunctionDef
<1>3. ASSUME NEW p \in Processes, CacheStatement(p) PROVE CallsTyped'
  <2>1. UNCHANGED <<stack, answer>>
    BY <1>3 DEF CacheStatement, CacheEnable, CacheOff, CacheList, CacheAddFile,
                CacheAddFunctions, CacheRemoveFunction
  <2> QED BY <1>1, <2>1
<1>4. ASSUME NEW p \in Processes, Call(p) PROVE CallsTyped'
  BY <1>4, CallTyped
<1>5. ASSUME NEW p \in Processes, ClearVars(p) PROVE CallsTyped'
  BY <1>1, <1>5 DEF ClearVars
<1>6. ASSUME NEW p \in Processes, Exit(p) PROVE CallsTyped'
  BY <1>6, EmptyStack, OneStack DEF Exit
<1>7. ASSUME NEW ids \in SUBSET DOMAIN store, CachePrune(ids) PROVE CallsTyped'
  BY <1>1, <1>7 DEF CachePrune
<1>8. CASE UNCHANGED vars
  BY <1>1, <1>8 DEF vars
<1> QED BY <1>2, <1>3, <1>4, <1>5, <1>6, <1>7, <1>8 DEF Next

LEMMA CountStays ==
  ASSUME Counted, [Next]_vars
  PROVE  Counted'
<1>1. ASSUME UNCHANGED statements \/ (statements < MaxStatements /\ statements' = statements + 1),
             UNCHANGED draws \/ draws' = draws + 1
      PROVE  Counted'
  BY <1>1, BoundAssumption DEF Counted, BoundAssumption
<1>2. ASSUME NEW p \in Processes, Statement(p), UNCHANGED draws PROVE Counted'
  BY <1>1, <1>2 DEF Statement
<1>3. ASSUME NEW p \in Processes, NEW d \in Definitions, FunctionDef(p, d) PROVE Counted'
  BY <1>2, <1>3 DEF FunctionDef
<1>4. ASSUME NEW p \in Processes, CacheStatement(p) PROVE Counted'
  <2>1. Statement(p) /\ UNCHANGED draws
    BY <1>4 DEF CacheStatement, CacheEnable, CacheOff, CacheList, CacheAddFile,
                CacheAddFunctions, CacheRemoveFunction
  <2> QED BY <1>2, <2>1
<1>5. ASSUME NEW p \in Processes, Call(p) PROVE Counted'
  <2>1. ASSUME NEW f, Called(p, f), UNCHANGED draws PROVE Counted'
    BY <1>1, <2>1 DEF Called, Statement
  <2>2. ASSUME NEW f, Hit(p, f) PROVE Counted'
    BY <2>1, <2>2 DEF Hit
  <2>3. ASSUME NEW f, NEW keyed, Miss(p, f, keyed) PROVE Counted'
    BY <2>1, <2>3 DEF Miss
  <2>4. CASE Return(p)
    BY <1>1, <2>4 DEF Return
  <2>5. CASE Fail(p) \/ Interrupt(p)
    BY <1>1, <2>5 DEF Fail, Interrupt
  <2> QED BY <1>5, <2>2, <2>3, <2>4, <2>5 DEF Call
<1>6. ASSUME NEW p \in Processes, ClearVars(p) PROVE Counted'
  BY <1>2, <1>6 DEF ClearVars
<1>7. ASSUME NEW p \in Processes, Exit(p) PROVE Counted'
  BY <1>1, <1>7 DEF Exit
<1>8. ASSUME NEW ids \in SUBSET DOMAIN store, CachePrune(ids) PROVE Counted'
  BY <1>1, <1>8 DEF CachePrune
<1>9. CASE UNCHANGED vars
  BY <1>1, <1>9 DEF vars
<1> QED BY <1>3, <1>4, <1>5, <1>6, <1>7, <1>8, <1>9 DEF Next

LEMMA InitIsTyped == Init => Typed
<1> SUFFICES ASSUME Init PROVE Typed
  OBVIOUS
<1>1. /\ fns = [p \in Processes |-> Empty] /\ active = [p \in Processes |-> FALSE]
      /\ removed = [p \in Processes |-> {}] /\ optedOut = [p \in Processes |-> {}]
      /\ unswept = [p \in Processes |-> {}] /\ memo = [p \in Processes |-> Empty]
      /\ draws = 0 /\ statements = 0
  BY DEF Init, CallsInit, Empty
<1>2. stack = [p \in Processes |-> <<>>] /\ answer = [p \in Processes |-> Unanswered]
  BY DEF Init, CallsInit
<1> HIDE DEF Empty
<1>3. KeptShape
  BY <1>1 DEF KeptShape, Shape, PerProcess
<1>4. ScopeTyped /\ MemoTyped
  BY <1>1, <1>3, EmptyTable, EmptyBodies DEF ScopeTyped, ScopeOK, MemoTyped, PerProcess
<1>5. Unanswered.fn = Failure
  BY DEF Unanswered
<1>6. CallsTyped
  BY <1>2, <1>5, EmptyStack DEF CallsTyped, PerProcess
<1>7. Counted
  BY <1>1, BoundAssumption DEF Counted, BoundAssumption
<1> QED BY <1>4, <1>6, <1>7 DEF Typed

-----------------------------------------------------------------------------
(* In every process and after any sequence of statements, calls, failures  *)
(* and interrupts: while no store is open the scope holds nothing but what *)
(* the script removed, and each call in progress was made by the call      *)
(* below it, whose results are those of the callees before.                *)
THEOREM TypeCorrect == Spec => []TypeOK
<1>1. Init => Typed
  BY InitIsTyped
<1>2. Typed /\ [Next]_vars => Typed'
  BY ScopeStays, MemoStays, CallsStay, CountStays DEF Typed
<1>3. Typed => TypeOK
  <2> SUFFICES ASSUME Typed PROVE TypeOK
    OBVIOUS
  <2>1. ASSUME NEW p \in Processes, NEW i \in DOMAIN stack[p]
        PROVE  LET c == stack[p][i] IN
               /\ c.fn \in Names /\ Len(c.results) <= Len(c.body.calls)
               /\ i < Len(stack[p]) => stack[p][i + 1].fn = c.body.calls[Len(c.results) + 1]
    <3>1. Stacked(stack[p])
      BY DEF Typed, CallsTyped
    <3>2. DOMAIN stack[p] = 1..Len(stack[p])
      BY <3>1 DEF Stacked, IsSeq
    <3> QED BY <3>1, <3>2 DEF Stacked, Frame, Calls
  <2>2. \A p \in Processes :
          /\ DOMAIN fns[p] \subseteq Names /\ active[p] \in BOOLEAN
          /\ removed[p] \subseteq Names /\ optedOut[p] \subseteq Names
          /\ unswept[p] \subseteq Names
          /\ ~active[p] => removed[p] = optedOut[p]
          /\ DOMAIN memo[p] \subseteq Names
          /\ answer[p].fn \in Names \cup {Failure}
    BY DEF Typed, ScopeTyped, ScopeOK, Bodies, MemoTyped, CallsTyped
  <2> QED BY <2>1, <2>2 DEF TypeOK, Typed, Counted
<1> QED BY <1>1, <1>2, <1>3, PTL DEF Spec

-----------------------------------------------------------------------------
(* The recursive operators of FnCalls.  Calls go down in Level: a set of   *)
(* names has an element that calls none of the others.                     *)
LEMMA LowestExists ==
  ASSUME NEW S \in SUBSET Names, S # {}
  PROVE  \E f \in S : \A g \in S : Level[f] <= Level[g]
<1>1. PICK h \in S : TRUE
  OBVIOUS
<1>2. \A g \in Names : Level[g] \in Nat
  BY LanguageAssumption DEF LanguageAssumption
<1> DEFINE n == Level[h] + 1
           L == {Level[g] + 1 : g \in {g \in S : Level[g] <= Level[h]}}
<1>3. n \in Nat /\ L \in SUBSET (1..n) /\ n \in L
  <2>1. h \in Names /\ Level[h] \in Nat
    BY <1>1, <1>2
  <2>2. ASSUME NEW g \in S, Level[g] <= Level[h] PROVE Level[g] + 1 \in 1..n
    <3>1. Level[g] \in Nat
      BY <1>2
    <3> QED BY <2>1, <2>2, <3>1
  <2> QED BY <2>1, <2>2
<1>4. PICK l \in L : \A m \in L : l <= m
  <2> HIDE DEF n, L
  <2> QED BY <1>3, FirstExists
<1>5. PICK f \in S : l = Level[f] + 1 /\ Level[f] <= Level[h]
  OBVIOUS
<1>6. ASSUME NEW g \in S PROVE Level[f] <= Level[g]
  <2>1. Level[f] \in Nat /\ Level[g] \in Nat /\ Level[h] \in Nat
    BY <1>2
  <2>2. CASE Level[g] <= Level[h]
    <3>1. Level[g] + 1 \in L
      BY <2>2
    <3>2. l <= Level[g] + 1
      BY <1>4, <3>1
    <3> QED BY <1>5, <2>1, <3>2
  <2> QED BY <1>5, <2>1, <2>2
<1> QED BY <1>6

(* Tables of functions that scripts and files can define.                  *)
Sound(defs) ==
  /\ DOMAIN defs \subseteq Names
  /\ \A f \in DOMAIN defs : \E d \in AllDefinitions : d.name = f /\ defs[f] = d.body

LEMMA SoundCalls ==
  ASSUME NEW defs, Sound(defs), NEW f \in DOMAIN defs
  PROVE  /\ f \in Names /\ defs[f].calls \in Seq(Names)
         /\ defs[f].code \notin Names
         /\ \A i \in DOMAIN defs[f].calls :
              /\ defs[f].calls[i] \in Names /\ Level[defs[f].calls[i]] < Level[f]
              /\ defs[f].calls[i] \in Callees(defs[f])
         /\ \A h \in Callees(defs[f]) : h \in Names /\ Level[h] < Level[f]
<1>1. PICK d \in AllDefinitions : d.name = f /\ defs[f] = d.body
  BY DEF Sound
<1>2. /\ f \in Names /\ defs[f].calls \in Seq(Names)
      /\ \A h \in Callees(defs[f]) : Level[h] < Level[f]
  BY <1>1, LanguageAssumption DEF LanguageAssumption
<1>3. defs[f].code \notin Names
  BY <1>1, CodesAssumption DEF CodesAssumption
<1>4. \A i \in DOMAIN defs[f].calls : defs[f].calls[i] \in Names
  BY <1>2
<1>5. \A i \in DOMAIN defs[f].calls : defs[f].calls[i] \in Callees(defs[f])
  BY DEF Callees
<1>6. \A h \in Callees(defs[f]) : h \in Names
  BY <1>4 DEF Callees
<1> QED BY <1>2, <1>3, <1>4, <1>5, <1>6

(* Both recursions in one: what f has at v if its callees have theirs.     *)
Both(defs, v, f) ==
  [ id |-> IF f \in DOMAIN defs
           THEN [code |-> defs[f].code, draw |-> 0,
                 calls |-> [i \in DOMAIN defs[f].calls |-> v[defs[f].calls[i]].id]]
           ELSE Leaf(f),
    below |-> IF f \in DOMAIN defs
              THEN UNION {{h} \cup v[h].below : h \in Callees(defs[f])} ELSE {} ]

Unfolds(defs, S, v) == v = [f \in S |-> Both(defs, v, f)]

LEMMA BothLooksDown ==
  ASSUME NEW defs, Sound(defs), NEW f \in Names, NEW v, NEW w,
         \A h \in Names : Level[h] < Level[f] => v[h] = w[h]
  PROVE  Both(defs, v, f) = Both(defs, w, f)
<1>1. CASE f \in DOMAIN defs
  <2>1. \A i \in DOMAIN defs[f].calls : v[defs[f].calls[i]] = w[defs[f].calls[i]]
    BY <1>1, SoundCalls
  <2>2. [i \in DOMAIN defs[f].calls |-> v[defs[f].calls[i]].id]
          = [i \in DOMAIN defs[f].calls |-> w[defs[f].calls[i]].id]
    BY <2>1
  <2>3. \A h \in Callees(defs[f]) : v[h] = w[h]
    BY <1>1, SoundCalls
  <2>4. {{h} \cup v[h].below : h \in Callees(defs[f])}
          = {{h} \cup w[h].below : h \in Callees(defs[f])}
    BY <2>3
  <2> QED BY <1>1, <2>2, <2>4 DEF Both
<1>2. CASE f \notin DOMAIN defs
  BY <1>2 DEF Both
<1> QED BY <1>1, <1>2

Under(f) == {h \in Names : Level[h] <= Level[f]}

(* Two solutions agree where both are defined.                             *)
LEMMA SolutionsAgree ==
  ASSUME NEW defs, Sound(defs), NEW S \in SUBSET Names, NEW T \in SUBSET Names,
         NEW v, Unfolds(defs, S, v), NEW w, Unfolds(defs, T, w),
         NEW f \in Names, Under(f) \subseteq S, Under(f) \subseteq T
  PROVE  v[f] = w[f]
<1> SUFFICES ASSUME v[f] # w[f] PROVE FALSE
  OBVIOUS
<1> DEFINE Bad == {h \in Under(f) : v[h] # w[h]}
<1>1. \A h \in Names : Level[h] \in Nat
  BY LanguageAssumption DEF LanguageAssumption
<1>2. Bad \in SUBSET Names /\ f \in Bad
  BY <1>1 DEF Under
<1>3. PICK g \in Bad : \A h \in Bad : Level[g] <= Level[h]
  <2> HIDE DEF Bad
  <2> QED BY <1>2, LowestExists
<1>4. g \in Names /\ Level[g] <= Level[f] /\ g \in S /\ g \in T /\ v[g] # w[g]
  BY <1>3 DEF Under
<1>5. ASSUME NEW h \in Names, Level[h] < Level[g] PROVE v[h] = w[h]
  <2>1. Level[h] \in Nat /\ Level[g] \in Nat /\ Level[f] \in Nat
    BY <1>1, <1>4
  <2>2. Level[h] <= Level[f] /\ ~(Level[g] <= Level[h])
    BY <1>4, <1>5, <2>1
  <2>3. h \in Under(f)
    BY <2>2 DEF Under
  <2> QED BY <1>3, <2>2, <2>3
<1>6. v[g] = Both(defs, v, g) /\ w[g] = Both(defs, w, g)
  BY <1>4 DEF Unfolds
<1> QED BY <1>4, <1>5, <1>6, BothLooksDown

(* Solutions below each name make one for all of a set.                    *)
LEMMA SolutionGrows ==
  ASSUME NEW defs, Sound(defs), NEW S \in SUBSET Names,
         \A f \in S : \A h \in Names : Level[h] < Level[f] =>
           h \in S /\ \E v : Unfolds(defs, Under(h), v)
  PROVE  \E v : Unfolds(defs, S, v)
<1> DEFINE Sel(h) == CHOOSE v : Unfolds(defs, Under(h), v)
           low == [h \in Names |-> Sel(h)[h]]
           all == [f \in S |-> Both(defs, low, f)]
<1>1. \A h \in Names : Level[h] \in Nat
  BY LanguageAssumption DEF LanguageAssumption
<1>2. ASSUME NEW f \in S, NEW h \in Names, Level[h] < Level[f]
      PROVE  all[h] = low[h]
  <2>1. h \in S /\ Unfolds(defs, Under(h), Sel(h))
    BY <1>2
  <2>2. ASSUME NEW g \in Names, Level[g] < Level[h] PROVE low[g] = Sel(h)[g]
    <3>1. Level[g] \in Nat /\ Level[h] \in Nat /\ Level[f] \in Nat /\ Level[g] < Level[f]
      BY <1>1, <1>2, <2>2
    <3>2. Unfolds(defs, Under(g), Sel(g))
      BY <3>1
    <3>3. Under(g) \subseteq Under(h) /\ Under(g) \in SUBSET Names /\ Under(h) \in SUBSET Names
      <4>1. ASSUME NEW k \in Names, Level[k] <= Level[g] PROVE Level[k] <= Level[h]
        BY <1>1, <2>2, <3>1, <4>1
      <4> QED BY <4>1 DEF Under
    <3> DEFINE U == Under(g)
               V == Under(h)
               v == Sel(g)
               w == Sel(h)
    <3>4. /\ U \in SUBSET Names /\ V \in SUBSET Names
          /\ Under(g) \subseteq U /\ Under(g) \subseteq V
          /\ Unfolds(defs, U, v) /\ Unfolds(defs, V, w)
      BY <2>1, <3>2, <3>3
    <3> HIDE DEF U, V, v, w
    <3>5. v[g] = w[g]
      BY <3>4, SolutionsAgree
    <3> QED BY <3>5 DEF v, w
  <2>3. Both(defs, low, h) = Both(defs, Sel(h), h)
    <3> HIDE DEF low, Sel
    <3> QED BY <2>2, BothLooksDown
  <2>4. h \in Under(h)
    BY <1>1 DEF Under
  <2>5. Sel(h)[h] = Both(defs, Sel(h), h)
    <3> HIDE DEF Sel
    <3> QED BY <2>1, <2>4 DEF Unfolds
  <2>6. all[h] = Both(defs, low, h) /\ low[h] = Sel(h)[h]
    <3>1. all[h] = Both(defs, low, h)
      <4> HIDE DEF low
      <4> QED BY <2>1
    <3>2. low[h] = Sel(h)[h]
      <4> HIDE DEF Sel
      <4> QED OBVIOUS
    <3> QED BY <3>1, <3>2
  <2> HIDE DEF all, low, Sel
  <2> QED BY <2>3, <2>5, <2>6
<1>3. ASSUME NEW f \in S PROVE Both(defs, low, f) = Both(defs, all, f)
  <2>1. f \in Names /\ \A h \in Names : Level[h] < Level[f] => low[h] = all[h]
    <3> HIDE DEF all, low
    <3> QED BY <1>2
  <2> HIDE DEF all, low
  <2> QED BY <2>1, BothLooksDown
<1>4. all = [f \in S |-> Both(defs, all, f)]
  <2> DEFINE other == [f \in S |-> Both(defs, all, f)]
  <2> HIDE DEF low
  <2>1. all = [f \in S |-> Both(defs, low, f)]
    OBVIOUS
  <2> HIDE DEF all
  <2> QED BY <1>3, <2>1
<1> HIDE DEF all
<1> QED BY <1>4 DEF Unfolds

LEMMA SolutionExists ==
  ASSUME NEW defs, Sound(defs)
  PROVE  \E v : Unfolds(defs, Names, v)
<1> DEFINE Bad == {f \in Names : ~ \E v : Unfolds(defs, Under(f), v)}
<1>1. \A h \in Names : Level[h] \in Nat
  BY LanguageAssumption DEF LanguageAssumption
<1>2. Bad = {}
  <2> SUFFICES ASSUME Bad # {} PROVE FALSE
    OBVIOUS
  <2>1. PICK f \in Bad : \A g \in Bad : Level[f] <= Level[g]
    <3>1. Bad \in SUBSET Names
      OBVIOUS
    <3> HIDE DEF Bad
    <3> QED BY <3>1, LowestExists
  <2>2. f \in Names /\ ~ \E v : Unfolds(defs, Under(f), v)
    BY <2>1
  <2>3. ASSUME NEW g \in Under(f), NEW h \in Names, Level[h] < Level[g]
        PROVE  h \in Under(f) /\ \E v : Unfolds(defs, Under(h), v)
    <3>1. g \in Names /\ Level[g] <= Level[f]
      BY DEF Under
    <3>2. Level[h] <= Level[f] /\ ~(Level[f] <= Level[h])
      BY <1>1, <2>2, <2>3, <3>1
    <3>3. h \notin Bad
      <4> HIDE DEF Bad
      <4> QED BY <2>1, <3>2
    <3> QED BY <3>2, <3>3 DEF Under
  <2>4. Under(f) \in SUBSET Names
    BY DEF Under
  <2>5. \E v : Unfolds(defs, Under(f), v)
    <3> DEFINE S == Under(f)
    <3>1. \A g \in S : \A h \in Names : Level[h] < Level[g] =>
            h \in S /\ \E v : Unfolds(defs, Under(h), v)
      BY <2>3
    <3>2. S \in SUBSET Names
      BY <2>4
    <3> HIDE DEF S
    <3>3. \E v : Unfolds(defs, S, v)
      BY <3>1, <3>2, SolutionGrows
    <3> QED BY <3>3 DEF S
  <2> QED BY <2>2, <2>5
<1>3. \A f \in Names : \E v : Unfolds(defs, Under(f), v)
  BY <1>2
<1> QED BY <1>3, SolutionGrows
(* What CanonicalId and Reach compute, one call at a time.                 *)
LEMMA IdUnfolds ==
  ASSUME NEW defs, Sound(defs), NEW f \in Names
  PROVE  CanonicalId(defs, f) =
           IF f \in DOMAIN defs
           THEN [code |-> defs[f].code, draw |-> 0,
                 calls |-> [i \in DOMAIN defs[f].calls |-> CanonicalId(defs, defs[f].calls[i])]]
           ELSE Leaf(f)
<1> DEFINE Fits(tree) ==
             tree = [g \in Names |->
                       IF g \in DOMAIN defs
                       THEN [code |-> defs[g].code, draw |-> 0,
                             calls |-> [i \in DOMAIN defs[g].calls |-> tree[defs[g].calls[i]]]]
                       ELSE Leaf(g)]
           tree == CHOOSE t : Fits(t)
<1>1. PICK v : Unfolds(defs, Names, v)
  BY SolutionExists
<1>2. \E t : Fits(t)
  <2> DEFINE t == [g \in Names |-> v[g].id]
  <2>1. ASSUME NEW g \in Names
        PROVE  t[g] = IF g \in DOMAIN defs
                      THEN [code |-> defs[g].code, draw |-> 0,
                            calls |-> [i \in DOMAIN defs[g].calls |-> t[defs[g].calls[i]]]]
                      ELSE Leaf(g)
    <3>1. v[g] = Both(defs, v, g)
      BY <1>1 DEF Unfolds
    <3>2. ASSUME g \in DOMAIN defs
          PROVE  [i \in DOMAIN defs[g].calls |-> v[defs[g].calls[i]].id]
                   = [i \in DOMAIN defs[g].calls |-> t[defs[g].calls[i]]]
      BY <3>2, SoundCalls
    <3>3. t[g] = Both(defs, v, g).id
      BY <3>1
    <3> HIDE DEF t
    <3> QED BY <3>2, <3>3 DEF Both
  <2>2. Fits(t)
    <3>1. t = [g \in Names |-> t[g]]
      OBVIOUS
    <3> HIDE DEF t
    <3> QED BY <2>1, <3>1
  <2> HIDE DEF Fits, t
  <2> QED BY <2>2
<1>3. Fits(tree)
  <2> HIDE DEF Fits
  <2> QED BY <1>2
<1>4. \A g : CanonicalId(defs, g) = tree[g]
  BY DEF CanonicalId
<1> HIDE DEF tree
<1>5. tree[f] = IF f \in DOMAIN defs
               THEN [code |-> defs[f].code, draw |-> 0,
                     calls |-> [i \in DOMAIN defs[f].calls |-> tree[defs[f].calls[i]]]]
               ELSE Leaf(f)
  BY <1>3
<1> QED BY <1>4, <1>5

LEMMA ReachUnfolds ==
  ASSUME NEW defs, Sound(defs), NEW f \in Names
  PROVE  Reach(defs, f) =
           {f} \cup IF f \in DOMAIN defs THEN UNION {Reach(defs, h) : h \in Callees(defs[f])}
                    ELSE {}
<1> DEFINE Fits(below) ==
             below = [g \in Names |->
                        IF g \in DOMAIN defs
                        THEN UNION {{h} \cup below[h] : h \in Callees(defs[g])} ELSE {}]
           below == CHOOSE b : Fits(b)
<1>1. PICK v : Unfolds(defs, Names, v)
  BY SolutionExists
<1>2. \E b : Fits(b)
  <2> DEFINE b == [g \in Names |-> v[g].below]
  <2>1. ASSUME NEW g \in Names
        PROVE  b[g] = IF g \in DOMAIN defs
                      THEN UNION {{h} \cup b[h] : h \in Callees(defs[g])} ELSE {}
    <3>1. v[g] = Both(defs, v, g)
      BY <1>1 DEF Unfolds
    <3>2. ASSUME g \in DOMAIN defs
          PROVE  {{h} \cup v[h].below : h \in Callees(defs[g])}
                   = {{h} \cup b[h] : h \in Callees(defs[g])}
      <4>1. \A h \in Callees(defs[g]) : b[h] = v[h].below
        BY <3>2, SoundCalls
      <4> HIDE DEF b
      <4> QED BY <4>1
    <3>3. b[g] = Both(defs, v, g).below
      BY <3>1
    <3> HIDE DEF b
    <3> QED BY <3>2, <3>3 DEF Both
  <2>2. Fits(b)
    <3>1. b = [g \in Names |-> b[g]]
      OBVIOUS
    <3> HIDE DEF b
    <3> QED BY <2>1, <3>1
  <2> HIDE DEF Fits, b
  <2> QED BY <2>2
<1>3. Fits(below)
  <2> HIDE DEF Fits
  <2> QED BY <1>2
<1>4. \A g : Reach(defs, g) = {g} \cup below[g]
  BY DEF Reach
<1> HIDE DEF below
<1>5. below[f] = IF f \in DOMAIN defs
                THEN UNION {{h} \cup below[h] : h \in Callees(defs[f])} ELSE {}
  BY <1>3
<1>6. {{h} \cup below[h] : h \in Callees(defs[f])} = {Reach(defs, h) : h \in Callees(defs[f])}
  BY <1>4
<1> QED BY <1>4, <1>5, <1>6

(* What f reaches calls only what f reaches.                               *)
LEMMA ReachCloses ==
  ASSUME NEW defs, Sound(defs), NEW f \in Names,
         NEW g \in Reach(defs, f), g \in DOMAIN defs, NEW h \in Callees(defs[g])
  PROVE  h \in Reach(defs, f)
<1> DEFINE Bad == {k \in Names : g \in Reach(defs, k) /\ h \notin Reach(defs, k)}
<1> SUFFICES ASSUME f \in Bad PROVE FALSE
  OBVIOUS
<1>1. PICK k \in Bad : \A j \in Bad : Level[k] <= Level[j]
  <2>1. Bad \in SUBSET Names /\ Bad # {}
    OBVIOUS
  <2> HIDE DEF Bad
  <2> QED BY <2>1, LowestExists
<1>2. k \in Names /\ g \in Reach(defs, k) /\ h \notin Reach(defs, k)
  BY <1>1
<1>3. Reach(defs, k) =
        {k} \cup IF k \in DOMAIN defs THEN UNION {Reach(defs, j) : j \in Callees(defs[k])}
                 ELSE {}
  BY <1>2, ReachUnfolds
<1>4. CASE g = k
  <2>1. h \in Names
    BY SoundCalls
  <2>2. h \in Reach(defs, h)
    BY DEF Reach
  <2> QED BY <1>2, <1>3, <1>4, <2>2
<1>5. CASE g # k
  <2>1. k \in DOMAIN defs
    BY <1>2, <1>3, <1>5
  <2>2. PICK j \in Callees(defs[k]) : g \in Reach(defs, j)
    BY <1>2, <1>3, <1>5
  <2>3. j \in Names /\ Level[j] < Level[k]
    BY <2>1, SoundCalls
  <2>4. Level[j] \in Nat /\ Level[k] \in Nat
    BY <1>2, <2>3, LanguageAssumption DEF LanguageAssumption
  <2>5. j \notin Bad
    <3> HIDE DEF Bad
    <3> QED BY <1>1, <2>3, <2>4
  <2>6. h \in Reach(defs, j)
    BY <2>2, <2>3, <2>5
  <2> QED BY <1>2, <1>3, <2>1, <2>6
<1> QED BY <1>4, <1>5

(* A call of f ends with a result; with one that draws no random numbers.  *)
Runs(defs, f) == \A g \in Reach(defs, f) : g \in DOMAIN defs /\ defs[g].code \notin Free

LEMMA RunsUnfolds ==
  ASSUME NEW defs, Sound(defs), NEW f \in DOMAIN defs
  PROVE  /\ Runs(defs, f) <=> defs[f].code \notin Free /\ \A h \in Callees(defs[f]) : Runs(defs, h)
         /\ CheckTransitiveImpurity(defs, f) <=>
              /\ defs[f].code \notin Impure
              /\ \A h \in Callees(defs[f]) : CheckTransitiveImpurity(defs, h)
<1>1. f \in Names
  BY SoundCalls
<1>2. Reach(defs, f) = {f} \cup UNION {Reach(defs, h) : h \in Callees(defs[f])}
  BY <1>1, ReachUnfolds
<1> QED BY <1>2 DEF Runs, CheckTransitiveImpurity

(* One id stands for functions that do the same, in any tables.            *)
LEMMA SameId ==
  ASSUME NEW d1, Sound(d1), NEW d2, Sound(d2), NEW f1 \in Names, NEW f2 \in Names,
         CanonicalId(d1, f1) = CanonicalId(d2, f2), Runs(d1, f1)
  PROVE  /\ Runs(d2, f2)
         /\ CheckTransitiveImpurity(d2, f2) => CheckTransitiveImpurity(d1, f1)
<1> DEFINE Alike(f, g) == /\ Runs(d2, g)
                          /\ CheckTransitiveImpurity(d2, g) => CheckTransitiveImpurity(d1, f)
           Bad == {f \in Names : \E g \in Names :
                     CanonicalId(d1, f) = CanonicalId(d2, g) /\ Runs(d1, f) /\ ~Alike(f, g)}
<1> SUFFICES ASSUME f1 \in Bad PROVE FALSE
  OBVIOUS
<1>1. PICK f \in Bad : \A j \in Bad : Level[f] <= Level[j]
  <2>1. Bad \in SUBSET Names /\ Bad # {}
    OBVIOUS
  <2> HIDE DEF Bad
  <2> QED BY <2>1, LowestExists
<1>2. PICK g \in Names : CanonicalId(d1, f) = CanonicalId(d2, g) /\ Runs(d1, f) /\ ~Alike(f, g)
  BY <1>1
<1>3. f \in Names /\ f \in DOMAIN d1
  <2>1. f \in Reach(d1, f)
    BY DEF Reach
  <2> QED BY <1>1, <1>2, <2>1 DEF Runs
<1>4. CanonicalId(d1, f) =
        [code |-> d1[f].code, draw |-> 0,
         calls |-> [i \in DOMAIN d1[f].calls |-> CanonicalId(d1, d1[f].calls[i])]]
  BY <1>3, IdUnfolds
<1>5. g \in DOMAIN d2
  <2> SUFFICES ASSUME g \notin DOMAIN d2 PROVE FALSE
    OBVIOUS
  <2>1. CanonicalId(d2, g) = Leaf(g)
    BY IdUnfolds
  <2>2. CanonicalId(d1, f).code = d1[f].code
    BY <1>4
  <2>3. CanonicalId(d2, g).code = g
    BY <2>1 DEF Leaf
  <2> QED BY <1>2, <1>3, <2>2, <2>3, SoundCalls
<1>6. CanonicalId(d2, g) =
        [code |-> d2[g].code, draw |-> 0,
         calls |-> [i \in DOMAIN d2[g].calls |-> CanonicalId(d2, d2[g].calls[i])]]
  BY <1>5, IdUnfolds
<1>7. /\ d1[f].code = d2[g].code
      /\ [i \in DOMAIN d1[f].calls |-> CanonicalId(d1, d1[f].calls[i])]
           = [i \in DOMAIN d2[g].calls |-> CanonicalId(d2, d2[g].calls[i])]
  <2> DEFINE c1 == [i \in DOMAIN d1[f].calls |-> CanonicalId(d1, d1[f].calls[i])]
             c2 == [i \in DOMAIN d2[g].calls |-> CanonicalId(d2, d2[g].calls[i])]
  <2> HIDE DEF c1, c2
  <2>1. CanonicalId(d1, f) = [code |-> d1[f].code, draw |-> 0, calls |-> c1]
    BY <1>4 DEF c1
  <2>2. CanonicalId(d2, g) = [code |-> d2[g].code, draw |-> 0, calls |-> c2]
    BY <1>6 DEF c2
  <2>3. d1[f].code = d2[g].code /\ c1 = c2
    <3>1. CanonicalId(d1, f).code = d1[f].code /\ CanonicalId(d1, f).calls = c1
      BY <2>1
    <3>2. CanonicalId(d2, g).code = d2[g].code /\ CanonicalId(d2, g).calls = c2
      BY <2>2
    <3> QED BY <1>2, <3>1, <3>2
  <2> QED BY <2>3 DEF c1, c2
<1>8. /\ DOMAIN d1[f].calls = DOMAIN d2[g].calls
      /\ \A i \in DOMAIN d1[f].calls :
           CanonicalId(d1, d1[f].calls[i]) = CanonicalId(d2, d2[g].calls[i])
  BY <1>7
<1>9. ASSUME NEW i \in DOMAIN d1[f].calls PROVE Alike(d1[f].calls[i], d2[g].calls[i])
  <2>1. /\ d1[f].calls[i] \in Names /\ d2[g].calls[i] \in Names
        /\ Level[d1[f].calls[i]] < Level[f] /\ d1[f].calls[i] \in Callees(d1[f])
    BY <1>3, <1>5, <1>8, SoundCalls
  <2>2. Level[d1[f].calls[i]] \in Nat /\ Level[f] \in Nat
    BY <1>3, <2>1, LanguageAssumption DEF LanguageAssumption
  <2>3. d1[f].calls[i] \notin Bad
    <3> HIDE DEF Bad
    <3> QED BY <1>1, <2>1, <2>2
  <2>4. Runs(d1, d1[f].calls[i])
    BY <1>2, <1>3, <2>1, RunsUnfolds
  <2> HIDE DEF Alike
  <2> QED BY <1>8, <2>1, <2>3, <2>4
<1>10. Runs(d2, g)
  <2>1. d2[g].code \notin Free
    BY <1>2, <1>3, <1>7, RunsUnfolds
  <2>2. \A h \in Callees(d2[g]) : Runs(d2, h)
    BY <1>8, <1>9 DEF Callees
  <2> QED BY <1>5, <2>1, <2>2, RunsUnfolds
<1>11. ASSUME CheckTransitiveImpurity(d2, g) PROVE CheckTransitiveImpurity(d1, f)
  <2>1. d2[g].code \notin Impure /\ \A h \in Callees(d2[g]) : CheckTransitiveImpurity(d2, h)
    BY <1>5, <1>11, RunsUnfolds
  <2>2. ASSUME NEW i \in DOMAIN d1[f].calls PROVE CheckTransitiveImpurity(d1, d1[f].calls[i])
    <3>1. d2[g].calls[i] \in Callees(d2[g])
      BY <1>8 DEF Callees
    <3> QED BY <1>9, <2>1, <3>1
  <2>3. \A h \in Callees(d1[f]) : CheckTransitiveImpurity(d1, h)
    BY <2>2 DEF Callees
  <2> QED BY <1>3, <1>7, <2>1, <2>3, RunsUnfolds
<1> QED BY <1>2, <1>10, <1>11

-----------------------------------------------------------------------------
(* Transparency.  The ids that a process remembers are those of its        *)
(* present definitions.                                                    *)
FreshIds(q) ==
  \A f \in DOMAIN memo[q] \cap DOMAIN fns[q] : memo[q][f] = CanonicalId(fns[q], f)

IdsFresh == \A q \in Processes : FreshIds(q)

(* No load of a file changes what a remembered id stands for.              *)
LoadsKeepIds ==
  \A p \in Processes : \A file \in Files : CacheAddFile(p, file) => FreshIds(p)'

Sounds == \A q \in Processes : Sound(fns[q])

(* What a call of f answers if it is right.                                *)
Right(defs, f, value) ==
  Runs(defs, f) /\ (CheckTransitiveImpurity(defs, f) => value = CanonicalId(defs, f))

(* A row is right for every function that has its id, whoever defines it.  *)
RowsRight ==
  \A defs : Sound(defs) =>
    \A f \in DOMAIN defs :
      CanonicalId(defs, f) \in DOMAIN store => Right(defs, f, store[CanonicalId(defs, f)])

(* A call in progress runs its present definition, is reached from the     *)
(* call at the bottom, and has right results from its callees.             *)
CallRight(defs, bottom, c) ==
  /\ c.fn \in DOMAIN defs /\ c.body = defs[c.fn]
  /\ c.fn \in Reach(defs, bottom)
  /\ c.key \in {NoKey, CanonicalId(defs, c.fn)}
  /\ \A j \in 1..Len(c.results) : Right(defs, c.body.calls[j], c.results[j])

StackRight(defs, s) == \A i \in 1..Len(s) : CallRight(defs, s[1].fn, s[i])

CallsRight == \A q \in Processes : StackRight(fns[q], stack[q])

TInv == Typed /\ Sounds /\ IdsFresh /\ RowsRight /\ CallsRight

-----------------------------------------------------------------------------
LEMMA InstallsSound ==
  ASSUME NEW defs, Sound(defs), NEW new \in Seq(AllDefinitions)
  PROVE  Sound(Install(defs, new))
<1> SUFFICES ASSUME NEW f \in DOMAIN Install(defs, new)
             PROVE  f \in Names /\ \E d \in AllDefinitions : /\ d.name = f
                                                             /\ Install(defs, new)[f] = d.body
  BY DEF Sound
<1>1. CASE f \in DOMAIN defs /\ Install(defs, new)[f] = defs[f]
  BY <1>1 DEF Sound
<1>2. ASSUME NEW i \in DOMAIN new, new[i].name = f, Install(defs, new)[f] = new[i].body
      PROVE  f \in Names /\ \E d \in AllDefinitions : /\ d.name = f
                                                      /\ Install(defs, new)[f] = d.body
  <2>1. new[i] \in AllDefinitions
    OBVIOUS
  <2> HIDE DEF Install
  <2> QED BY <1>2, <2>1, LanguageAssumption DEF LanguageAssumption
<1> QED BY <1>1, <1>2, Installed

LEMMA EmptySound == Sound(Empty)
<1>1. DOMAIN Empty = {}
  BY EmptyTable
<1> HIDE DEF Empty
<1> QED BY <1>1 DEF Sound

LEMMA OneTable ==
  ASSUME NEW p \in Processes, PerProcess(fns), Sounds, NEW table, Sound(table),
         fns' = [fns EXCEPT ![p] = table]
  PROVE  Sounds'
<1> SUFFICES ASSUME NEW q \in Processes PROVE Sound(fns'[q])
  BY DEF Sounds
<1>1. fns'[q] = table \/ fns'[q] = fns[q]
  BY DEF PerProcess
<1> QED BY <1>1 DEF Sounds

LEMMA SoundsStay ==
  ASSUME TInv, [Next]_vars
  PROVE  Sounds'
<1>1. PerProcess(fns) /\ Sounds
  BY DEF TInv, Typed, ScopeTyped, KeptShape, Shape
<1>2. ASSUME UNCHANGED fns PROVE Sounds'
  BY <1>1, <1>2 DEF Sounds
<1>3. ASSUME NEW p \in Processes, NEW d \in Definitions, FunctionDef(p, d) PROVE Sounds'
  <2> DEFINE new == <<d>>
  <2>1. fns' = [fns EXCEPT ![p] = Install(fns[p], new)]
    BY <1>3 DEF FunctionDef
  <2>2. d \in AllDefinitions
    BY DEF AllDefinitions
  <2>3. new \in Seq(AllDefinitions)
    BY <2>2
  <2> HIDE DEF new
  <2>4. Sound(Install(fns[p], new))
    BY <1>1, <2>3, InstallsSound DEF Sounds
  <2> QED BY <1>1, <2>1, <2>4, OneTable
<1>4. ASSUME NEW p \in Processes, NEW file \in Files, CacheAddFile(p, file) PROVE Sounds'
  <2> DEFINE siblings == {file[i].name : i \in DOMAIN file}
             bad == {i \in DOMAIN file : ~CheckFreeVars(file[i].body, siblings)}
             upTo == IF bad = {} THEN Len(file)
                     ELSE (CHOOSE i \in bad : \A j \in bad : i <= j) - 1
             taken == SubSeq(file, 1, upTo)
  <2>1. fns' = [fns EXCEPT ![p] = Install(fns[p], taken)]
    BY <1>4 DEF CacheAddFile
  <2>2. bad \in SUBSET DOMAIN file
    OBVIOUS
  <2> HIDE DEF bad
  <2>3. taken \in Seq(AllDefinitions)
    BY <2>2, FilePart
  <2> HIDE DEF taken
  <2>4. Sound(Install(fns[p], taken))
    BY <1>1, <2>3, InstallsSound DEF Sounds
  <2> QED BY <1>1, <2>1, <2>4, OneTable
<1>5. ASSUME NEW p \in Processes, CacheStatement(p) PROVE Sounds'
  <2>1. UNCHANGED fns \/ \E file \in Files : CacheAddFile(p, file)
    BY <1>5 DEF CacheStatement, CacheEnable, CacheOff, CacheList, CacheAddFunctions,
                CacheRemoveFunction
  <2> QED BY <1>2, <1>4, <2>1
<1>6. ASSUME NEW p \in Processes, Call(p) PROVE Sounds'
  BY <1>2, <1>6 DEF Call, Hit, Miss, Return, Fail, Interrupt
<1>7. ASSUME NEW p \in Processes, ClearVars(p) \/ Exit(p) PROVE Sounds'
  <2>1. fns' = [fns EXCEPT ![p] = Empty]
    BY <1>7 DEF ClearVars, Exit
  <2> HIDE DEF Empty
  <2> QED BY <1>1, <2>1, EmptySound, OneTable
<1>8. ASSUME NEW ids \in SUBSET DOMAIN store, CachePrune(ids) PROVE Sounds'
  BY <1>2, <1>8 DEF CachePrune
<1>9. CASE UNCHANGED vars
  BY <1>2, <1>9 DEF vars
<1> QED BY <1>3, <1>5, <1>6, <1>7, <1>8, <1>9 DEF Next

-----------------------------------------------------------------------------
(* Only a load of a file leaves an id behind that is out of date.          *)
LEMMA FreshEntry ==
  ASSUME NEW p \in Processes, IdsFresh, NEW f \in DOMAIN fns[p]
  PROVE  EntryId(p, f) = CanonicalId(fns[p], f)
BY DEF IdsFresh, FreshIds, EntryId

LEMMA OneFresh ==
  ASSUME NEW p \in Processes, IdsFresh, FreshIds(p)',
         \A q \in Processes \ {p} : fns'[q] = fns[q] /\ memo'[q] = memo[q]
  PROVE  IdsFresh'
<1> SUFFICES ASSUME NEW q \in Processes, q # p PROVE FreshIds(q)'
  BY DEF IdsFresh
<1> QED BY DEF IdsFresh, FreshIds

LEMMA RememberedFresh ==
  ASSUME NEW p \in Processes, NEW f \in DOMAIN fns[p], PerProcess(memo), IdsFresh,
         RememberId(p, f), fns' = fns
  PROVE  IdsFresh'
<1>1. CASE memo' = memo
  BY <1>1 DEF IdsFresh, FreshIds
<1>2. CASE memo' # memo
  <2> DEFINE table == [g \in DOMAIN memo[p] \cup {f} |->
                         IF g = f THEN EntryId(p, f) ELSE memo[p][g]]
  <2>1. memo' = [memo EXCEPT ![p] = table]
    BY <1>2 DEF RememberId
  <2>2. \A g \in DOMAIN table \cap DOMAIN fns[p] : table[g] = CanonicalId(fns[p], g)
    <3>1. EntryId(p, f) = CanonicalId(fns[p], f)
      BY FreshEntry
    <3> QED BY <3>1 DEF IdsFresh, FreshIds
  <2> HIDE DEF table
  <2>3. memo'[p] = table /\ \A q \in Processes \ {p} : memo'[q] = memo[q]
    BY <2>1 DEF PerProcess
  <2>4. FreshIds(p)'
    BY <2>2, <2>3 DEF FreshIds
  <2> QED BY <2>3, <2>4, OneFresh
<1> QED BY <1>1, <1>2

LEMMA IdsStay ==
  ASSUME TInv, [Next]_vars, [LoadsKeepIds]_vars
  PROVE  IdsFresh'
<1>1. PerProcess(fns) /\ PerProcess(memo) /\ IdsFresh
  BY DEF TInv, Typed, ScopeTyped, MemoTyped, KeptShape, Shape
<1>2. ASSUME UNCHANGED <<fns, memo>> PROVE IdsFresh'
  BY <1>1, <1>2 DEF IdsFresh, FreshIds
<1>3. ASSUME NEW p \in Processes, ForgetIds(p), NEW table, fns' = [fns EXCEPT ![p] = table]
      PROVE  IdsFresh'
  <2>1. memo'[p] = Empty /\ \A q \in Processes \ {p} : fns'[q] = fns[q] /\ memo'[q] = memo[q]
    BY <1>1, <1>3 DEF ForgetIds, PerProcess
  <2> HIDE DEF Empty
  <2>2. FreshIds(p)'
    BY <2>1, EmptyTable DEF FreshIds
  <2> QED BY <1>1, <2>1, <2>2, OneFresh
<1>4. ASSUME NEW p \in Processes, NEW d \in Definitions, FunctionDef(p, d) PROVE IdsFresh'
  BY <1>3, <1>4 DEF FunctionDef
<1>5. ASSUME NEW p \in Processes, CacheStatement(p) PROVE IdsFresh'
  <2>1. CASE CacheList(p)
    <3> DEFINE table == [f \in DOMAIN memo[p] \cup DOMAIN fns[p] |->
                   IF f \in DOMAIN memo[p] THEN memo[p][f] ELSE CanonicalId(fns[p], f)]
    <3>1. memo' = [memo EXCEPT ![p] = table] /\ fns' = fns
      BY <2>1 DEF CacheList
    <3>2. \A g \in DOMAIN table \cap DOMAIN fns[p] : table[g] = CanonicalId(fns[p], g)
      BY <1>1 DEF IdsFresh, FreshIds
    <3> HIDE DEF table
    <3>3. memo'[p] = table /\ \A q \in Processes \ {p} : memo'[q] = memo[q]
      BY <1>1, <3>1 DEF PerProcess
    <3>4. FreshIds(p)'
      BY <3>1, <3>2, <3>3 DEF FreshIds
    <3> QED BY <1>1, <3>1, <3>3, <3>4, OneFresh
  <2>2. ASSUME NEW file \in Files, CacheAddFile(p, file) PROVE IdsFresh'
    <3>1. \E table : fns' = [fns EXCEPT ![p] = table]
      BY <2>2 DEF CacheAddFile
    <3>2. memo' = memo
      BY <2>2 DEF CacheAddFile
    <3>3. CASE UNCHANGED vars
      BY <1>2, <3>3 DEF vars
    <3>4. CASE LoadsKeepIds
      <4>1. FreshIds(p)'
        BY <2>2, <3>4 DEF LoadsKeepIds
      <4>2. \A q \in Processes \ {p} : fns'[q] = fns[q] /\ memo'[q] = memo[q]
        BY <1>1, <3>1, <3>2 DEF PerProcess
      <4> QED BY <1>1, <4>1, <4>2, OneFresh
    <3> QED BY <3>3, <3>4
  <2>3. ASSUME CacheEnable(p) \/ CacheOff(p) \/ (\E f : CacheRemoveFunction(p, f))
               \/ (\E names : CacheAddFunctions(p, names))
        PROVE  IdsFresh'
    <3>1. UNCHANGED <<fns, memo>>
      BY <2>3 DEF CacheEnable, CacheOff, CacheAddFunctions, CacheRemoveFunction
    <3> QED BY <1>2, <3>1
  <2> QED BY <1>5, <2>1, <2>2, <2>3 DEF CacheStatement
<1>6. ASSUME NEW p \in Processes, Call(p) PROVE IdsFresh'
  <2>1. fns' = fns /\ (memo' = memo \/ \E f \in DOMAIN fns[p] : RememberId(p, f))
    BY <1>6 DEF Call, Hit, Miss, Return, Fail, Interrupt
  <2> QED BY <1>1, <1>2, <2>1, RememberedFresh
<1>7. ASSUME NEW p \in Processes, ClearVars(p) PROVE IdsFresh'
  <2>1. fns'[p] = Empty /\ memo' = memo /\ \A q \in Processes \ {p} : fns'[q] = fns[q]
    BY <1>1, <1>7 DEF ClearVars, PerProcess
  <2> HIDE DEF Empty
  <2>2. FreshIds(p)'
    BY <2>1, EmptyTable DEF FreshIds
  <2> QED BY <1>1, <2>1, <2>2, OneFresh
<1>8. ASSUME NEW p \in Processes, Exit(p) PROVE IdsFresh'
  BY <1>3, <1>8 DEF Exit, ForgetIds
<1>9. ASSUME NEW ids \in SUBSET DOMAIN store, CachePrune(ids) PROVE IdsFresh'
  BY <1>2, <1>9 DEF CachePrune
<1>10. CASE UNCHANGED vars
  BY <1>2, <1>10 DEF vars
<1> QED BY <1>4, <1>5, <1>6, <1>7, <1>8, <1>9, <1>10 DEF Next

-----------------------------------------------------------------------------
(* A call that ran all its callees has the right result.                   *)
LEMMA ResultRight ==
  ASSUME NEW defs, Sound(defs), NEW bottom, NEW c, Frame(c), CallRight(defs, bottom, c),
         Len(c.results) = Len(c.body.calls), c.body.code \notin Free,
         NEW draw, c.body.code \notin Impure => draw = 0
  PROVE  Right(defs, c.fn, [code |-> c.body.code, draw |-> draw, calls |-> c.results])
<1>1. /\ c.fn \in DOMAIN defs /\ c.body = defs[c.fn] /\ c.fn \in Names
      /\ c.body.calls \in Seq(Names)
  BY SoundCalls DEF CallRight
<1>2. PICK n \in Nat : n = Len(c.body.calls) /\ DOMAIN c.body.calls = 1..n
  BY <1>1
<1>3. DOMAIN c.results = 1..n /\ c.results = [i \in 1..n |-> c.results[i]]
  BY <1>2 DEF Frame, IsSeq
<1>4. \A i \in 1..n : Right(defs, c.body.calls[i], c.results[i])
  BY <1>2 DEF CallRight
<1>5. \A h \in Callees(defs[c.fn]) : \E i \in 1..n : h = c.body.calls[i]
  BY <1>1, <1>2 DEF Callees
<1>6. Runs(defs, c.fn)
  <2>1. \A h \in Callees(defs[c.fn]) : Runs(defs, h)
    BY <1>4, <1>5 DEF Right
  <2> QED BY <1>1, <2>1, RunsUnfolds
<1>7. ASSUME CheckTransitiveImpurity(defs, c.fn)
      PROVE  [code |-> c.body.code, draw |-> draw, calls |-> c.results]
               = CanonicalId(defs, c.fn)
  <2>1. /\ c.body.code \notin Impure
        /\ \A h \in Callees(defs[c.fn]) : CheckTransitiveImpurity(defs, h)
    BY <1>1, <1>7, RunsUnfolds
  <2>2. \A i \in 1..n : c.results[i] = CanonicalId(defs, c.body.calls[i])
    <3>1. \A i \in 1..n : c.body.calls[i] \in Callees(defs[c.fn])
      BY <1>1, <1>2 DEF Callees
    <3> QED BY <1>4, <2>1, <3>1 DEF Right
  <2>3. c.results = [i \in 1..n |-> CanonicalId(defs, c.body.calls[i])]
    BY <1>3, <2>2
  <2>4. CanonicalId(defs, c.fn) =
          [code |-> defs[c.fn].code, draw |-> 0,
           calls |-> [i \in DOMAIN defs[c.fn].calls |-> CanonicalId(defs, defs[c.fn].calls[i])]]
    BY <1>1, IdUnfolds
  <2> QED BY <1>1, <1>2, <2>1, <2>3, <2>4
<1> QED BY <1>6, <1>7 DEF Right

(* It may be stored under its id.                                          *)
LEMMA RowStored ==
  ASSUME NEW defs, Sound(defs), NEW f \in DOMAIN defs, NEW value, Right(defs, f, value),
         RowsRight, Put(CanonicalId(defs, f), value)
  PROVE  RowsRight'
<1> SUFFICES ASSUME NEW other, Sound(other), NEW g \in DOMAIN other,
                    CanonicalId(other, g) \in DOMAIN store'
             PROVE  Right(other, g, store'[CanonicalId(other, g)])
  BY DEF RowsRight
<1> DEFINE k == CanonicalId(defs, f)
           id == CanonicalId(other, g)
<1>1. CASE store' = store
  BY <1>1 DEF RowsRight
<1>2. CASE store' = [j \in DOMAIN store \cup {k} |-> IF j \in DOMAIN store THEN store[j] ELSE value]
  <2>1. id \in DOMAIN store' /\ (id \in DOMAIN store => Right(other, g, store[id]))
    BY DEF RowsRight
  <2> HIDE DEF id, k
  <2>2. CASE id \in DOMAIN store
    <3>1. store'[id] = store[id]
      BY <1>2, <2>2
    <3> QED BY <2>1, <2>2, <3>1 DEF id
  <2>3. CASE id \notin DOMAIN store
    <3>1. id = k /\ store'[id] = value
      BY <1>2, <2>1, <2>3
    <3>2. f \in Names /\ g \in Names
      BY DEF Sound
    <3>3. Runs(other, g) /\ (CheckTransitiveImpurity(other, g) => CheckTransitiveImpurity(defs, f))
      BY <3>1, <3>2, SameId DEF Right, id, k
    <3> QED BY <3>1, <3>3 DEF Right, id, k
  <2> QED BY <2>2, <2>3
<1> QED BY <1>1, <1>2 DEF Put

LEMMA InnermostFrame ==
  ASSUME NEW p \in Processes, TInv, stack[p] # <<>>
  PROVE  /\ Frame(Top(p)) /\ CallRight(fns[p], stack[p][1].fn, Top(p))
         /\ stack[p][1].fn \in DOMAIN fns[p] /\ Sound(fns[p])
<1>1. Stacked(stack[p]) /\ CallsTyped
  BY DEF TInv, Typed, CallsTyped
<1>2. Len(stack[p]) \in Nat /\ Len(stack[p]) # 0
  <2>1. IsSeq(stack[p]) /\ Len(stack[p]) \in Nat
    BY <1>1, SeqAppend DEF Stacked
  <2> QED BY <2>1 DEF IsSeq
<1>3. Len(stack[p]) \in 1..Len(stack[p]) /\ 1 \in 1..Len(stack[p])
  BY <1>2
<1>4. CallRight(fns[p], stack[p][1].fn, Top(p)) /\ CallRight(fns[p], stack[p][1].fn, stack[p][1])
  BY <1>3 DEF TInv, CallsRight, StackRight, Top
<1>5. Frame(Top(p))
  BY <1>1, TopFrame
<1> QED BY <1>4, <1>5 DEF CallRight, TInv, Sounds

LEMMA ReturnRight ==
  ASSUME NEW p \in Processes, TInv, Return(p)
  PROVE  \E value : /\ Right(fns[p], Top(p).fn, value)
                    /\ Deliver(p, SubSeq(stack[p], 1, Len(stack[p]) - 1), Top(p).fn, value)
                    /\ UNCHANGED store \/ (Top(p).key # NoKey /\ Put(Top(p).key, value))
<1> DEFINE impure == ~CheckImpurity(Top(p).body)
           draw == IF impure THEN draws + 1 ELSE 0
           value == [code |-> Top(p).body.code, draw |-> draw, calls |-> Top(p).results]
<1>1. /\ stack[p] # <<>> /\ Len(Top(p).results) = Len(Top(p).body.calls)
      /\ Top(p).body.code \notin Free
      /\ IF Top(p).key = NoKey THEN UNCHANGED store ELSE Put(Top(p).key, value)
      /\ Deliver(p, SubSeq(stack[p], 1, Len(stack[p]) - 1), Top(p).fn, value)
  BY DEF Return
<1>2. Top(p).body.code \notin Impure => draw = 0
  BY DEF CheckImpurity
<1> HIDE DEF draw
<1>3. Right(fns[p], Top(p).fn, value)
  <2> DEFINE c == Top(p)
  <2>1. Frame(c) /\ CallRight(fns[p], stack[p][1].fn, c) /\ Sound(fns[p])
    BY <1>1, InnermostFrame
  <2>2. /\ Len(c.results) = Len(c.body.calls) /\ c.body.code \notin Free
        /\ c.body.code \notin Impure => draw = 0
    BY <1>1, <1>2
  <2> HIDE DEF c
  <2>3. Right(fns[p], c.fn, [code |-> c.body.code, draw |-> draw, calls |-> c.results])
    BY <2>1, <2>2, ResultRight
  <2> QED BY <2>3 DEF c
<1> HIDE DEF value
<1> QED BY <1>1, <1>3

LEMMA RowsStay ==
  ASSUME TInv, [Next]_vars
  PROVE  RowsRight'
<1>1. RowsRight
  BY DEF TInv
<1>2. ASSUME UNCHANGED store PROVE RowsRight'
  BY <1>1, <1>2 DEF RowsRight
<1>3. ASSUME NEW p \in Processes, Return(p) PROVE RowsRight'
  <2>1. PICK value : /\ Right(fns[p], Top(p).fn, value)
                     /\ UNCHANGED store \/ (Top(p).key # NoKey /\ Put(Top(p).key, value))
    BY <1>3, ReturnRight
  <2>2. CallRight(fns[p], stack[p][1].fn, Top(p)) /\ Sound(fns[p])
    BY <1>3, InnermostFrame DEF Return
  <2>3. CASE Top(p).key # NoKey /\ Put(Top(p).key, value)
    <3>1. Top(p).key = CanonicalId(fns[p], Top(p).fn) /\ Top(p).fn \in DOMAIN fns[p]
      BY <2>2, <2>3 DEF CallRight
    <3> QED BY <1>1, <2>1, <2>2, <2>3, <3>1, RowStored
  <2> QED BY <1>2, <2>1, <2>3
<1>4. ASSUME NEW p \in Processes, Call(p) PROVE RowsRight'
  BY <1>2, <1>3, <1>4 DEF Call, Hit, Miss, Fail, Interrupt
<1>5. ASSUME NEW ids \in SUBSET DOMAIN store, CachePrune(ids) PROVE RowsRight'
  <2>1. DOMAIN store' \subseteq DOMAIN store /\ \A k \in DOMAIN store' : store'[k] = store[k]
    BY <1>5 DEF CachePrune
  <2> QED BY <1>1, <2>1 DEF RowsRight
<1>6. ASSUME NEW p \in Processes, CacheStatement(p) \/ ClearVars(p) \/ Exit(p) PROVE RowsRight'
  <2>1. UNCHANGED store
    BY <1>6 DEF CacheStatement, CacheEnable, CacheOff, CacheList, CacheAddFile,
                CacheAddFunctions, CacheRemoveFunction, ClearVars, Exit
  <2> QED BY <1>2, <2>1
<1>7. ASSUME NEW p \in Processes, NEW d \in Definitions, FunctionDef(p, d) PROVE RowsRight'
  BY <1>2, <1>7 DEF FunctionDef
<1>8. CASE UNCHANGED vars
  BY <1>2, <1>8 DEF vars
<1> QED BY <1>4, <1>5, <1>6, <1>7, <1>8 DEF Next

-----------------------------------------------------------------------------
(* Stacks of right calls.                                                  *)
LEMMA PushRight ==
  ASSUME NEW defs, NEW s, IsSeq(s), StackRight(defs, s), NEW c,
         CallRight(defs, IF s = <<>> THEN c.fn ELSE s[1].fn, c)
  PROVE  StackRight(defs, Append(s, c))
<1>1. PICK r : r = Append(s, c)
  OBVIOUS
<1>2. PICK n \in Nat : n = Len(s)
  BY SeqAppend
<1>3. /\ Len(r) = n + 1 /\ r[n + 1] = c
      /\ \A i \in 1..n : r[i] = s[i]
  BY <1>1, <1>2, SeqAppend
<1>4. s = <<>> <=> n = 0
  BY <1>2 DEF IsSeq
<1>5. r[1].fn = IF s = <<>> THEN c.fn ELSE s[1].fn
  <2>1. CASE n = 0
    <3>1. r[1] = c
      BY <1>3, <2>1
    <3> QED BY <1>4, <2>1, <3>1
  <2>2. CASE n # 0
    <3>1. 1 \in 1..n
      BY <2>2
    <3> QED BY <1>3, <1>4, <2>2, <3>1
  <2> QED BY <2>1, <2>2
<1>6. ASSUME NEW i \in 1..(n + 1) PROVE CallRight(defs, r[1].fn, r[i])
  <2>1. CASE i = n + 1
    BY <1>3, <1>5, <2>1
  <2>2. CASE i \in 1..n
    <3>1. s # <<>>
      BY <1>4, <2>2
    <3> QED BY <1>2, <1>3, <1>5, <2>2, <3>1 DEF StackRight
  <2> QED BY <2>1, <2>2
<1> QED BY <1>1, <1>3, <1>6 DEF StackRight

LEMMA PopRight ==
  ASSUME NEW defs, NEW s, IsSeq(s), s # <<>>, StackRight(defs, s)
  PROVE  StackRight(defs, SubSeq(s, 1, Len(s) - 1))
<1>1. PICK n \in Nat : Len(s) = n + 1
  <2>1. Len(s) \in Nat /\ Len(s) # 0
    BY SeqAppend DEF IsSeq
  <2>2. Len(s) - 1 \in Nat /\ Len(s) = (Len(s) - 1) + 1
    BY <2>1
  <2> QED BY <2>2
<1>2. PICK r : r = SubSeq(s, 1, Len(s) - 1)
  OBVIOUS
<1>3. Len(r) = n /\ \A i \in 1..n : r[i] = s[i]
  <2>1. Len(s) - 1 = n /\ n <= Len(s)
    BY <1>1
  <2> QED BY <1>2, <2>1, SeqPrefix
<1>4. ASSUME NEW i \in 1..n PROVE CallRight(defs, r[1].fn, r[i])
  <2>1. 1 \in 1..n /\ i \in 1..(n + 1)
    OBVIOUS
  <2> QED BY <1>1, <1>3, <2>1 DEF StackRight
<1> QED BY <1>2, <1>3, <1>4 DEF StackRight

LEMMA ResultOnTop ==
  ASSUME NEW defs, NEW s, Stacked(s), s # <<>>, StackRight(defs, s),
         NEW f, Calls(s[Len(s)], f), NEW x, Right(defs, f, x)
  PROVE  StackRight(defs, [s EXCEPT ![Len(s)].results = Append(@, x)])
<1>1. IsSeq(s) /\ Len(s) \in Nat /\ Len(s) # 0
  <2>1. IsSeq(s) /\ Len(s) \in Nat
    BY SeqAppend DEF Stacked
  <2> QED BY <2>1 DEF IsSeq
<1>2. PICK n \in Nat : n = Len(s) /\ n \in 1..n
  BY <1>1
<1> DEFINE c == s[n]
           e == [c EXCEPT !.results = Append(c.results, x)]
           r == [s EXCEPT ![n] = e]
<1>3. Frame(c) /\ CallRight(defs, s[1].fn, c)
  BY <1>2 DEF Stacked, StackRight
<1>4. e = [fn |-> c.fn, body |-> c.body, results |-> Append(c.results, x), key |-> c.key]
  <2> HIDE DEF c
  <2>1. c = [fn |-> c.fn, body |-> c.body, results |-> c.results, key |-> c.key]
    BY <1>3 DEF Frame
  <2> QED BY SMTT(40), <2>1, FrameResults
<1>5. [s EXCEPT ![Len(s)].results = Append(@, x)] = r
  BY <1>2
<1>6. f = c.body.calls[Len(c.results) + 1]
  BY <1>2 DEF Calls
<1> HIDE DEF e, c
<1>7. e.fn = c.fn /\ e.body = c.body /\ e.results = Append(c.results, x) /\ e.key = c.key
  BY <1>4
<1>8. CallRight(defs, s[1].fn, e)
  <2>1. PICK m \in Nat : m = Len(c.results)
    BY <1>3, SeqAppend DEF Frame
  <2>2. /\ Len(e.results) = m + 1 /\ e.results[m + 1] = x
        /\ \A j \in 1..m : e.results[j] = c.results[j]
    BY <1>3, <1>7, <2>1, SeqAppend DEF Frame
  <2>3. ASSUME NEW j \in 1..(m + 1) PROVE Right(defs, e.body.calls[j], e.results[j])
    <3>1. CASE j = m + 1
      BY <1>6, <1>7, <2>1, <2>2, <3>1
    <3>2. CASE j \in 1..m
      BY <1>3, <1>7, <2>1, <2>2, <3>2 DEF CallRight
    <3> QED BY <3>1, <3>2
  <2> QED BY <1>3, <1>7, <2>2, <2>3 DEF CallRight
<1>9. Len(r) = n /\ \A i \in 1..n : r[i] = IF i = n THEN e ELSE s[i]
  <2>1. n \in 1..Len(s)
    BY <1>2
  <2>2. LET t == [s EXCEPT ![n] = e] IN
        /\ Len(t) = Len(s) /\ \A i \in 1..Len(s) : t[i] = IF i = n THEN e ELSE s[i]
    BY <1>1, <2>1, SeqExcept
  <2> QED BY <1>2, <2>2
<1> HIDE DEF r
<1>10. r[1].fn = s[1].fn
  <2>1. 1 \in 1..n
    BY <1>2
  <2> QED BY <1>7, <1>9, <2>1 DEF c
<1>11. \A i \in 1..n : CallRight(defs, r[1].fn, r[i])
  BY <1>2, <1>8, <1>9, <1>10 DEF StackRight
<1> QED BY <1>5, <1>9, <1>11 DEF StackRight

-----------------------------------------------------------------------------
(* The steps of a process as steps of a script without a cache.            *)
OneStackRight(p) ==
  /\ StackRight(fns[p], stack'[p])
  /\ \A q \in Processes \ {p} : stack'[q] = stack[q]

LEMMA StackStays ==
  ASSUME NEW p \in Processes, TInv, fns' = fns, OneStackRight(p)
  PROVE  CallsRight'
<1> SUFFICES ASSUME NEW q \in Processes PROVE StackRight(fns[q], stack'[q])
  BY DEF CallsRight
<1> QED BY DEF TInv, CallsRight, OneStackRight

(* An answer that is right is what the definitions compute.                *)
LEMMA RightAnswers ==
  ASSUME NEW p \in Processes, TInv, NEW f \in Names, NEW value, fns' = fns,
         answer' = [answer EXCEPT ![p] = [fn |-> f, value |-> value]],
         CheckTransitiveImpurity(fns[p], f) => value = Computes(fns[p], f)
  PROVE  CallsNext
<1>1. PerProcess(answer)
  BY DEF TInv, Typed, CallsTyped
<1>2. /\ answer'[p] = [fn |-> f, value |-> value]
      /\ \A q \in Processes \ {p} : answer'[q] = answer[q]
  BY <1>1 DEF PerProcess
<1>3. Answer(p, f)
  BY <1>2 DEF Answer
<1> QED BY <1>3 DEF CallsNext

LEMMA DeliverRight ==
  ASSUME NEW p \in Processes, TInv, NEW below, Stacked(below), StackRight(fns[p], below),
         NEW f \in DOMAIN fns[p], NEW value, Right(fns[p], f, value),
         below # <<>> => Calls(below[Len(below)], f),
         Deliver(p, below, f, value), fns' = fns
  PROVE  OneStackRight(p) /\ [CallsNext]_<<fns, answer>>
<1>1. PerProcess(stack) /\ f \in Names
  BY DEF TInv, Typed, CallsTyped, Sounds, Sound
<1>2. CASE below = <<>>
  <2>1. /\ stack' = [stack EXCEPT ![p] = <<>>]
        /\ answer' = [answer EXCEPT ![p] = [fn |-> f, value |-> value]]
    BY <1>2 DEF Deliver
  <2>2. CheckTransitiveImpurity(fns[p], f) => value = Computes(fns[p], f)
    BY DEF Right, Runs, Computes
  <2>3. CallsNext
    BY <1>1, <2>1, <2>2, RightAnswers
  <2>4. Len(<<>>) = 0
    OBVIOUS
  <2>5. StackRight(fns[p], <<>>)
    BY <2>4 DEF StackRight
  <2> QED BY <1>1, <2>1, <2>3, <2>5 DEF OneStackRight, PerProcess
<1>3. CASE below # <<>>
  <2> DEFINE s == [below EXCEPT ![Len(below)].results = Append(@, value)]
  <2>1. stack' = [stack EXCEPT ![p] = s] /\ answer' = answer
    BY <1>3 DEF Deliver
  <2>2. StackRight(fns[p], s)
    BY <1>3, ResultOnTop
  <2> HIDE DEF s
  <2> QED BY <1>1, <2>1, <2>2 DEF OneStackRight, PerProcess
<1> QED BY <1>2, <1>3

LEMMA HitRight ==
  ASSUME NEW p \in Processes, TInv, NEW f \in DOMAIN fns[p], Hit(p, f)
  PROVE  CallsRight' /\ [CallsNext]_<<fns, answer>>
<1>1. /\ Called(p, f) /\ EntryId(p, f) \in DOMAIN store /\ fns' = fns
      /\ Deliver(p, stack[p], f, store[EntryId(p, f)])
  BY DEF Hit
<1>2. EntryId(p, f) = CanonicalId(fns[p], f)
  BY FreshEntry DEF TInv
<1>3. Right(fns[p], f, store[EntryId(p, f)])
  BY <1>1, <1>2 DEF TInv, Sounds, RowsRight
<1>4. Stacked(stack[p]) /\ StackRight(fns[p], stack[p])
  BY DEF TInv, Typed, CallsTyped, CallsRight
<1>5. stack[p] # <<>> => Calls(stack[p][Len(stack[p])], f)
  BY <1>1, CalledNext
<1>6. OneStackRight(p) /\ [CallsNext]_<<fns, answer>>
  BY <1>1, <1>3, <1>4, <1>5, DeliverRight
<1> QED BY <1>1, <1>6, StackStays

LEMMA MissRight ==
  ASSUME NEW p \in Processes, TInv, NEW f \in DOMAIN fns[p], NEW keyed, Miss(p, f, keyed)
  PROVE  CallsRight' /\ UNCHANGED <<fns, answer>>
<1> DEFINE key == IF keyed THEN EntryId(p, f) ELSE NoKey
           c == [fn |-> f, body |-> fns[p][f], results |-> <<>>, key |-> key]
           s == Append(stack[p], c)
<1>1. Called(p, f) /\ stack' = [stack EXCEPT ![p] = Append(stack[p], c)]
      /\ UNCHANGED <<fns, answer>>
  BY DEF Miss
<1>2. key \in {NoKey, CanonicalId(fns[p], f)}
  <2>1. EntryId(p, f) = CanonicalId(fns[p], f)
    BY FreshEntry DEF TInv
  <2> QED BY <2>1
<1> HIDE DEF key
<1>3. c.fn = f /\ c.body = fns[p][f] /\ Len(c.results) = 0 /\ c.key = key
  OBVIOUS
<1> HIDE DEF c
<1>4. f \in Names /\ Sound(fns[p])
  BY DEF TInv, Sounds, Sound
<1>5. IsSeq(stack[p]) /\ StackRight(fns[p], stack[p])
  BY DEF TInv, Typed, CallsTyped, CallsRight, Stacked
<1>6. f \in Reach(fns[p], IF stack[p] = <<>> THEN f ELSE stack[p][1].fn)
  <2>1. CASE stack[p] = <<>>
    BY <2>1 DEF Reach
  <2>2. CASE stack[p] # <<>>
    <3>1. Frame(Top(p)) /\ CallRight(fns[p], stack[p][1].fn, Top(p))
          /\ stack[p][1].fn \in DOMAIN fns[p]
      BY <2>2, InnermostFrame
    <3>2. Calls(Top(p), f)
      BY <1>1, <2>2, CalledNext DEF Top
    <3>3. f \in Callees(Top(p).body)
      <4>1. PICK n \in Nat : n = Len(Top(p).results)
        BY <3>1, SeqAppend DEF Frame
      <4>2. PICK m \in Nat : m = Len(Top(p).body.calls) /\ DOMAIN Top(p).body.calls = 1..m
        BY <3>1 DEF Frame
      <4>3. n + 1 \in 1..m /\ f = Top(p).body.calls[n + 1]
        BY <3>2, <4>1, <4>2 DEF Calls
      <4> QED BY <4>2, <4>3 DEF Callees
    <3>4. stack[p][1].fn \in Names
      BY <1>4, <3>1 DEF Sound
    <3> QED BY <1>4, <2>2, <3>1, <3>3, <3>4, ReachCloses DEF CallRight
  <2> QED BY <2>1, <2>2
<1>7. CallRight(fns[p], IF stack[p] = <<>> THEN c.fn ELSE stack[p][1].fn, c)
  BY <1>2, <1>3, <1>6 DEF CallRight
<1>8. StackRight(fns[p], s)
  BY <1>5, <1>7, PushRight
<1> HIDE DEF s
<1>9. OneStackRight(p)
  <2>1. PerProcess(stack)
    BY DEF TInv, Typed, CallsTyped
  <2>2. stack' = [stack EXCEPT ![p] = s]
    BY <1>1 DEF s
  <2> QED BY <1>8, <2>1, <2>2 DEF OneStackRight, PerProcess
<1> QED BY <1>1, <1>9, StackStays

LEMMA ReturnDelivers ==
  ASSUME NEW p \in Processes, TInv, Return(p)
  PROVE  CallsRight' /\ [CallsNext]_<<fns, answer>>
<1> DEFINE below == SubSeq(stack[p], 1, Len(stack[p]) - 1)
<1>1. PICK value : Right(fns[p], Top(p).fn, value) /\ Deliver(p, below, Top(p).fn, value)
  BY ReturnRight
<1>2. stack[p] # <<>> /\ fns' = fns
  BY DEF Return
<1>3. Stacked(stack[p]) /\ StackRight(fns[p], stack[p])
  BY DEF TInv, Typed, CallsTyped, CallsRight
<1>4. Stacked(below) /\ (below # <<>> => Calls(below[Len(below)], Top(p).fn))
  BY <1>2, <1>3, PopStack DEF Top
<1>5. StackRight(fns[p], below)
  BY <1>2, <1>3, PopRight DEF Stacked
<1>6. Top(p).fn \in DOMAIN fns[p]
  BY <1>2, InnermostFrame DEF CallRight
<1> HIDE DEF below
<1>7. OneStackRight(p) /\ [CallsNext]_<<fns, answer>>
  BY <1>1, <1>2, <1>4, <1>5, <1>6, DeliverRight
<1> QED BY <1>2, <1>7, StackStays

(* The error of an innermost call is what the bottom one computes.         *)
LEMMA FailRight ==
  ASSUME NEW p \in Processes, TInv, Fail(p)
  PROVE  CallsRight' /\ CallsNext
<1>1. /\ stack[p] # <<>> /\ fns' = fns /\ stack' = [stack EXCEPT ![p] = <<>>]
      /\ answer' = [answer EXCEPT ![p] = [fn |-> stack[p][1].fn, value |-> Leaf(Failure)]]
  BY DEF Fail
<1>2. /\ Frame(Top(p)) /\ CallRight(fns[p], stack[p][1].fn, Top(p))
      /\ stack[p][1].fn \in DOMAIN fns[p] /\ Sound(fns[p])
  BY <1>1, InnermostFrame
<1>3. stack[p][1].fn \in Names
  BY <1>2 DEF Sound
<1>4. ~Runs(fns[p], stack[p][1].fn)
  <2>1. CASE Top(p).body.code \in Free
    BY <1>2, <2>1 DEF CallRight, Runs
  <2>2. CASE Top(p).body.code \notin Free
    <3>1. PICK n \in Nat : n = Len(Top(p).results)
      BY <1>2, SeqAppend DEF Frame
    <3>2. PICK m \in Nat : m = Len(Top(p).body.calls) /\ DOMAIN Top(p).body.calls = 1..m
      BY <1>2 DEF Frame
    <3>3. n + 1 <= m /\ Top(p).body.calls[n + 1] \notin DOMAIN fns[p]
      BY <2>2, <3>1, <3>2 DEF Fail
    <3>4. n + 1 \in 1..m
      BY <3>3
    <3>5. Top(p).body.calls[n + 1] \in Callees(fns[p][Top(p).fn])
      BY <1>2, <3>2, <3>4 DEF CallRight, Callees
    <3>6. Top(p).body.calls[n + 1] \in Reach(fns[p], stack[p][1].fn)
      BY <1>2, <1>3, <3>5, ReachCloses DEF CallRight
    <3> QED BY <3>3, <3>6 DEF Runs
  <2> QED BY <2>1, <2>2
<1>5. CallsNext
  <2>1. Leaf(Failure) = Computes(fns[p], stack[p][1].fn)
    BY <1>4 DEF Computes, Runs
  <2> QED BY <1>1, <1>3, <2>1, RightAnswers
<1>6. OneStackRight(p)
  <2>1. PerProcess(stack) /\ Len(<<>>) = 0
    BY DEF TInv, Typed, CallsTyped
  <2>2. StackRight(fns[p], <<>>)
    BY <2>1 DEF StackRight
  <2> QED BY <1>1, <2>1, <2>2 DEF OneStackRight, PerProcess
<1> QED BY <1>1, <1>5, <1>6, StackStays

LEMMA CallIsRight ==
  ASSUME NEW p \in Processes, TInv, Call(p)
  PROVE  CallsRight' /\ [CallsNext]_<<fns, answer>>
<1>1. CASE Interrupt(p)
  <2>1. stack' = [stack EXCEPT ![p] = <<>>] /\ UNCHANGED <<fns, answer>>
    BY <1>1 DEF Interrupt
  <2>2. PerProcess(stack) /\ Len(<<>>) = 0
    BY DEF TInv, Typed, CallsTyped
  <2>3. StackRight(fns[p], <<>>)
    BY <2>2 DEF StackRight
  <2>4. OneStackRight(p)
    BY <2>1, <2>2, <2>3 DEF OneStackRight, PerProcess
  <2> QED BY <2>1, <2>4, StackStays
<1>2. CASE ~Interrupt(p)
  BY <1>2, HitRight, MissRight, ReturnDelivers, FailRight DEF Call
<1> QED BY <1>1, <1>2

(* Whatever changes the definitions of a process happens between its calls *)
(* or ends them.                                                           *)
LEMMA EditIsRight ==
  ASSUME NEW p \in Processes, TInv, stack'[p] = <<>>, NEW table,
         fns' = [fns EXCEPT ![p] = table], answer' = answer,
         \A q \in Processes \ {p} : stack'[q] = stack[q]
  PROVE  CallsRight' /\ CallsNext
<1>1. PerProcess(fns) /\ Len(<<>>) = 0
  BY DEF TInv, Typed, ScopeTyped, KeptShape, Shape
<1>2. \A q \in Processes \ {p} : fns'[q] = fns[q]
  BY <1>1 DEF PerProcess
<1>3. CallsRight'
  <2> SUFFICES ASSUME NEW q \in Processes PROVE StackRight(fns'[q], stack'[q])
    BY DEF CallsRight
  <2>1. CASE q = p
    BY <1>1, <2>1 DEF StackRight
  <2>2. CASE q # p
    BY <1>2, <2>2 DEF TInv, CallsRight
  <2> QED BY <2>1, <2>2
<1>4. Edit(p)
  BY <1>2 DEF Edit
<1> QED BY <1>3, <1>4 DEF CallsNext

LEMMA StepIsRight ==
  ASSUME TInv, [Next]_vars
  PROVE  CallsRight' /\ [CallsNext]_<<fns, answer>>
<1>1. ASSUME UNCHANGED <<fns, answer, stack>> PROVE CallsRight' /\ [CallsNext]_<<fns, answer>>
  BY <1>1 DEF TInv, CallsRight
<1>2. ASSUME NEW p \in Processes, Statement(p), UNCHANGED <<answer, stack>>,
             NEW table, fns' = [fns EXCEPT ![p] = table]
      PROVE  CallsRight' /\ CallsNext
  BY <1>2, EditIsRight DEF Statement
<1>3. ASSUME NEW p \in Processes, NEW d \in Definitions, FunctionDef(p, d)
      PROVE  CallsRight' /\ CallsNext
  BY <1>2, <1>3 DEF FunctionDef
<1>4. ASSUME NEW p \in Processes, CacheStatement(p)
      PROVE  CallsRight' /\ [CallsNext]_<<fns, answer>>
  <2>1. UNCHANGED <<fns, answer, stack>> \/ \E file \in Files : CacheAddFile(p, file)
    BY <1>4 DEF CacheStatement, CacheEnable, CacheOff, CacheList, CacheAddFunctions,
                CacheRemoveFunction
  <2>2. ASSUME NEW file \in Files, CacheAddFile(p, file) PROVE CallsRight' /\ CallsNext
    <3>1. /\ Statement(p) /\ UNCHANGED <<answer, stack>>
          /\ \E table : fns' = [fns EXCEPT ![p] = table]
      BY <2>2 DEF CacheAddFile
    <3> QED BY <1>2, <3>1
  <2> QED BY <1>1, <2>1, <2>2
<1>5. ASSUME NEW p \in Processes, Call(p)
      PROVE  CallsRight' /\ [CallsNext]_<<fns, answer>>
  BY <1>5, CallIsRight
<1>6. ASSUME NEW p \in Processes, ClearVars(p) PROVE CallsRight' /\ CallsNext
  BY <1>2, <1>6 DEF ClearVars
<1>7. ASSUME NEW p \in Processes, Exit(p) PROVE CallsRight' /\ CallsNext
  <2>1. /\ fns' = [fns EXCEPT ![p] = Empty] /\ answer' = answer
        /\ stack' = [stack EXCEPT ![p] = <<>>] /\ PerProcess(stack)
    BY <1>7 DEF Exit, TInv, Typed, CallsTyped
  <2>2. stack'[p] = <<>> /\ \A q \in Processes \ {p} : stack'[q] = stack[q]
    BY <2>1 DEF PerProcess
  <2> QED BY <2>1, <2>2, EditIsRight
<1>8. ASSUME NEW ids \in SUBSET DOMAIN store, CachePrune(ids)
      PROVE  CallsRight' /\ [CallsNext]_<<fns, answer>>
  BY <1>1, <1>8 DEF CachePrune
<1>9. CASE UNCHANGED vars
  BY <1>1, <1>9 DEF vars
<1> QED BY <1>3, <1>4, <1>5, <1>6, <1>7, <1>8, <1>9 DEF Next

-----------------------------------------------------------------------------
LEMMA InitIsRight == Init => TInv
<1> SUFFICES ASSUME Init PROVE TInv
  OBVIOUS
<1>1. /\ fns = [p \in Processes |-> Empty] /\ memo = [p \in Processes |-> Empty]
      /\ stack = [p \in Processes |-> <<>>] /\ store = Empty
  BY DEF Init, CallsInit, Empty
<1>2. Len(<<>>) = 0
  OBVIOUS
<1>3. CallsRight
  BY <1>1, <1>2 DEF CallsRight, StackRight
<1> HIDE DEF Empty
<1>4. Sounds
  BY <1>1, EmptySound DEF Sounds
<1>5. IdsFresh /\ RowsRight
  BY <1>1, EmptyTable DEF IdsFresh, FreshIds, RowsRight
<1> QED BY <1>3, <1>4, <1>5, InitIsTyped DEF TInv

LEMMA StepKeeps ==
  ASSUME TInv, [Next]_vars, [LoadsKeepIds]_vars
  PROVE  TInv'
<1>1. Typed'
  BY ScopeStays, MemoStays, CallsStay, CountStays DEF TInv, Typed
<1> QED BY <1>1, SoundsStay, IdsStay, RowsStay, StepIsRight DEF TInv

(* As long as no load of a file changes what a remembered id stands for,   *)
(* a script cannot tell that the cache is there: for any functions, files, *)
(* processes and statements, with the rows of all processes in one store,  *)
(* and rows lost at any moment, a call of a pure function answers what its *)
(* present definitions compute.                                            *)
THEOREM CacheInvisible == Spec /\ [][LoadsKeepIds]_vars => ImplementsCalls
<1>1. TInv /\ [Next]_vars /\ [LoadsKeepIds]_vars => TInv'
  BY StepKeeps
<1>2. TInv /\ [Next]_vars => [CallsNext]_<<fns, answer>>
  BY StepIsRight
<1>3. Init => CallsInit
  BY DEF Init
<1> QED BY <1>1, <1>2, <1>3, InitIsRight, PTL DEF Spec, ImplementsCalls, CallsSpec

(* The ids that a process remembers are those of its definitions, unless a *)
(* file was loaded over them: no other statement leaves one behind.        *)
THEOREM IdsAreCurrent == Spec /\ [][LoadsKeepIds]_vars => []IdsFresh
<1>1. TInv /\ [Next]_vars /\ [LoadsKeepIds]_vars => TInv'
  BY StepKeeps
<1>2. TInv => IdsFresh
  BY DEF TInv
<1> QED BY <1>1, <1>2, InitIsRight, PTL DEF Spec
=============================================================================
