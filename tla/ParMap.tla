------------------------------- MODULE ParMap -------------------------------
(***************************************************************************)
(* parmap on rayon's pool (eval/parmap.rs, eval/rng.rs, eval/mod.rs).  A   *)
(* pool thread keeps its generator, its parallel flag and its path jail in *)
(* thread-locals; a task saves the last two and seeds the first.  A task   *)
(* that waits, for a nested parmap or for a long array operation, lends    *)
(* its thread to other tasks, whose frames lie on top of its own.          *)
(***************************************************************************)
EXTENDS Naturals, Sequences, FiniteSets

CONSTANTS
  Workers,    \* threads of the pool
  Callers, MaxCalls, Lambdas, Main, Body,
  Jails,      \* path jails (with the plot context) a caller may have
  NoJail      \* none: a thread outside a notebook

VARIABLES
  stack,      \* per worker: the frames of the tasks it is in, the newest last
  rng,        \* per worker: its generator, which also holds the master seed
  flag,       \* per worker: PARALLEL_CONTEXT
  jail,       \* per worker: PATH_JAIL
  calls,      \* the calls in progress
  answers     \* per caller: what its calls returned

vars == <<stack, rng, flag, jail, calls, answers>>
locals == <<flag, jail>>

Promise == INSTANCE ForLoop

ASSUME ScriptAssumption == Promise!Script /\ Promise!Nesting
ASSUME NoJailAssumption == NoJail \notin Jails

Derive(s, i) == Promise!Derive(s, i)

-----------------------------------------------------------------------------
(* A call of the caller c is known by <<c, n>>, a nested one by its task   *)
(* and the operation that made it.                                         *)
TopCall(c) == <<c, Len(answers[c]) + 1>>
Nested(f) == f.call \o <<f.at, f.pc>>

Ids == Seq(Callers \cup Nat)

Trials == [state : {"todo", "running", "ok", "error"}, log : Promise!Logs]

Calls == [fn : Lambdas, jail : Jails \cup {NoJail}, seed : Promise!Seeds,
          trials : Seq(Trials)]

Frames == [call : Ids, at : Nat, pc : Nat, waits : {"no", "wide", "parmap"},
           log : Promise!Logs, flag : {"clear", "set"}, jail : Jails \cup {NoJail}]

NewCall(f, j, seed) ==
  [fn |-> f, jail |-> j, seed |-> seed,
   trials |-> [i \in 1..Len(Body[f]) |-> [state |-> "todo", log |-> {}]]]

WithCall(cs, id, call) ==
  [k \in DOMAIN cs \cup {id} |-> IF k \in DOMAIN cs THEN cs[k] ELSE call]

WithoutCall(cs, id) == [k \in DOMAIN cs \ {id} |-> cs[k]]

Marked(cs, f, state, log) ==
  [cs EXCEPT ![f.call].trials[f.at] = [state |-> state, log |-> log]]

(* Mutant: a call is over when its last element is taken up.               *)
AllTaken(id) ==
  \A i \in DOMAIN calls[id].trials : calls[id].trials[i].state # "todo"

AllEnded(id) ==
  \A i \in DOMAIN calls[id].trials : calls[id].trials[i].state \in {"ok", "error"}

Busy(w) == stack[w] # <<>>
Top(w) == stack[w][Len(stack[w])]
Code(w) == Body[calls[Top(w).call].fn][Top(w).at]

(* The task on top is about to do op.                                      *)
At(w, op) ==
  /\ Busy(w) /\ Top(w).waits = "no"
  /\ Top(w).pc <= Len(Code(w)) /\ Code(w)[Top(w).pc] = op

OnTop(w, f) == stack' = [stack EXCEPT ![w][Len(stack[w])] = f]

-----------------------------------------------------------------------------
(* The call that f belongs to is in progress and counts it as running.     *)
Runs(f) ==
  /\ f.call \in DOMAIN calls
  /\ f.at \in DOMAIN calls[f.call].trials
  /\ calls[f.call].trials[f.at].state = "running"

TypeOK ==
  /\ stack \in [Workers -> Seq(Frames)]
  /\ \A w \in Workers : \A k \in DOMAIN stack[w] : Runs(stack[w][k])
  /\ rng \in [Workers -> Promise!Numbers]
  /\ flag \in [Workers -> {"clear", "set"}]
  /\ jail \in [Workers -> Jails \cup {NoJail}]
  /\ calls = [id \in DOMAIN calls |-> calls[id]]
  /\ \A id \in DOMAIN calls : id \in Ids /\ calls[id] \in Calls
  /\ answers \in [Callers -> Seq([failed : SUBSET Nat, log : Promise!Logs])]

Init ==
  /\ stack = [w \in Workers |-> <<>>]
  /\ rng \in [Workers -> {[seed |-> <<>>, count |-> 0]}]
  /\ flag = [w \in Workers |-> "clear"]
  /\ jail = [w \in Workers |-> NoJail]
  /\ calls = [id \in {} |-> NoJail]
  /\ answers = [c \in Callers |-> <<>>]

(* A thread outside the pool calls parmap under its own jail and waits.    *)
Call(c, j) ==
  /\ TopCall(c) \notin DOMAIN calls
  /\ Len(answers[c]) < MaxCalls
  /\ calls' = WithCall(calls, TopCall(c), NewCall(Main[c], j, Promise!SeedOf(c)))
  /\ UNCHANGED <<stack, rng, locals, answers>>

(* All trials ran: their values in input order, or the first error.        *)
Return(c) ==
  /\ TopCall(c) \in DOMAIN calls /\ AllEnded(TopCall(c))
  /\ answers' = [answers EXCEPT ![c] = Append(@, Promise!Answer(calls[TopCall(c)].trials))]
  /\ calls' = WithoutCall(calls, TopCall(c))
  /\ UNCHANGED <<stack, rng, locals>>

(* Mutant: a task that waits keeps its thread to itself.                   *)
FreeIdle(w) == ~Busy(w)

(* A thread that is idle or waits takes up a task: WorkerScope::enter, the *)
(* seed of the element, ParallelContextGuard::enter.                       *)
Free(w) ==
  Busy(w) => Top(w).waits = "parmap" \/ (Top(w).waits = "wide" /\ Workers # {w})

(* Mutant: every element starts from the seed of its call.                 *)
SeededAlike(id, i) == [seed |-> calls[id].seed, count |-> 0]

Seeded(id, i) == [seed |-> Derive(calls[id].seed, i), count |-> 0]

Claim(w, id, i) ==
  /\ Free(w)
  /\ calls[id].trials[i].state = "todo"
  /\ stack' = [stack EXCEPT ![w] = Append(@,
       [call |-> id, at |-> i, pc |-> 1, waits |-> "no", log |-> {},
        flag |-> flag[w], jail |-> jail[w]])]
  /\ rng' = [rng EXCEPT ![w] = Seeded(id, i)]
  /\ flag' = [flag EXCEPT ![w] = "set"]
  /\ jail' = [jail EXCEPT ![w] = calls[id].jail]
  /\ calls' = [calls EXCEPT ![id].trials[i].state = "running"]
  /\ UNCHANGED answers

Draw(w) ==
  /\ At(w, "draw")
  /\ OnTop(w, [Top(w) EXCEPT !.pc = @ + 1, !.log = @ \cup {[place |-> <<Top(w).pc>>, number |-> rng[w]]}])
  /\ rng' = [rng EXCEPT ![w].count = @ + 1]
  /\ UNCHANGED <<locals, calls, answers>>

(* The array operation waits for pieces another thread of the pool took.   *)
Widen(w) ==
  /\ At(w, "wide")
  /\ OnTop(w, [Top(w) EXCEPT !.waits = "wide"])
  /\ UNCHANGED <<rng, locals, calls, answers>>

Joined(w) ==
  /\ Busy(w) /\ Top(w).waits = "wide"
  /\ OnTop(w, [Top(w) EXCEPT !.pc = @ + 1, !.waits = "no"])
  /\ UNCHANGED <<rng, locals, calls, answers>>

(* The nested call takes the master seed and the jail of its thread.       *)
CallNested(w, g) ==
  /\ At(w, g)
  /\ OnTop(w, [Top(w) EXCEPT !.waits = "parmap"])
  /\ calls' = WithCall(calls, Nested(Top(w)),
                NewCall(g, jail[w], rng[w].seed))
  /\ UNCHANGED <<rng, locals, answers>>

NestedEnded(w) ==
  /\ Busy(w) /\ Top(w).waits = "parmap"
  /\ Nested(Top(w)) \in DOMAIN calls /\ AllEnded(Nested(Top(w)))
NestedAnswer(w) == Promise!Answer(calls[Nested(Top(w))].trials)

ReturnNested(w) ==
  /\ NestedEnded(w) /\ NestedAnswer(w).failed = {}
  /\ OnTop(w, [Top(w) EXCEPT !.pc = @ + 1, !.waits = "no",
                           !.log = @ \cup Promise!Below(Top(w).pc, NestedAnswer(w).log)])
  /\ calls' = WithoutCall(calls, Nested(Top(w)))
  /\ UNCHANGED <<rng, locals, answers>>

(* Mutant: the guards clear what they set.                                 *)
LeaveCleared(w) ==
  /\ stack' = [stack EXCEPT ![w] = SubSeq(@, 1, Len(@) - 1)]
  /\ flag' = [flag EXCEPT ![w] = "clear"]
  /\ jail' = [jail EXCEPT ![w] = NoJail]
  /\ UNCHANGED <<rng, answers>>

(* The task ends: the guards put back what they found; the generator stays *)
(* as the task left it.                                                    *)
Leave(w) ==
  /\ stack' = [stack EXCEPT ![w] = SubSeq(@, 1, Len(@) - 1)]
  /\ flag' = [flag EXCEPT ![w] = Top(w).flag]
  /\ jail' = [jail EXCEPT ![w] = Top(w).jail]
  /\ UNCHANGED <<rng, answers>>

(* The error of a nested call is an error of the task.                     *)
FailNested(w) ==
  /\ NestedEnded(w) /\ NestedAnswer(w).failed # {}
  /\ calls' = Marked(WithoutCall(calls, Nested(Top(w))), Top(w), "error", {})
  /\ Leave(w)

(* A builtin of the denylist: an error where the flag is set.              *)
RunImpure(w) ==
  /\ At(w, "impure")
  /\ IF flag[w] = "set"
       THEN /\ calls' = Marked(calls, Top(w), "error", {})
            /\ Leave(w)
       ELSE /\ OnTop(w, [Top(w) EXCEPT !.pc = @ + 1])
            /\ UNCHANGED <<rng, locals, calls, answers>>

Finish(w) ==
  /\ Busy(w) /\ Top(w).waits = "no" /\ Top(w).pc > Len(Code(w))
  /\ calls' = Marked(calls, Top(w), "ok", Top(w).log)
  /\ Leave(w)

Work(w) ==
  \/ \E id \in DOMAIN calls : \E i \in DOMAIN calls[id].trials : Claim(w, id, i)
  \/ Draw(w) \/ Widen(w) \/ Joined(w)
  \/ \E g \in Lambdas : CallNested(w, g)
  \/ ReturnNested(w) \/ FailNested(w) \/ RunImpure(w) \/ Finish(w)

Next ==
  \/ \E c \in Callers : Return(c) \/ \E j \in Jails \cup {NoJail} : Call(c, j)
  \/ \E w \in Workers : Work(w)

(* A thread of the pool that can take a step takes one, and so does the    *)
(* caller that is woken; nobody need call.                                 *)
Spec ==
  /\ Init /\ [][Next]_vars
  /\ \A w \in Workers : WF_vars(Work(w))
  /\ \A c \in Callers : WF_vars(Return(c))

-----------------------------------------------------------------------------
(* A thread runs under the flag and the jail of the task on top of its     *)
(* stack, at every depth, and has neither when it is idle: no task reads   *)
(* files under the jail of another call and none runs outside the denylist *)
(* because a task taken up while it waited has ended (WorkerScope and      *)
(* ParallelContextGuard in eval/parmap.rs).                                *)
ScopeOfTask ==
  \A w \in Workers :
    IF Busy(w) THEN flag[w] = "set" /\ jail[w] = calls[Top(w).call].jail
               ELSE flag[w] = "clear" /\ jail[w] = NoJail

(* Every answer is the one of the sequential loop, whatever the schedule   *)
(* (LocalRayonBackend::run in eval/parmap.rs).                             *)
ImplementsLoop == Promise!Spec

(* Every call returns, though tasks wait for tasks on the threads they     *)
(* themselves occupy (LocalRayonBackend::run in eval/parmap.rs).           *)
CallsReturn ==
  \A c \in Callers : (TopCall(c) \in DOMAIN calls) ~> (TopCall(c) \notin DOMAIN calls)

(* The same seed gives the same answer (the comment of                     *)
(* LocalRayonBackend::run: "the same seed(N); parmap(...) produces         *)
(* bit-identical results across runs").                                    *)
SameSeedSameAnswer ==
  \A c \in Callers : \A m, n \in DOMAIN answers[c] : answers[c][m] = answers[c][n]
=============================================================================
