----------------------------- MODULE PrefixCache ----------------------------
(***************************************************************************)
(* The prefix cache of a live notebook: execute_core of                    *)
(* crates/rustlab-notebook/src/execute.rs over the NotebookCache of        *)
(* cache.rs.  A render keeps the longest cached prefix whose sources and   *)
(* widget reads still match, replays it by restoring the state captured    *)
(* after each block, and executes the rest, one new entry per block.  The  *)
(* prose between the blocks is never cached: every render runs its ${...}  *)
(* expressions again, on the live evaluator and thread.                    *)
(*                                                                         *)
(* Executing is symbolic: the interpreter's state is the history of what   *)
(* was executed, with every input the execution depended on (the widgets   *)
(* it saw, the random numbers it drew, the figure it found held).  In two  *)
(* equal states every program produces the same values.                    *)
(*                                                                         *)
(* Renders of one notebook are serialised by the render_cache lock (module *)
(* RenderLoop), but run on whatever blocking thread is free; the random    *)
(* generator and the figure are thread-locals of that thread.              *)
(***************************************************************************)
EXTENDS Naturals, Sequences, FiniteSets

CONSTANTS
  Sources,        \* bodies of executable blocks, told apart by their hash
  Directives,     \* what the comments before a fence ask of its presentation
  Proses,         \* the markdown between two executable blocks
  Acts,           \* prose whose expressions draw, plot or step a stateful value
  Widgets, Values,
  Docs,           \* the versions of the notebook an editor may save
  ReadsOf(_, _, _), \* widgets a source reads, given the state and the table
  Draws,          \* sources and prose that draw random numbers
  Seeds,          \* those that call seed(N)
  Holds,          \* those that turn hold on and leave it on
  Handles,        \* those that draw on figure(N) under hold, and go back
  Threads,        \* blocking threads of the runtime
  Seeded,         \* the generator seed(N) starts
  None,           \* the value of a widget that is absent from a map
  MaxRenders      \* bound on renders

ASSUME CacheAssumption ==
  /\ None \notin Values /\ None \notin Threads
  /\ Acts \subseteq Proses /\ Sources \cap Proses = {}
  /\ Draws \cup Seeds \cup Holds \cup Handles \subseteq Sources \cup Acts
  /\ MaxRenders \in Nat
  /\ \A doc \in Docs :
       /\ doc.blocks \in Seq([kind : {"code", "mermaid"}, src : Sources, dir : Directives])
       /\ doc.proses \in Seq(Proses) /\ Len(doc.proses) = Len(doc.blocks) + 1
       /\ doc.choices \in [Widgets -> Seq(Values)]

VARIABLES
  cache,    \* entries of the NotebookCache
  thread,   \* per thread: its random generator, its figure and figure store
  render,   \* the render in progress, or Idle
  ev,       \* its evaluator: the executed history and the widget table
  out,      \* the blocks it has rendered so far
  told,     \* the prose it has rendered so far
  renders,  \* number of renders begun
  trace,    \* history: the state after each block of the render
  above,    \* history: per entry, the prose before its block, and its table
  origin,   \* history: the thread state the first cached block started from
  prev,     \* history: the render before: its inputs and how far it got
  shown     \* history: the last render that finished

historyVars == <<trace, above, origin, prev, shown>>
vars == <<cache, thread, render, ev, out, told, renders, historyVars>>

-----------------------------------------------------------------------------
(* A document of Docs: its executable blocks in order, the prose before    *)
(* each and after the last, and for each widget the choices it declares,   *)
(* the default first; no choices when the widget is not declared.          *)

Table == [Widgets -> Values \cup {None}]

(* A live value is applied if it coerces against the declaration; a widget *)
(* that was removed, or a value that is no choice any more, is ignored.    *)
BuildWidgetTable(doc, overrides) ==
  [w \in Widgets |->
     LET choices == doc.choices[w]
     IN  CASE choices = <<>> -> None
           [] choices # <<>> /\ \E i \in DOMAIN choices : choices[i] = overrides[w]
                -> overrides[w]
           [] OTHER -> Head(choices)]

TablesOf(doc) == {BuildWidgetTable(doc, overrides) : overrides \in Table}

-----------------------------------------------------------------------------
(* The thread-locals.  A generator is what started it (the OS, differently *)
(* on each thread, or a seed) and the number of draws since.  Of the       *)
(* figures only what outlives a block is kept: the current one's hold, and *)
(* whether the store has a held drawing under a handle.                    *)

ThreadState ==
  [seed : Threads \cup {Seeded}, drawn : Nat, hold : BOOLEAN, stored : BOOLEAN]
Fresh(t) == [seed |-> t, drawn |-> 0, hold |-> FALSE, stored |-> FALSE]

(* The current figure only: the store is left as it is.                    *)
ResetFigure(th) ==
  [seed |-> th.seed, drawn |-> th.drawn, hold |-> FALSE, stored |-> th.stored]

DrawOn(src, th) ==
  [seed  |-> IF src \in Seeds THEN Seeded ELSE th.seed,
   drawn |-> IF src \in Seeds THEN 0 ELSE IF src \in Draws THEN th.drawn + 1 ELSE th.drawn,
   hold  |-> th.hold \/ src \in Holds,
   stored |-> th.stored \/ src \in Handles]

-----------------------------------------------------------------------------
(* Execution.                                                              *)

Lookup(table, names) == [w \in names |-> table[w]]

Execution(src, env, table, th) ==
  [src  |-> src,
   seen |-> Lookup(table, ReadsOf(src, env, table)),
   rng  |-> IF src \in Draws THEN <<th.seed, th.drawn>> ELSE <<>>,
   hold |-> th.hold,
   overlay |-> src \in Handles /\ th.stored]

State(env, th) == [env |-> env, th |-> th]

Ran(src, s, table) ==
  State(Append(s.env, Execution(src, s.env, table, s.th)), DrawOn(src, s.th))

(* The state after a block: a diagram does not touch it.                   *)
After(b, s, table) == IF b.kind = "code" THEN Ran(b.src, s, table) ELSE s

(* What a block shows: a code block the values it ends with, a diagram its *)
(* source; each as its directives say.                                     *)
Output(b, s) == [kind |-> b.kind, src |-> b.src, dir |-> b.dir,
                 env |-> IF b.kind = "code" THEN s.env ELSE <<>>]

(* An expression ${e} of prose runs as the statement `__nb_interp__ = (e);`*)
(* whose variable is removed again: prose leaves the state as it was       *)
(* unless the expression itself acts on it.                                *)
Said(p, s, table) == IF p \in Acts THEN Ran(p, s, table) ELSE s

Interpolated(p, s, table) == [prose |-> p, env |-> Said(p, s, table).env, table |-> table]

-----------------------------------------------------------------------------
(* The cache.                                                              *)

(* Only the reads that resolve against the widget table are kept.          *)
WidgetReadsWithValues(reads, table) == Lookup(table, {w \in reads : table[w] # None})

Entry(b, output, evaluator, th, reads, table) ==
  [hash |-> b.src, output |-> output, snapshot |-> [ev |-> evaluator, th |-> th],
   reads |-> WidgetReadsWithValues(reads, table)]

\* Mutant of EntryValid: only the source is compared.
SourceValid(entry, b, table) == entry.hash = b.src

EntryValid(entry, b, table) ==
  /\ entry.hash = b.src
  /\ \A w \in DOMAIN entry.reads : table[w] = entry.reads[w]

(* k is the length of the longest prefix of valid entries.                 *)
ValidPrefix(doc, table, k) ==
  /\ k <= Len(cache) /\ k <= Len(doc.blocks)
  /\ \A i \in 1..k : EntryValid(cache[i], doc.blocks[i], table)
  /\ k < Len(cache) /\ k < Len(doc.blocks)
       => ~EntryValid(cache[k + 1], doc.blocks[k + 1], table)

Clamp(k, force) == IF force < k THEN force ELSE k

Kept(valid) == SubSeq(cache, 1, valid)

\* Mutant of RestoreThread: the evaluator is restored, the generator is not.
RestoreFigure(snapshot, th) == [th EXCEPT !.hold = snapshot.th.hold]

RestoreThread(snapshot, th) == snapshot.th

\* Mutant of Refresh: a restored evaluator keeps the table it was captured with.
KeepTable(evaluator, table) == evaluator

Refresh(evaluator, table) == [env |-> evaluator.env, widgets |-> table]

-----------------------------------------------------------------------------
(* Rendering.                                                              *)

Idle == [thr |-> None]
Running == render.thr # None
Here == Len(out) + 1
Current == render.doc.blocks[Here]

(* The kept length is the valid prefix, clamped by the block to run from.  *)
Begin(t, doc, table, force) ==
  LET start == ResetFigure(thread[t]) IN
  /\ ~Running /\ renders < MaxRenders
  /\ renders' = renders + 1
  /\ \E k \in 0..Len(cache) :
       /\ ValidPrefix(doc, table, k)
       /\ cache' = Kept(Clamp(k, force))
       /\ above' = SubSeq(above, 1, Clamp(k, force))
  /\ thread' = [thread EXCEPT ![t] = start]
  /\ render' = [thr |-> t, doc |-> doc, table |-> table, force |-> force, start |-> start]
  /\ ev' = [env |-> <<>>, widgets |-> table]
  /\ out' = <<>> /\ told' = <<>>
  /\ origin' = IF cache' = <<>> THEN start ELSE origin
  /\ trace' = <<State(<<>>, origin')>>
  /\ UNCHANGED <<prev, shown>>

Live == State(ev.env, thread[render.thr])

(* The state that executing or restoring a block leaves.                   *)
Becomes(s, table) ==
  /\ ev' = [env |-> s.env, widgets |-> table]
  /\ thread' = [thread EXCEPT ![render.thr] = s.th]

(* The prose before the next block, or after the last.  It runs in every   *)
(* render, before a cached block as before one that will be executed, and  *)
(* has no entry of its own.                                                *)
Tell ==
  /\ Running /\ Len(told) = Len(out)
  /\ LET p == render.doc.proses[Here] IN
       /\ told' = Append(told, Interpolated(p, Live, ev.widgets))
       /\ Becomes(Said(p, Live, ev.widgets), ev.widgets)
  /\ UNCHANGED <<cache, render, out, renders, historyVars>>

(* The turn of a block: the prose before it is told.                       *)
InProgress == Running /\ Here <= Len(render.doc.blocks) /\ Len(told) = Here

Emit(output) ==
  /\ out' = Append(out, output)
  /\ UNCHANGED <<render, told, renders, origin, prev, shown>>

(* Whatever the prose did, the state is the one captured after the block.  *)
Replay ==
  /\ InProgress /\ Here <= Len(cache)
  /\ LET entry == cache[Here]
         evaluator == Refresh(entry.snapshot.ev, render.table)
         th == RestoreThread(entry.snapshot, thread[render.thr])
     IN  /\ Emit(entry.output)
         /\ Becomes(State(evaluator.env, th), evaluator.widgets)
         /\ trace' = Append(trace, State(entry.snapshot.ev.env, th))
  /\ UNCHANGED <<cache, above>>

(* A miss, at the end of the cache: run the block and push its entry.  The *)
(* reads of the prose before it are cleared first.                         *)
Execute ==
  /\ InProgress /\ Here > Len(cache)
  /\ LET after  == After(Current, Live, ev.widgets)
         evaluator == [env |-> after.env, widgets |-> ev.widgets]
         reads  == IF Current.kind = "code" THEN ReadsOf(Current.src, ev.env, ev.widgets)
                   ELSE {}
         output == Output(Current, after)
     IN  /\ Emit(output)
         /\ Becomes(after, ev.widgets)
         /\ cache' = Append(cache, Entry(Current, output, evaluator, after.th, reads,
                                         render.table))
         /\ trace' = Append(trace, after)
  /\ above' = Append(above, [prose |-> render.doc.proses[Here], table |-> render.table])

NoEvaluator == [env |-> <<>>, widgets |-> [w \in Widgets |-> None]]

Leave ==
  /\ render' = Idle
  /\ prev' = [doc |-> render.doc, table |-> render.table, trace |-> trace]
  /\ ev' = NoEvaluator /\ out' = <<>> /\ told' = <<>> /\ trace' = <<>>
  /\ UNCHANGED <<renders, origin, above>>

Finish ==
  /\ Running /\ Len(told) > Len(render.doc.blocks)
  /\ shown' = [doc |-> render.doc, table |-> render.table, out |-> out, told |-> told,
               origin |-> origin, above |-> above]
  /\ Leave
  /\ UNCHANGED <<cache, thread>>

\* Mutant of KeptOnCancel: a cancelled render clears the cache.
ClearOnCancel == cache' = <<>>

KeptOnCancel == cache' = cache

(* The cancel flag, seen before a block or before a prose.  Seen inside a  *)
(* prose it makes an expression fail, which leaves it to the next look: at *)
(* the end of the document there is none, and the page that is rendered is *)
(* not published, because a newer render set the flag.                     *)
AbandonBetween ==
  /\ Running
  /\ Leave /\ KeptOnCancel
  /\ UNCHANGED <<thread, shown>>

(* Seen inside a block: its output is dropped and no entry is pushed, but  *)
(* what it did to the thread before it stopped stays done.                 *)
AbandonInBlock ==
  /\ InProgress /\ Here > Len(cache) /\ Current.kind = "code"
  /\ thread' = [thread EXCEPT ![render.thr] = DrawOn(Current.src, @)]
  /\ Leave /\ KeptOnCancel
  /\ UNCHANGED shown

-----------------------------------------------------------------------------
Init ==
  /\ cache = <<>> /\ render = Idle /\ renders = 0
  /\ thread = [t \in Threads |-> Fresh(t)]
  /\ ev = NoEvaluator
  /\ out = <<>> /\ told = <<>> /\ trace = <<>> /\ above = <<>>
  /\ origin \in {Fresh(t) : t \in Threads}
  /\ prev = Idle /\ shown = Idle

(* Any version of the notebook, any live values and any Run click: a force *)
(* past the last block is the request that forces nothing.                 *)
Next ==
  \/ \E t \in Threads, doc \in Docs :
       \E table \in TablesOf(doc), force \in 0..Len(doc.blocks) : Begin(t, doc, table, force)
  \/ Tell \/ Replay \/ Execute \/ Finish \/ AbandonBetween \/ AbandonInBlock

Spec == Init /\ [][Next]_vars

-----------------------------------------------------------------------------
(* Types; and a restored evaluator reads the widget table of this render,  *)
(* never the one it was captured with.                                     *)
TypeOK ==
  /\ thread \in [Threads -> ThreadState] /\ origin \in ThreadState
  /\ renders \in 0..MaxRenders
  /\ Running => /\ render.thr \in Threads /\ render.doc \in Docs
                /\ render.table \in Table /\ ev.widgets = render.table
                /\ render.start \in ThreadState
                /\ Len(out) <= Len(render.doc.blocks) /\ Len(trace) = Here
                /\ Len(told) \in {Len(out), Here}
  /\ above \in Seq([prose : Proses, table : Table])
  /\ \A i \in DOMAIN cache : /\ cache[i].hash \in Sources
                             /\ cache[i].snapshot.th \in ThreadState
                             /\ DOMAIN cache[i].reads \subseteq Widgets

(* The state a block runs on in a full run is the state the prose before   *)
(* it leaves.  A cached block ran on the one that the prose left which     *)
(* stood there when it ran; the two differ only if one of them acts, and   *)
(* it was edited, or a widget it reads was moved, since the block ran.     *)
Led(i) == Said(above[i].prose, trace[i], above[i].table)

(* Prose runs on what the block before it left.  The first runs on the     *)
(* render's own thread, even if the block after it is restored.            *)
Stage(i) == IF i = 1 THEN State(<<>>, render.start) ELSE trace[i]

IsRunOf(doc, table) ==
  /\ trace[1] = State(<<>>, origin) /\ ~origin.hold
  /\ \A i \in DOMAIN told : told[i] = Interpolated(doc.proses[i], Stage(i), table)
  /\ \A i \in DOMAIN out :
       /\ trace[i + 1] = After(doc.blocks[i], Led(i), table)
       /\ out[i] = Output(doc.blocks[i], trace[i + 1])

(* A cached render cannot be told from one that executes every block: what *)
(* it has shown so far is, block by block and prose by prose, what the     *)
(* document and the widget values of this render produce from the top,     *)
(* with no hold left over from an earlier render.  Prose that acts on what *)
(* comes after it is the one exception: the block below it counts it as it *)
(* stood when that block ran.                                              *)
Transparent == Running => IsRunOf(render.doc, render.table)

(* A render of what is shown already, same source and same values, shows   *)
(* it again, random draws included, unless block 0 itself ran again, or a  *)
(* block ran again below prose that acts and was edited.  Prose that acts  *)
(* and stands before every block draws anew in each render.                *)
SameInputs == shown # Idle /\ shown.doc = render.doc /\ shown.table = render.table

SameLeads ==
  \A i \in DOMAIN out : Said(shown.above[i].prose, trace[i], shown.above[i].table) = Led(i)

Repeats(earlier, now) ==
  /\ now.out = earlier.out
  /\ \A i \in DOMAIN now.told :
       (i = 1 /\ now.doc.proses[1] \in Acts) \/ now.told[i] = earlier.told[i]

ReplaysDraws ==
  [][Finish /\ SameInputs /\ shown.origin = origin /\ SameLeads
       => Repeats(shown, shown')]_vars

(* A block is executed only for a reason: the previous render, finished or *)
(* preempted, did not get to it, or the run was forced from it or above,   *)
(* or it or a block above has another source or read another widget value. *)
(* That prose was edited, or read another value, is none.                  *)
Reason(i) ==
  \/ prev = Idle \/ i >= Len(prev.trace) \/ render.force < i
  \/ \E j \in 1..i : render.doc.blocks[j].src # prev.doc.blocks[j].src
  \/ \E e \in 1..Len(prev.trace[i + 1].env) :
       LET ran == prev.trace[i + 1].env[e] IN
       ran.src \in Sources /\ \E w \in DOMAIN ran.seen : render.table[w] # ran.seen[w]

NoNeedlessRun == [][Execute => Reason(Here)]_vars

-----------------------------------------------------------------------------
(* What the proof of Transparent needs.  Blocks is every block an editor   *)
(* may write.  Steady: a source always comes with the same kind of fence   *)
(* and the same directives, and a block only reads declared widgets.  What *)
(* a block reads depends on nothing but the values it reads.               *)

Blocks == UNION {{doc.blocks[i] : i \in DOMAIN doc.blocks} : doc \in Docs}

SteadyBlocks ==
  \A b, c \in Blocks : b.src = c.src => b.kind = c.kind /\ b.dir = c.dir

ReadsDeclared ==
  \A doc \in Docs : \A table \in TablesOf(doc), b \in Blocks : \A env :
    ReadsOf(b.src, env, table) \subseteq {w \in Widgets : table[w] # None}

ReadsLocal ==
  \A b \in Blocks, s, t \in Table : \A env :
    (\A w \in ReadsOf(b.src, env, s) : s[w] = t[w])
      => ReadsOf(b.src, env, t) = ReadsOf(b.src, env, s)

(* The state the i-th entry restores; before the first, the state its      *)
(* block started from.                                                     *)
Snapshot(i) ==
  IF i = 0 THEN State(<<>>, origin)
  ELSE State(cache[i].snapshot.ev.env, cache[i].snapshot.th)

(* An entry is the execution of some block on the state the entry before   *)
(* it restores, after the prose that stood between them, and records every *)
(* widget value that execution saw.                                        *)
RanOn(i) == Said(above[i].prose, Snapshot(i - 1), above[i].table)

EntrySound(i) ==
  \E b \in Blocks :
    /\ cache[i].hash = b.src
    /\ Snapshot(i) = After(b, RanOn(i), above[i].table)
    /\ cache[i].output = Output(b, Snapshot(i))
    /\ b.kind = "code" =>
         \A w \in ReadsOf(b.src, RanOn(i).env, above[i].table) :
           w \in DOMAIN cache[i].reads /\ cache[i].reads[w] = above[i].table[w]

CacheSound ==
  /\ ~origin.hold /\ Len(above) = Len(cache)
  /\ \A i \in 1..Len(cache) : above[i].table \in Table /\ EntrySound(i)

(* The entries a render has replayed or pushed are the states it has been  *)
(* through; those ahead of it are still valid for its inputs.  The live    *)
(* state is what the last block left, or the prose told since.             *)
RenderSound ==
  Running =>
    /\ Len(out) <= Len(cache) /\ Len(cache) <= Len(render.doc.blocks)
    /\ IsRunOf(render.doc, render.table)
    /\ \A i \in 1..Len(cache) :
         IF i <= Len(out) THEN trace[i + 1] = Snapshot(i)
         ELSE EntryValid(cache[i], render.doc.blocks[i], render.table)
    /\ cache = <<>> => render.start = origin
    /\ Live = IF Len(told) = Len(out) THEN Stage(Here)
              ELSE Said(render.doc.proses[Here], Stage(Here), render.table)

-----------------------------------------------------------------------------
(* What the proof of NoNeedlessRun needs.  An entry holds no value that    *)
(* the history it restores did not see; a run's history only grows; and    *)
(* what a render got through stays cached until the next one begins.       *)

SeenIn(env, w, value) ==
  \E e \in 1..Len(env) :
    env[e].src \in Sources /\ w \in DOMAIN env[e].seen /\ env[e].seen[w] = value

ReadsSeen ==
  \A i \in 1..Len(cache) : \A w \in DOMAIN cache[i].reads :
    SeenIn(cache[i].snapshot.ev.env, w, cache[i].reads[w])

Continues(env, earlier) ==
  Len(earlier) <= Len(env) /\ \A e \in 1..Len(earlier) : env[e] = earlier[e]

Grows(states) ==
  \A i \in 1..Len(states) : \A j \in 1..i : Continues(states[i].env, states[j].env)

CachedRun(doc, states, n) ==
  /\ n <= Len(cache)
  /\ \A i \in 1..n : /\ cache[i].hash = doc.blocks[i].src
                     /\ states[i + 1].env = cache[i].snapshot.ev.env

RunRecorded ==
  IF Running THEN Grows(trace) /\ CachedRun(render.doc, trace, Len(out))
  ELSE prev # Idle => Grows(prev.trace) /\ CachedRun(prev.doc, prev.trace, Len(prev.trace) - 1)

MissesHaveReasons ==
  Running => \A i \in (Len(cache) + 1)..Len(render.doc.blocks) : Reason(i)

=============================================================================
