----------------------------- MODULE RenderLoop -----------------------------
(***************************************************************************)
(* The live-render loop of one notebook of `rustlab-notebook watch`:       *)
(* crates/rustlab-notebook/src/server/render_loop.rs, with the socket      *)
(* handlers of ws.rs that feed it.                                         *)
(*                                                                         *)
(* A request (a file event, a slider drag, a Run click) goes through an    *)
(* unbounded channel to the coordinator, which merges what arrives until   *)
(* the channel is quiet and then schedules one render.  Scheduling bumps   *)
(* the notebook's generation and trips the cancel flag of the render in    *)
(* flight; each render is a task of its own, which runs on a blocking      *)
(* thread under the notebook's prefix-cache lock, and publishes only if    *)
(* its generation is still the newest when it is done.                     *)
(*                                                                         *)
(* The server is a current-thread runtime: what a task does between two    *)
(* awaits that can yield is one step here.  The html lock is never held    *)
(* across an await, so taking it never yields, and publishing is one step. *)
(***************************************************************************)
EXTENDS Naturals, Sequences, FiniteSets

CONSTANTS
  Blocks,      \* executable blocks of the notebook; a Run names one of them
  Runaway,     \* versions of the source whose execution never ends by itself
  Declaring,   \* versions of the source that declare the slider
  Unlinking,   \* versions an editor saves by unlinking and creating the file
  MaxEdits,    \* bound on the versions of the source
  MaxDrags,    \* bound on slider updates
  MaxRuns,     \* bound on Run clicks
  MaxInputs,   \* bound on versions, slider updates and Run clicks together
  MaxPanics    \* bound on panics inside a render

ASSUME BoundsAssumption ==
  /\ Blocks \in Nat
  /\ MaxEdits \in Nat /\ MaxDrags \in Nat /\ MaxRuns \in Nat /\ MaxInputs \in Nat
  /\ MaxPanics \in Nat

VARIABLES
  version,   \* the source on disk: the number of times it was rewritten
  present,   \* FALSE in the gap of an editor's unlink-and-create save
  watching,  \* the notify watcher runs, and with it the socket handlers
  noticed,   \* history: the newest version written while watched
  fsEvents,  \* file events the bridge thread has not forwarded yet
  slider,    \* widget_values: the live value, numbered by update
  saving,    \* block of a save_run_block whose file is written, request unsent
  inbox,     \* the coordinator's channel
  open,      \* a debounce window is open
  pending,   \* the requests of that window, merged
  gen,       \* render_gen
  slot,      \* generation owning the cancel slot, 0 when it is None
  tripped,   \* generations of live renders whose cancel flag is set
  task,      \* the render tasks that have not ended, by generation
  holder,    \* generation holding the render_cache lock, 0 when free
  poisoned,  \* a render panicked while it held that lock
  page,      \* the published html: its generation, source and slider
  spinner,   \* the last cell_status broadcast was "running"
  echoed,    \* history: the last flash id broadcast
  echoes,    \* history: how many broadcasts carried a flash id
  runs,      \* Run clicks so far
  panics     \* panics so far

fileVars  == <<version, present, watching, noticed>>
queueVars == <<inbox, open, pending>>
loopVars  == <<gen, slot, tripped, task, holder, poisoned>>
pageVars  == <<page, spinner, echoed, echoes>>
vars == <<fileVars, fsEvents, slider, saving, queueVars, loopVars, pageVars, runs, panics>>

-----------------------------------------------------------------------------
(* Requests.  force_from = None is the index past the last block: it is    *)
(* what the executor's clamp ignores, and Min treats it as merge_force     *)
(* treats None.  flash = None is 0.                                        *)

NoForce == Blocks
RenderRequest == [force : 0..Blocks, flash : Nat]
NoRequest == [force |-> NoForce, flash |-> 0]
Rerender  == NoRequest

MergeForce(a, b) == IF a <= b THEN a ELSE b

MergePending(prev, next) ==
  [force |-> MergeForce(prev.force, next.force),
   flash |-> IF next.flash # 0 THEN next.flash ELSE prev.flash]

Live == DOMAIN task

-----------------------------------------------------------------------------
(* The editor, the notify watcher and the bridge thread.                   *)

(* A file that was unlinked counts as the version that will be created.    *)
MoreInputs == version + slider + runs + (IF present THEN 0 ELSE 1) < MaxInputs

Notify == fsEvents' = IF watching THEN fsEvents + 1 ELSE fsEvents

EditorUnlink ==
  /\ present /\ version < MaxEdits /\ MoreInputs /\ version + 1 \in Unlinking
  /\ present' = FALSE
  /\ Notify
  /\ UNCHANGED <<version, watching, noticed, slider, saving, queueVars, loopVars,
                 pageVars, runs, panics>>

WriteSource ==
  /\ version < MaxEdits /\ (present => MoreInputs)
  /\ version' = version + 1
  /\ present' = TRUE
  /\ noticed' = IF watching THEN version' ELSE noticed
  /\ Notify

EditorWrite ==
  /\ WriteSource
  /\ UNCHANGED <<watching, slider, saving, queueVars, loopVars, pageVars, runs, panics>>

(* The startup render is done before the watcher starts: an edit between   *)
(* the two is seen by nobody.                                              *)
StartWatching ==
  /\ ~watching
  /\ watching' = TRUE
  /\ UNCHANGED <<version, present, noticed, fsEvents, slider, saving, queueVars,
                 loopVars, pageVars, runs, panics>>

Bridge ==
  /\ fsEvents > 0
  /\ fsEvents' = fsEvents - 1
  /\ inbox' = Append(inbox, Rerender)
  /\ UNCHANGED <<fileVars, slider, saving, open, pending, loopVars, pageVars, runs, panics>>

-----------------------------------------------------------------------------
(* Inbound socket messages.                                                *)

\* Mutant of RequestWidgetRender: the value is stored, the coordinator not told.
WidgetRenderNotRequested(flash) == inbox' = inbox

RequestWidgetRender(flash) ==
  inbox' = Append(inbox, [force |-> NoForce, flash |-> flash])

(* A drag is accepted when the published page declares the widget.         *)
WidgetUpdate ==
  /\ watching /\ slider < MaxDrags /\ MoreInputs
  /\ page.ver \in Declaring
  /\ slider' = slider + 1
  /\ RequestWidgetRender(slider')
  /\ UNCHANGED <<fileVars, fsEvents, saving, open, pending, loopVars, pageVars, runs, panics>>

RequestRun(k) ==
  /\ spinner' = TRUE
  /\ inbox' = Append(inbox, [force |-> k, flash |-> 0])

RunBlock(k) ==
  /\ watching /\ runs < MaxRuns /\ MoreInputs
  /\ runs' = runs + 1
  /\ RequestRun(k)
  /\ UNCHANGED <<fileVars, fsEvents, slider, saving, open, pending, loopVars,
                 page, echoed, echoes, panics>>

(* Shift+Enter: the file is rewritten, the verdict is sent on the socket   *)
(* (an await), and only then the running status and the request.           *)
SaveRunBlock(k) ==
  /\ watching /\ present /\ runs < MaxRuns /\ saving = NoForce
  /\ runs' = runs + 1
  /\ saving' = k
  /\ WriteSource
  /\ UNCHANGED <<watching, slider, queueVars, loopVars, pageVars, panics>>

SaveRunRequest ==
  /\ saving # NoForce
  /\ saving' = NoForce
  /\ RequestRun(saving)
  /\ UNCHANGED <<fileVars, fsEvents, slider, open, pending, loopVars, page, echoed,
                 echoes, runs, panics>>

(* The socket closed under the verdict: the handler returns.               *)
SaveRunDropped ==
  /\ saving # NoForce
  /\ saving' = NoForce
  /\ UNCHANGED <<fileVars, fsEvents, slider, queueVars, loopVars, pageVars, runs, panics>>

-----------------------------------------------------------------------------
(* The coordinator.                                                        *)

(* A request that opens a window finds nothing to merge with: the map of   *)
(* pending renders is a new one for every window.                          *)
Receive ==
  /\ inbox # <<>>
  /\ open' = TRUE
  /\ pending' = MergePending(pending, Head(inbox))
  /\ inbox' = Tail(inbox)
  /\ UNCHANGED <<fileVars, fsEvents, slider, saving, loopVars, pageVars, runs, panics>>

Spawned(req) ==
  [st |-> "spawned", force |-> req.force, flash |-> req.flash,
   slider |-> 0, ver |-> 0]

NextGeneration == gen + 1

\* Mutant of InFlight: the flag found in the cancel slot is not set.
NoneInFlight == {}

InFlight == {slot} \ {0}

\* Mutant of Drained: the flash id of a window is left for the next one.
FlashKept == [NoRequest EXCEPT !.flash = pending.flash]

Drained == NoRequest

(* The window closes (the timer may win against a message that is ready):  *)
(* schedule_render bumps the generation, takes the cancel slot, and trips  *)
(* the flag it finds there.                                                *)
ScheduleRender ==
  /\ open
  /\ open' = FALSE
  /\ pending' = Drained
  /\ gen' = NextGeneration
  /\ slot' = gen'
  /\ tripped' = tripped \cup InFlight
  /\ task' = [g \in Live \cup {gen'} |->
                IF g = gen' THEN Spawned(pending) ELSE task[g]]
  /\ UNCHANGED <<fileVars, fsEvents, slider, saving, inbox, holder, poisoned,
                 pageVars, runs, panics>>

-----------------------------------------------------------------------------
(* A render task.                                                          *)

SnapshotWidgets(g) ==
  /\ task[g].st = "spawned"
  /\ task' = [task EXCEPT ![g].st = "queued", ![g].slider = slider]
  /\ UNCHANGED <<fileVars, fsEvents, slider, saving, queueVars, gen, slot, tripped, holder,
                 poisoned, pageVars, runs, panics>>

\* Mutant of CacheFree: renders of one notebook are not serialised.
CacheNotLocked == TRUE

CacheFree == holder = 0

(* On a blocking thread: take the cache lock, then read the file.          *)
BeginRender(g) ==
  /\ task[g].st = "queued" /\ CacheFree /\ ~poisoned
  /\ \/ /\ present
        /\ task' = [task EXCEPT ![g].st = "running", ![g].ver = version]
        /\ holder' = g
     \/ /\ ~present
        /\ task' = [task EXCEPT ![g].st = "error"]
        /\ holder' = holder
  /\ UNCHANGED <<fileVars, fsEvents, slider, saving, queueVars, gen, slot, tripped, poisoned,
                 pageVars, runs, panics>>

\* Mutant of BeginPoisoned: a poisoned lock is waited for.
WaitPoisoned(g) == FALSE

(* `lock().unwrap()` on a poisoned lock panics in its turn.                *)
BeginPoisoned(g) ==
  /\ task[g].st = "queued" /\ CacheFree /\ poisoned
  /\ task' = [task EXCEPT ![g].st = "error"]
  /\ UNCHANGED <<fileVars, fsEvents, slider, saving, queueVars, gen, slot, tripped, holder,
                 poisoned, pageVars, runs, panics>>

EndRender(g, outcome) ==
  /\ task[g].st = "running"
  /\ task' = [task EXCEPT ![g].st = outcome]
  /\ holder' = 0
  /\ UNCHANGED <<fileVars, fsEvents, slider, saving, queueVars, gen, slot, tripped,
                 pageVars, runs>>

(* Runs to its end; a flag tripped after the last poll is not noticed.     *)
FinishRender(g) ==
  /\ task[g].ver \notin Runaway
  /\ EndRender(g, "page")
  /\ UNCHANGED <<poisoned, panics>>

PreemptRender(g) ==
  /\ g \in tripped
  /\ EndRender(g, "preempted")
  /\ UNCHANGED <<poisoned, panics>>

PanicRender(g) ==
  /\ panics < MaxPanics
  /\ panics' = panics + 1
  /\ poisoned' = TRUE
  /\ EndRender(g, "error")

(* Back on the runtime: the task gives up its cancel slot and ends.        *)
Leave(g) ==
  /\ slot' = IF slot = g THEN 0 ELSE slot
  /\ tripped' = tripped \ {g}
  /\ task' = [h \in Live \ {g} |-> task[h]]
  /\ UNCHANGED <<fileVars, fsEvents, slider, saving, queueVars, gen, holder, poisoned,
                 runs, panics>>

\* Mutant of IsStale: no stale-render guard.
NeverStale(g) == FALSE

IsStale(g) == gen # g

AbandonRender(g) ==
  /\ \/ task[g].st = "preempted"
     \/ task[g].st = "page" /\ IsStale(g)
  /\ Leave(g)
  /\ UNCHANGED pageVars

StatusDone == spinner' = FALSE

ReportError(g) ==
  /\ task[g].st = "error"
  /\ Leave(g)
  /\ StatusDone
  /\ UNCHANGED <<page, echoed, echoes>>

(* The content envelope (none when no block changed) carries the flash id; *)
(* the terminal status follows it.                                         *)
Publish(g) ==
  /\ task[g].st = "page" /\ ~IsStale(g)
  /\ Leave(g)
  /\ page' = [gen |-> g, ver |-> task[g].ver, slider |-> task[g].slider]
  /\ StatusDone
  /\ \E changed \in BOOLEAN :
       IF changed /\ task[g].flash # 0
         THEN echoed' = task[g].flash /\ echoes' = echoes + 1
         ELSE UNCHANGED <<echoed, echoes>>

-----------------------------------------------------------------------------
Init ==
  /\ version = 0 /\ present = TRUE /\ watching = FALSE /\ noticed = 0
  /\ fsEvents = 0 /\ slider = 0 /\ saving = NoForce
  /\ inbox = <<>> /\ open = FALSE /\ pending = NoRequest
  /\ gen = 0 /\ slot = 0 /\ tripped = {} /\ task = [g \in {} |-> Spawned(NoRequest)]
  /\ holder = 0 /\ poisoned = FALSE
  /\ page = [gen |-> 0, ver |-> 0, slider |-> 0]
  /\ spinner = FALSE /\ echoed = 0 /\ echoes = 0
  /\ runs = 0 /\ panics = 0

RenderStep(g) ==
  \/ SnapshotWidgets(g) \/ BeginRender(g) \/ BeginPoisoned(g)
  \/ FinishRender(g) \/ PreemptRender(g)
  \/ AbandonRender(g) \/ ReportError(g) \/ Publish(g)

(* What the runtime and its threads do without anyone outside acting.      *)
Server ==
  \/ StartWatching \/ Bridge \/ SaveRunRequest \/ Receive \/ ScheduleRender
  \/ \E g \in Live : RenderStep(g)

Environment ==
  \/ EditorUnlink \/ EditorWrite \/ WidgetUpdate \/ SaveRunDropped
  \/ \E k \in 0..(Blocks - 1) : RunBlock(k) \/ SaveRunBlock(k)
  \/ \E g \in Live : PanicRender(g)

Next == Server \/ Environment

(* The runtime runs what is ready; an editor that unlinked the file writes *)
(* it.  Nobody has to edit, drag or click.                                 *)
Fairness == WF_vars(Server) /\ WF_vars(~present /\ EditorWrite)

Spec == Init /\ [][Next]_vars /\ Fairness

-----------------------------------------------------------------------------
TaskState == {"spawned", "queued", "running", "page", "preempted", "error"}

Task == [st : TaskState, force : 0..Blocks, flash : Nat, slider : Nat, ver : Nat]

Flags ==
  /\ present \in BOOLEAN /\ watching \in BOOLEAN /\ open \in BOOLEAN
  /\ poisoned \in BOOLEAN /\ spinner \in BOOLEAN

Counters ==
  /\ version \in Nat /\ noticed \in Nat /\ fsEvents \in Nat /\ slider \in Nat
  /\ saving \in 0..Blocks /\ runs \in Nat /\ panics \in Nat

Queues == inbox \in Seq(RenderRequest) /\ pending \in RenderRequest

Renders ==
  /\ gen \in Nat /\ slot \in 0..gen /\ holder \in 0..gen
  /\ Live \subseteq 1..gen /\ task \in [Live -> Task] /\ tripped \subseteq 1..gen

Published ==
  page \in [gen : 0..gen, ver : Nat, slider : Nat] /\ echoed \in Nat /\ echoes \in Nat

\* The render_cache lock has one holder, and it is the task that runs.
LockHeldWhileRunning ==
  \A g \in Live : (task[g].st = "running") <=> (holder = g)
LockOwned == LockHeldWhileRunning /\ holder \in Live \cup {0}

(* Every part of the loop's state has its type; in particular the slot,    *)
(* the lock holder, the cancel flags and the page name generations that    *)
(* were handed out.  Whoever runs holds the cache lock, nobody else does,  *)
(* and it is given back on every way out, panics included.                 *)
TypeOK == Flags /\ Counters /\ Queues /\ Renders /\ Published /\ LockOwned

(* Preemption reaches every older render: the newest is the only one whose *)
(* cancel flag is not set, so a runaway block of an older one stops.       *)
OnlyNewestRuns == \A g \in Live : g = gen \/ g \in tripped

(* A stale render never clobbers a newer one: neither the generation, nor  *)
(* the source, nor the slider value of the published page ever goes back.  *)
PageForward ==
  /\ page'.gen >= page.gen
  /\ page'.ver >= page.ver
  /\ page'.slider >= page.slider
NeverBackwards == [][PageForward]_vars

(* A flash id is broadcast at most once, in the order the drags were made, *)
(* and only with a page that was rendered with the value the drag set: an  *)
(* id dies with its window and with its render, and no later save or run   *)
(* outlines plots on its account.                                          *)
EchoForward == echoes' # echoes => echoed' > echoed /\ page'.slider >= echoed'
EchoOwnRender == [][EchoForward]_vars

-----------------------------------------------------------------------------
(* What the proofs need besides the types.                                 *)

(* The cancel slot belongs to the newest render, for as long as it lives.  *)
SlotOwned ==
  /\ slot # 0 => slot = gen /\ slot \in Live
  /\ gen \in Live => slot = gen

(* A render that may still publish has read nothing older than the page.   *)
AheadOfPage ==
  /\ page.ver <= version /\ page.slider <= slider
  /\ \A g \in Live :
       /\ task[g].ver <= version /\ task[g].slider <= slider
       /\ g # page.gen
       /\ g > page.gen /\ task[g].st \in {"running", "page"} => task[g].ver >= page.ver
       /\ g > page.gen /\ task[g].st # "spawned" => task[g].slider >= page.slider

(* Flash ids keep the order of the drags on their way through the channel, *)
(* the window and the tasks.                                               *)
NotReached(flash) == flash > echoed /\ \A g \in Live : flash > task[g].flash

InboxFlashes ==
  \A i \in 1..Len(inbox) : inbox[i].flash # 0 =>
    /\ inbox[i].flash <= slider /\ inbox[i].flash > pending.flash
    /\ NotReached(inbox[i].flash)
    /\ \A j \in 1..(i - 1) : inbox[i].flash > inbox[j].flash

PendingFlash == pending.flash # 0 => pending.flash <= slider /\ NotReached(pending.flash)

TaskFlashes ==
  /\ echoed <= slider
  /\ \A g \in Live :
       /\ task[g].flash <= slider
       /\ task[g].st # "spawned" => task[g].flash <= task[g].slider
       /\ task[g].flash # 0 =>
            /\ g > page.gen => task[g].flash > echoed
            /\ \A h \in Live : h < g => task[g].flash > task[h].flash

FlashOrder == InboxFlashes /\ PendingFlash /\ TaskFlashes

(* Why a settled page is current.  Something is on its way that will       *)
(* schedule another render, or the newest render, which nobody preempts,   *)
(* has not yet missed what the page lacks.                                 *)
Upcoming == inbox # <<>> \/ open
Unsettled == ~present \/ fsEvents > 0 \/ Upcoming

NewestSpared ==
  /\ gen \notin tripped
  /\ gen \in Live => task[gen].st # "preempted"

Newest(states) == gen \in Live /\ task[gen].st \in states

SpinnerOwed == spinner => Upcoming \/ gen \in Live

SourceOwed ==
  \/ poisoned \/ Unsettled \/ page.ver >= noticed
  \/ Newest({"spawned", "queued"})
  \/ Newest({"running", "page"}) /\ task[gen].ver >= noticed

SliderOwed ==
  \/ poisoned \/ Unsettled \/ page.slider = slider
  \/ Newest({"spawned"})
  \/ Newest({"queued", "running", "page"}) /\ task[gen].slider = slider

NothingMissed ==
  /\ noticed <= version
  /\ ~watching => noticed = 0 /\ slider = 0
  /\ NewestSpared /\ SpinnerOwed /\ SourceOwed /\ SliderOwed

-----------------------------------------------------------------------------
Quiescent ==
  /\ present /\ watching /\ fsEvents = 0 /\ saving = NoForce
  /\ inbox = <<>> /\ ~open /\ Live = {}

(* When nothing is queued or in flight, the published page shows the       *)
(* newest source the watcher saw written and the live slider value         *)
(* (unless a panic has poisoned the cache lock), and no spinner is left.   *)
SettledPageCurrent ==
  Quiescent =>
    /\ ~spinner
    /\ poisoned \/ (page.ver >= noticed /\ page.slider = slider)

(* Once the source on disk is one that ends, the loop settles: a runaway   *)
(* render, a failed one and a preempted one all make way.                  *)
Settles == <>[](version \notin Runaway) => <>[]Quiescent
=============================================================================
