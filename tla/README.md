# rustlab: formal models

TLA+ models of the parts of rustlab where state lives longer than one call: the
live notebook server and its browser tabs, the writes to a notebook, the prefix
cache, the persistent function cache and its store, parallel map, the sessions
between scripts and the viewer, and the re-rendering watcher. TLC checks them on
small instances; TLAPS proves the central safety properties for every instance.

rustlab is a scripting language for numerics and signal processing, a plotter, a
viewer, and a notebook tool that renders Markdown with executable blocks and
serves it live. Most of its code is sequential numerics. Concurrency, preemption,
caching and sharing are concentrated in a few files, and those are what the
models are about.

## 1. Inventory

Paths are below `src/crates/`.

| Component | State it keeps | Operations | Interacts with | Hard behaviour | What makes it correct |
|---|---|---|---|---|---|
| Live render loop, `rustlab-notebook/src/server/render_loop.rs` | generation counter, cancel slot, prefix-cache lock, published page, merged pending request | file event, debounce, schedule, render, publish, abandon, report | watcher thread and bridge, socket handlers, blocking threads, broadcast channel | preemption by cancel flag, renders ending out of order, panics under a lock, files that vanish for a moment | newest input is shown in the end; nothing older is published; a runaway block never blocks newer work; the spinner stops |
| Notebook socket, `server/ws.rs` | live widget values, one subscription per tab | `widget_update`, `run_block`, `save_run_block`; push updates; resync on lag | render loop through a channel, page over HTTP | awaits between two steps of one message, lagging receivers | every accepted drag or run reaches a render; no tab keeps an old page |
| Block diff and live page, `server/diff.rs`, the page scripts in `server/{ws,page,cell}.rs` | last published HTML, the page in each tab, its cell editor | classify, broadcast a patch, a reconciling or a full update, apply, defer, reload | render loop, socket | lost or late updates, patches that meet an editor with unsaved text | a tab that keeps up shows the published pages in order and ends on the last; unsaved text survives |
| Notebook executor and prefix cache, `execute.rs`, `cache.rs` | entries (source hash, output, snapshot, widget reads), evaluator, thread-locals for random numbers and figures | valid prefix, truncate, replay, execute, abandon | evaluator, plot crate, widget table | state captured on one thread and restored on another, partial runs, widget reads discovered while running | a cached render shows what a full one would; unaffected blocks do not run |
| Notebook writes, `server/http.rs`, `server/cell.rs`, `server/page.rs`, `comments.rs` | the Markdown file, undo slot, save lock | save, cell save, annotate, undo, render, restart | editors outside the browser, render loop | check and write in two steps, two writers, a handler that is dropped half-way | who compares never overwrites what he has not seen; the lock is let go |
| Persistent function cache, `rustlab-script/src/{cache_registry,purity,ast_hash}.rs`, dispatch in `eval/mod.rs` | scope (removed set), memo of entry ids, defined functions | `cache enable/off/add/remove/list/clear/prune`, function definition, call | SQLite store, purity checks | definitions in any order, redefinitions, several processes | a script cannot tell that the cache is there; impure functions never enter it |
| Function cache store, `rustlab-cache/src/store.rs` | rows on disk, schema version, metadata | open, get, put, clear, prune by age or size | every rustlab process on the machine | concurrent writers, first opening, eviction in several statements, crashes | a row never changes; a newer store is never written to; an eviction removes just enough |
| Parallel map and random generator, `eval/parmap.rs`, `eval/rng.rs` | generator, parallel flag and path jail per thread, calls in progress | call, claim a task, draw, nested call, wait, leave | rayon's pool, evaluator | a waiting thread takes up other tasks on top of its own | the answer is that of the sequential loop, whatever the schedule |
| Viewer protocol, `rustlab-proto`, `rustlab-plot/src/{viewer_live,figure,plot_abort}.rs`, `rustlab-viewer` | figure store and connection of each script, abort flags, the viewer's queue and windows | plot, figure, close, viewer on/off, live figure; take, reply, hang up, apply; Ctrl+C; crash | script processes and the viewer over a socket | dead peers, interrupts during a frame, bounded buffers on every side | framing and replies stay in step; a figure keeps its window; a script never hangs on its viewer |
| Re-rendering watcher, `watch.rs`, `embed.rs` | dependency graph, last written and self-written hashes, pending files | initial pass, event, debounce, render, write, scan | file watcher, prefix cache, authors | its own writes come back as events; saves between its steps | it does not feed on itself; at rest the pages are current |
| Server start-up and collections, `server/mod.rs` | notebooks by path, process-wide working directory | start-up render, serve, refresh of the index, shut down | all of the server | one lock for the working directory of all notebooks | one notebook cannot stop another |
| Lexer, parser, evaluator, numerics, plots, exports, front ends | per call, or per script | - | - | sequential | numerical accuracy, layout: out of a model checker's reach |

`PROJECT.json` lists these with their files, the ones that are not modelled too,
and under `hazards` the places in the code that are hard to test, each with the
properties that watch it or the reason why none does.

## 2. Modules

| Module | Models | Instances | Theorems |
|---|---|---|---|
| `RenderLoop` | the render loop of one notebook with the socket messages that feed it | `MCRenderLoop` | `RenderLoopProof` |
| `PageView` | what a tab that keeps up is promised | | |
| `LiveSync` | diff, broadcast, lag, and the page scripts of the tabs; implements `PageView` | `MCLiveSync` | `LiveSyncProof` |
| `PrefixCache` | one notebook's prefix cache under edits, drags, runs and cancellations | `MCPrefixCache` | `PrefixCacheProof` |
| `NotebookWrites` | the file under the browser's editors, comments and an editor outside | `MCNotebookWrites` | `NotebookFilesProof` |
| `FnCalls` | what the function cache promises: calls answer what definitions compute | | |
| `FnCache` | scope, gate, entry ids, dispatch and shared store; implements `FnCalls` | `MCFnCache` | `FnCacheProof` |
| `CacheStore` | the SQLite store statement by statement | `MCCacheStore` | `CacheStoreProof` |
| `ForLoop` | what `parmap` promises: the answer of a seeded sequential loop | | |
| `ParMap` | tasks on the threads of the pool; implements `ForLoop` | `MCParMap` | `ParMapProof` |
| `ViewerSession` | scripts, connections, queue and windows of the viewer | itself | `ViewerSessionProof` |
| `WatchLoop` | the watcher thread and the authors | `MCWatchLoop` | `NotebookFilesProof` |

Three refinements tie a detailed module to an abstract one: `LiveSync` to
`PageView`, `FnCache` to `FnCalls`, `ParMap` to `ForLoop`. The others meet through
what they abstract from each other: `RenderLoop` serialises the renders that
`PrefixCache` takes one by one, and its published pages are the documents that
`LiveSync` publishes and `NotebookWrites` calls `rendered`; the rows that
`FnCache` reads and prunes at will are the ones `CacheStore` shows to be final.

### RenderLoop

The server is a current-thread tokio runtime (`server/mod.rs:136-141`), so what a
task does between two awaits that can yield is one action. The watcher and its
bridge, and the renders themselves, run on other threads and interleave freely.

* *Input.* `EditorWrite`, `EditorUnlink` are the editor; `Bridge` forwards one
  file event to the coordinator's channel. `WidgetUpdate` and `RunBlock` are whole
  socket messages. `SaveRunBlock` is two actions, `SaveRunBlock` and
  `SaveRunRequest` (or `SaveRunDropped`), because the handler awaits the socket
  between writing the file and requesting the run.
* *Coordinator.* `Receive` takes one request into the debounce window and merges
  it (`merge_pending`); `ScheduleRender` closes the window at any moment, since the
  model has no clock. It bumps `render_gen`, takes the cancel slot and trips the
  flag of the render it finds there.
* *Render.* A record per generation: `spawned`, `queued` (slider values
  snapshotted), `running` (lock held, file read), then `page`, `preempted` or
  `error`. `FinishRender` may happen even though the flag is set: the last poll is
  over. `PanicRender` poisons the lock, and every later render ends in
  `BeginPoisoned`.
* *Outcome.* `Publish`, `AbandonRender`, `ReportError` are what the task does back
  on the runtime. The HTML lock is never held across an await, so publishing is
  one action.

Every notebook is rendered before the watcher starts (`server/mod.rs:178`);
`StartWatching` is that moment, and an edit before it is noticed by nobody.
`force_from = None` is written as the number of blocks, which the executor's clamp
ignores; a missing flash id is 0; a slider value is the number of the drag that
set it. `noticed`, `echoed` and `echoes` are history variables: the newest version
the watcher saw written, the last flash id broadcast, and the number of broadcasts
that carried one. The counter is what makes a second broadcast of the same id a step
of its own for `EchoOwnRender`; that the window starts without an id is `Drained`.

### PageView and LiveSync

`PageView` gives each tab a line: the page it shows and those on their way to it.
Publishing appends to every line, showing drops the head, a slow tab may jump to
the newest.

In `LiveSync` a document is a sequence of block contents, the positions that are
nested in a wrapper, and the chrome around the blocks. `Publish` is the outcome of
a render: `Decide` compares the new blocks with the old (`classify`), and
`Envelope` is the patch, the reconciling list of ids, or the full page that is
broadcast. The log keeps every broadcast, a receiver is a cursor in it, and the
channel is its last `Capacity` entries: `Forward` is one turn of the handler's
loop, `Resync` the branch for a lagging receiver, which sends the page and moves
the cursor to the oldest entry still retained, so that older updates are replayed
after it. `Apply` is the page script of a tab with its vetoes: a patch for a block
under an open cell editor with unsaved text is skipped and remembered, a
structural update is refused. `Load`, `Subscribe`, `Drop`, `GiveUp`, `Reconnect`
are the life of a tab.

`ImplementsPageView` maps the line of a tab to what it shows, its socket and the
unread part of the log. `SteadyLayout` is a premise: wrappers and chrome change
only together with the blocks. Without it a page is published and broadcast to
nobody (`render_loop.rs:536`), and a block that leaves a wrapper is reconciled as
if it had not (`render_loop.rs:525-527`).

### PrefixCache

Execution is symbolic. The interpreter's state is the history of executed blocks,
each with the widget values it saw, the random draw it took (generator and
position) and the figure state it started from. Two states are equal exactly when
every program must behave alike in both, so comparing what a cached render shows
with what a full execution shows is comparing these histories.

`Begin` is everything `execute_core` does before its loop: widget table, reset of
the figure, longest valid prefix, clamp by the run request, truncation. `Tell` is
the Markdown between two executable blocks (callouts included): each `${expr}` runs
as a statement on the live evaluator, generator and figure (`execute.rs:794-802`), in
every render, and has no entry in the cache. Most prose leaves no trace; prose in
`Acts` (`${rand()}`, say) does, and is told by `Ran`, the operator that runs a block.
All that stands between two blocks is told in one step and acts at most once.
`Replay` and `Execute` are the two branches of the loop body for a block; a replay
overwrites whatever the prose before it did. `AbandonBetween` and `AbandonInBlock` are
the returns on the cancel flag; the second leaves what the block did to its thread. Renders of one notebook are
serialised (that is part of `TypeOK` of `RenderLoop`, and the theorem
`RendersSerialised`), but each takes any thread of the pool.

The properties compare against definitions that know nothing of the cache: `After`,
`Said` and `Output` iterate over the document from the top. A block runs on what the
prose before it left. The history `above` keeps, per entry, the prose that stood
there when the block ran, with its widget values, and `Led` is what that prose does
to the run; `Transparent` uses it in place of what the prose of this document does.
The two are the same unless prose that acts was edited, or a widget it reads was
moved, while the block below stayed cached. That is what the code does, and all it
does: prose itself is always shown as the present document has it.

### NotebookWrites

A file is a sequence of code blocks, prose and notes; a position stands for a byte
offset and a whole file for its hash. The handlers hold the notebook's save lock
between `Read(t)`, which reads the file and decides (`Verdict`: the comparison of
`POST /save` with nothing, the block a cell save names and its old content, the
offsets and the hash a comment was made for, the bytes the undo slot expects), and
`Write(t)`, which renames the new file into place. `WriteFails` stands for every
refusal after the read and for the disk; `Abandon` is the handler dropped with its
connection, whose rename may still land (`Land`) after the lock is released.
`ExternalWrite` is an editor that takes no lock, `Render` publishes the file,
`Restart` forgets locks and undo. On the other side each tab has the page it
shows, the whole-document pane with its buffer (empty if the load failed), and the
cell editor; `LiveUpdate`
and `Reload` move it to the rendered file and are refused while text is unsaved.

### FnCalls and FnCache

A body is a code and a sequence of callees, a result is the tree of codes that
ran. An impure code adds a fresh number to its result, so a stale or wrongly shared
random draw is visible. A free code has an unbound variable and fails.

`FnCalls` is the abstract specification: definitions change in any way; a call from
the top of a script of a function that is transitively pure answers
`Computes(fns, f)`. `FnCache` has the machinery. `FunctionDef` is the whole
`FunctionDef` arm: insert, clear the memo, gate, rescan. A call is `Called` and
then `Hit` or `Miss`; a miss pushes a frame, whose callees are dispatched the same
way; `Return` stores the result with `INSERT OR IGNORE` and hands it down; `Fail`
and `Interrupt` unwind. Other processes act between any two of these steps, with
definitions of their own under the same names. `CachePrune` deletes any set of
rows, which covers what `CacheStore` does in several statements: clearing, ageing
and eviction from any process.

The gate's full transitive check is in the definition arm and in `cache enable`;
`cache add file` and `cache add function` check one body only. The model keeps
that difference. A definition also sweeps the functions that are out of scope and
takes back those that now pass; `cache add file` does not, so a function whose
helper a file brought stays out until the next definition or opening. `NotForgotten`
allows that through `unswept`, a history of what files brought. `all_scope` is never turned off by any statement, so the explicit
and file-loaded sets decide nothing and are left out. All processes are permitted
to open the store. Arguments are fixed, since their fingerprint is half of a row's
key and results for different arguments never meet.

### CacheStore

A statement of SQLite is one step. Opening is four (`CreateSchema`,
`ReadVersion`, `InsertVersion`, `StampRelease`), `put_with_meta` is two, and
`prune_to_max_size` is a total, a list and one `DELETE` per row, each committed on
its own (`execute_batch` opens no transaction). Threads of one process share a
`Store` behind a mutex, processes share only the file. `Exit` is a process that
ends anywhere. `steady` marks an eviction that nobody disturbed: rows deleted by
another process meanwhile are counted twice, and then it may remove too much or
too little. Reads (`get`, `list`, the counts) change nothing and are left out;
`FnCache` has the reads that matter.

### ForLoop and ParMap

`ForLoop` knows no threads: `Loop(c)` is what a sequential loop over the elements
answers when element `i` starts from the seed derived for it, with the first error
in input order. A seed is the path from the caller's `seed(N)`, a number is a seed
and a count, and the log of an answer says which number each place of the script
drew. What an element comes to (`Ran`) is said without a loop: it fails if one of
its operations fails, and else its log is the union of what they drew, the n-th
under the count of draws before it. Maps nest (`Trial` recurses over the lambdas a
lambda maps, whose number is finite and which never reach themselves, `Nesting`).
`ParMap` has the threads: a stack of frames each, because a task that waits
(`Widen` for an array operation long enough to use the pool, `CallNested` for a
nested map) lends its thread to any task that is still to do (`Claim`). `Claim`
seeds the generator and saves and sets the flag and the jail, `Leave` restores the
last two. Letting any idle or waiting thread claim any task allows more than
rayon's stealing does. Bodies are sequences of draws, wide operations, denied
builtins and nested maps.

### ViewerSession

A script is one thread. A statement that talks to the viewer becomes a job whose
messages go out one at a time (`Send`, `ReadReply`) through a bounded wire into
the viewer's thread for that connection (`Take`, `Reply`, `Hangup`) and its
bounded queue, from which the window thread takes them (`ProcessMessage`). The
statements are `Plot`, `FigureNew`, `FigureSwitch`, the three forms of close,
`ViewerOn`, `ViewerOff`, and the live figure's `LiveOpen`, `LiveUpdate`,
`LiveDraw`, `LiveLabel`, `LiveClose`. `Press` is Ctrl+C, which the job notices
between two messages, inside a frame (leaving half of it on the wire) or waiting
for a reply; `Crash` and `Restart` are the viewer; the `Lose…` actions are what
each statement does about an error of its socket.

### WatchLoop

One thread: `Install` the watcher after the initial pass, `Receive` events,
`Flush` the pending ones into the set of pages to render, then for each page
`Exists`, `ReadSource`, `WriteOutput`, `Scan`, `Record`; the page in turn is the first
in path order (`Subject`). Authors save and remove files between any two of these. A render's own write comes back as an event and is told from an
author's by the hash recorded after it. The destination is another directory, or
the source itself ("in place"). `author` is what each author last made of a file;
`lapsed` names the files whose last change nobody could notice, `gaps` the pages
that embedded a missing file when they were last scanned. What a file embeds,
directly or not, is the least set closed under its references (`Reached`), which is
what the walk with a stack computes. The names `WatchSpec`, `WatchTypeOK` and so on
let the module stand beside `NotebookWrites` in one module of proofs.

## 3. Runs

| Run | States | Shows |
|---|---|---|
| `RenderLoopSettles` | 250 000 | any three of two saves (one of a source that never ends, one that unlinks the file for a moment), two drags and a run, and one panic: preemption, serialisation, no step backwards, flash ids broadcast once and with their own page, page and spinner settle |
| `LiveSyncSteady` | 340 000 | patches, reconciling and full updates, a slow or dropped socket, an editor with unsaved text: the tab shows the published pages in order and ends on the last |
| `LiveSyncReaped` | violation | the mark of a patch that was skipped over unsaved text is lost with its section, and the tab keeps a page without that block |
| `PrefixCacheSteady` | 1 326 000 | three renders, two threads, three documents with prose that draws, every drag, force and cancellation: transparency, replay of draws, no needless run |
| `NotebookWritesGuarded` | 739 000 | a tab with cell editor and comments, a tab with the whole-document pane, an editor outside, dropped connections, restarts: guarded writes overwrite only what they saw, every request ends |
| `FnCacheScope` | 1 000 000 | two processes, one store, any six statements: scope is pure, nothing pure is forgotten, calls answer what definitions compute |
| `FnCacheEdited` | violation | a file that is edited and loaded again answers with the old body |
| `CacheStoreShared` | 842 000 | programs of two schema versions, three threads, four calls, a crash: a newer store is not written to, rows are final, an undisturbed eviction is exact |
| `ParMapLoop` | 107 500 | two callers, two threads, a nested, a failing and a denied map: answers of the sequential loop, scopes kept apart, every call returns |
| `ParMapLate` | violation | a lambda that draws after a nested map answers differently under one seed |
| `ViewerSessionAbort` | 566 000 | four statements, a Ctrl+C, a viewer that dies and comes back, one place in every buffer: framing and replies in step, windows kept apart, reported plots arrive, every statement returns |
| `WatchLoopSettles` | 593 000 | a chain of embeds, random draws, both destinations, saves and a removal: no feeding on its own writes, pages current at rest |

### The three findings

* *A loaded file that was edited* (`FnCacheEdited`). `cache_add_file` replaces
  functions but does not clear the memo of entry ids, which the `FunctionDef` arm
  does (`eval/mod.rs:1286`). A function called before its file was edited and
  loaded again keeps the entry id of its old body, and the next call answers the
  old result; docs/functions.md:5033-5035 promises that an edit invalidates it.
* *A section reaped with its mark* (`LiveSyncReaped`). A partial patch for a
  section whose cell editor holds unsaved text is skipped and the section marked
  `rl-cell-stale` (`ws.rs:637-642`), while the server goes on from the patched
  block. When the text is typed back and a reconcile follows, it names the new
  block without its HTML; `applyReconcile` finds neither, leaves it out and removes
  the old section with the mark (`ws.rs:693`), so that nothing reloads the page:
  `cell.rs:286-288` promises that such a page is reloaded.
* *Draws after a wait* (`ParMapLate`). A task seeds the generator of its thread
  when it starts and nothing restores it. A task that waits, for a nested `parmap`
  or for an array operation of 131 072 elements or more, and draws afterwards takes
  its numbers from whatever its thread ran meanwhile; `parmap.rs:204-206` promises
  bit-identical results under one seed. The scripts of `ParMapLoop` draw only
  before they wait.

### Disagreements described in words

What the models made visible and no run is spent on:

* A `done` status of an earlier render stops the pulse of a Run that has not begun
  (docs/notebooks.md:403-405 says it lasts until that run is over). `Settles` only
  asks that no spinner stays.
* A hide directive added above an unchanged block does not show, because the key
  of a block is its source; hence the premise `SteadyBlocks`.
* A block that reads a widget declared further down leaves no trace of the read in
  its entry, and a drag does not run it again; hence `ReadsDeclared`.
* Prose is not part of a block's key. A block that stays cached below prose that acts
  (`${rand()}` edited away, or scaled by a slider that was moved) keeps the draws it
  made when it ran, which a run from the top would not give. `Transparent` and
  `ReplaysDraws` name the case through `Led` and `SameLeads`. The documentation lets
  an edit of prose execute nothing (docs/notebooks.md:556-558, `cache.rs:26-29`), so
  this is no finding.
* An unseeded first block draws other numbers when it is run again, and a figure
  held under a handle survives into the next render; both are part of `origin`, the
  state of the thread that the first block in the cache ran on, and the properties
  compare with a full run from there.
* A function that a script removed from the cache returns with its next definition
  (`cache_registry.rs:23-24` says that a removal is remembered).
* A page published between a tab's fetch and its subscription never reaches it
  (`ws.rs:51-53` compares nothing); such a tab does not follow, in the sense of
  `Following`, until its next full update.
* Closing the whole-document pane keeps its unsaved text, and the cell editor can
  then be opened beside it (docs/notebooks.md:478-480 says that they exclude each
  other).
* In the viewer a surface hides the lines that are plotted into the same panel
  after it (`app.rs`, the update of a panel), in the script's own figure it does not
  (`figure.rs:467-471`). One script's `close all` wipes the windows of the others
  (docs/functions.md:2630).
* In place, an embed is pasted over the line that names it, so later edits of the
  embedded file render nobody again (`watch.rs:391-396`, against
  docs/notebooks.md:524-526).
* The second of two processes that create a store at once fails to open it
  (`store.rs:97-103`, an `INSERT` that finds the row there), and runs uncached;
  `multi_process.rs:69-71` expects both to open.

### Bounds, and why they are enough

* `RenderLoop`. Preemption involves an old render, a newer one, and a third that
  finds the slot taken or free, hence three inputs, chosen from two edits, two
  drags and a run in every mixture. Two drags are needed for a flash id to be
  overtaken, and a drag and a run for an id to outlive its window; one panic poisons the lock for good. One block suffices because force
  is only merged by minimum.
* `LiveSync`. A tab is independent of the others, so one is enough. Capacity 2 and
  five broadcasts let it lag, be resynchronised and then meet an older entry; one
  envelope on the socket lets it be full. The documents change a code block, insert
  a duplicate of one further down, put a heading in, and move blocks in and out of
  a wrapper.
* `PrefixCache`. A wrong entry needs one render to make it, one to keep or cut it,
  and one to show it: three renders. Two threads separate capture from restore.
  The documents have two or three blocks; the sources include one that reads one
  or two widgets depending on a value, one that draws, one that seeds, one that
  leaves hold on, and a diagram. One piece of prose draws and reads the slider; it
  stands before the first block, between two, and not at all, so that editing from one
  document to another puts it above a cached block and takes it away.
* `NotebookWrites`. A lost update needs two writers, that is two requests, or one and a change made
  outside; the file
  starts with a piece of prose and a block and grows to three items, so that a
  position can become stale. One request at a time per tab is a bound, as is one
  change.
* `FnCache`. A stale id needs definition, opening, call, change, call (five
  statements), six with a callee; a caller that waits for a helper from a file and
  is taken back needs five. Two processes suffice for interference through
  the store, since a row has one writer and one reader. Seven names cover a
  caller, a callee with two pure bodies and an impure one, a helper that only a file
  brings, a file that stops half-way, and an impure file. That helper has one body:
  with two, a caller hashed before is the finding of `FnCacheEdited`.
* `CacheStore`. Two programs of different schema versions, one of them with two
  threads, are the fewest that create at once and evict at once. Four calls fill
  the store past its cap, evict and store again; the clock moves once, so that
  ages differ.
* `ParMap`. Two threads and two callers let a waiting task be covered by a task of
  its own call and by one of another; four lambdas cover nesting, an error, a
  denied builtin and a wait.
* `ViewerSession`. One script with four statements reaches dial, use, break and
  dial again, with two places on the wire, two for replies and one in the viewer's queue. Replies get out of
  step by one with each `close all`, whose `Reset` the viewer answers and nobody
  reads; `ReplyRoom > MaxCloseAlls` is a premise of `StatementsReturn`.
* `WatchLoop`. Three files in a chain of embeds make direct and transitive
  renders differ. Two saves are one too few for one case: a save that a render in
  place takes for its own, another save, and the first text once more, before the
  event is received, which is then dropped as an echo. With three saves and one draw
  (1 700 000 states, a minute, checked by hand) TLC reaches it; `Unnoticed` names it, and the
  proof covers any number of saves.

Deadlock is not checked: every model stops when its bounds are used up, and the
programs themselves may be idle.

### Fairness

* `RenderLoop` assumes weak fairness of `Server` as a whole: the runtime, the
  threads and the coordinator do not all stop while something is ready. It does not
  assume fairness of each task, and none of clicks, drags, edits or panics. The
  second conjunct says that an editor that unlinked the file writes it again.
  `Settles` is then: once the source on disk is one that ends, the loop becomes
  quiet and stays so. A runaway block is only ever stopped through its cancel flag.
* `LiveSync`: weak fairness of forwarding and of applying, per tab. A tab that is
  down need not come back.
* `NotebookWrites`: each handler that can read or write does so in the end.
* `ParMap`: each thread of the pool works, and each caller whose call has ended
  returns. Nothing forces a thread to claim a particular task.
* `ViewerSession`: the thread of each script, each connection thread of the viewer
  and its window loop. Ctrl+C and crashes are never forced.
* `WatchLoop`: its only thread.
* `PrefixCache`, `FnCache`, `CacheStore` state safety only.

## 4. Proofs

All theorems hold for any values of the constants that meet the named
assumptions, that is, with no bound on edits, renders, processes or statements
beyond the named ones, which may be any number.

* `TypeCorrect` (`RenderLoopProof`): `Spec => []TypeOK`, one lemma per part of the
  state. Slot, holder, flags and page name generations that were handed out; a
  render is running exactly when it holds the lock, panics included. The latter
  needs `LockOwned`: a holder is live. `RendersSerialised` follows.
* `PreemptionReachesAll`: every live render but the newest has its flag set. Not
  inductive alone: scheduling trips only the flag in the slot. `SlotOwned` adds
  that the slot belongs to the newest render for as long as it lives, so whoever
  loses it is tripped in that very step.
* `StaleNeverPublishes`: `NeverBackwards`, from `AheadOfPage`: a render that may
  still publish read the file and the slider no earlier than the published one. It
  needs the lock (files are read in lock order) and the order of generations.
* `FlashesAreEchoed`: `EchoOwnRender`, from `FlashOrder` and `AheadOfPage`: flash
  ids keep the order of their drags from the channel through the window of the
  debounce to the tasks, and those of a live render are above all that were
  broadcast. `EchoForward` is stated of every broadcast that carries an id, one that
  repeats the last id included: its id must be above all earlier ones. So a drag is
  echoed at most once, with a page at least as new.
* `SettledIsCurrent`: `SettledPageCurrent`, the safety half of `Settles`. A quiet
  loop must owe nothing, so the invariant (`NothingMissed`) says where each debt is
  while the loop is busy: a source or a slider value that is newer than the page is
  carried by a file event, a request in the channel or the window, or the newest
  live render, which nothing has told to stop (`NewestSpared`); a spinner belongs to
  a render that will still report.
* `TypeCorrect`, `PagesInOrder`, `LinesEndCurrent` (`LiveSyncProof`): the types;
  that `LiveSync` implements `PageView`, step by step and without liveness; and that
  what is on its way to a tab that follows ends in the published page. The premise
  is `SteadyLayout`, a parameter of the model; documents, tabs, channel capacity,
  messages and edits are any. The invariant (`Sound`, `TabSound`) reads the queue
  of a tab, the socket and the unread part of the log, as a chain: each update was
  made against the page before it, the last leaves the published page, and unless
  the tab missed something (`lost`) the first fits the page it shows. Most of the
  work is that an envelope of each kind takes a page to the next one, reconciling
  lists of ids included.
* `CacheTransparent` (`PrefixCacheProof`): `Transparent` for any documents, from
  `CacheAssumption` and three named premises: a source determines its kind of
  fence and its directives (`SteadyBlocks`), blocks read declared widgets only
  (`ReadsDeclared`), and what a block reads depends only on the values it reads
  (`ReadsLocal`). The first two exclude two of the disagreements above, and `Led` is
  the one about prose; the theorem says that there is no other way. The induction
  carries `CacheSound` (each entry is an execution on the state the entry before
  restores and the prose of `above`, and records what it saw) and `RenderSound` (replayed entries are the states
  this render went through, the others are still valid, and the live state is what the
  last block left, or the prose told since).
* `TypeCorrect`, `RunsForAReason`, `DrawsReplayed` (`PrefixCacheProof`), from the
  same premises: the types; `NoNeedlessRun`, with a record of why each entry of the
  render before is missing or cut (`Recorded`), so that a cancelled render loses
  nothing it had finished; and `ReplaysDraws`, where a render with the inputs of
  the shown one replays its entries one by one (`Repeated`) unless the first block
  itself ran on another generator, or a block ran again below edited prose that acts
  (`SameLeads`).
* `LockIsExclusive`, `WritesAreGuarded` (`NotebookFilesProof`): at most one
  handler is between its read and its write; unless something writes past the lock
  (an editor outside, a rename that lands late) the file is then what it read, and
  so what a cell save, a comment or an undo replaces is what its sender compared.
* `WatchTypes`, `SettledIsCurrent` (`NotebookFilesProof`), from `WatchAssumption`
  alone: the watcher loses no change. The inductive invariant `WatchInv` has a part
  for each destination. Elsewhere (`ElsewhereInv`), a page that is not to be rendered
  was rendered and scanned as on some disk that differs from the present one only in
  *hot* files, whose change is an event, pending, or lapsed; it names what the scan
  recorded, so when the hot files are flushed the pages they matter to are in the
  render set, and when none is left both disks agree on all that the page reaches
  (`ReachedAlike`, `RenderedAlike`). In place (`InPlaceInv`), a page that is not to be
  looked at again shows outputs unless its last change lapsed; for that to survive
  the echo check and the write that is left out, what was recorded as the watcher's
  own must show outputs (`EchoShown`) and text without outputs must not be the text
  last written (`HashShown`). `EchoShown` was not inductive at first, which is how
  the case of three saves in section 3 was found.
* `TasksAreCounted`, `ScopeIsTheTasks` (`ParMapProof`): every frame belongs to a
  call in progress that counts it as running, and a thread runs under the jail and
  flag of its top frame. The second needs the frames below: the inductive
  invariant adds to `TypeOK` that frames of one task are apart, that what each
  frame saved is what the frame below it runs under (`JailsFit`, `FlagsFit`), and
  that nobody returns from a call that still has a frame (`Held`).
* `AnswersAreTheLoops`, `SameSeedRepeats` (`ParMapProof`): `ParMap` implements
  `ForLoop`, step by step, for any pool, callers, jails and nesting of maps, and so
  one seed gives one answer. The premise is `DrawsFirst`, a property of the script:
  after an operation that may lend the thread (a wide array operation or a nested
  map) a task neither draws nor maps. The scripts of `ParMapLoop` have it, that of
  `ParMapLate` has not and answers differently; the theorem says that nothing else
  is needed. The invariant (`AsLoop`) adds to the one above: a trial that ended has
  what the loop has for it (`TrialsFit`); a task has drawn what the loop draws up to
  its place, and nothing up to there fails (`FrameFits`); the generator of a thread
  is where the loop's would be as long as the newest task has not waited
  (`NumbersFit`), which is all that a draw needs under the premise; and each call is
  the one its caller or one task waits for, so that no name is given twice
  (`CallersFit`). That the recursion of `Trial` has a solution, and that it is the
  loop's, is proved by the deepest counterexample, since maps go down in `Nesting`.
* `NewerNeverWritten`, `FirstWriterStays` (`CacheStoreProof`): by the order of the
  statements of `Open`, a process that may write knows the version on disk; a row
  keeps its result until it is deleted.
* `TypeCorrect`, `EvictionIsExact` (`CacheStoreProof`): the types, and `PruneFits`:
  an eviction that nobody disturbs deletes the oldest rows, no more than it must, and
  ends within its budget. The invariant says what such an eviction knows between two
  of its statements (`Exact`): what is left of its list is what is left of the rows it
  saw, oldest first; the rows deleted are older than those that stay; its running
  total is the size of the rows that stay; the last deletion was still needed. That
  needs rows numbered in the order of the calls that stored them (`RowsNumbered`) and
  a lock that is held by the evicting call (`CallsHold`). That sums over a finite
  table exist and lose one row at a time, and that every finite table has a sorted
  listing, are inductions over finite sets, done by a smallest counterexample and the
  library's fact that strict subsets of a finite set are well-founded.
* `OnlyPureInScope` (`FnCacheProof`): `ScopeIsPure` for any functions and files.
  It is inductive with the shape of three variables. The work is in
  `cache add file`, where the last body of a name counts and loading stops at the
  first bad one, and in the gate that runs before and after a definition.
* `NothingIsForgotten` (`FnCacheProof`): `NotForgotten`, by the same cases. A file
  that brings nothing must leave the definitions as they are, which needs that the
  table of each process is a function.
* `TypeCorrect` (`FnCacheProof`): the types, with the shape of the stack: each
  frame is a call that the frame below was about to make and holds the results of
  the callees before it. It is what `Return`, `Fail` and `Interrupt` rely on when
  they unwind.
* `CacheInvisible`, `IdsAreCurrent` (`FnCacheProof`): `FnCache` implements `FnCalls`,
  step by step, for any functions, files, processes and statements, in one store that
  all share and that anyone prunes. The premise is an action formula,
  `LoadsKeepIds`: no `cache add file` changes what a remembered id stands for. It is
  what the run `FnCacheEdited` shows to be needed, and the theorem says that it is all
  that is: no other statement leaves an id behind that is out of date
  (`IdsAreCurrent`), and with current ids nothing a process stores can mislead
  another. The invariant: a row is right for every function of any table that has its
  id (`RowsRight`), and a call in progress runs its present definition and holds right
  results (`CallsRight`). The heart is `SameId`: functions with one id do the same,
  because what a function is made of and a name that is not defined are apart
  (`CodesAssumption`, the tags of `ast_hash.rs`). `CanonicalId` and `Reach` recurse
  over calls; that their recursions have a solution, and what it is, is proved by the
  lowest counterexample, since calls go down in `Level`.
* `FramesStayWhole`, `RepliesStayInStep`, `FiguresStayApart`, `TypeCorrect`
  (`ViewerSessionProof`), for any number of scripts and any buffers, from one
  invariant with a part per script (`ScriptOK`, `LinkOK`), per connection
  (`SockOK`) and for the viewer. A connection in use belongs to one script and to
  one of its uses, plots, live figure or the job that dials or parts (`JobFits`);
  this makes a cut frame harmless, since whoever cuts lets go in the same step.
  `InStep` bounds the replies that are due from both sides; a `Reset` of "close all"
  that is not out yet is counted against its script already and subtracted
  (`Slack`). Figures are apart because windows are numbered from what the script
  has said: a number is taken by a statement of its own, except that a plot which
  dials takes one when it is through (`ids[c] < said[c]` until then) and a live
  figure that is being opened holds one that no figure may have (`Taken`). A step
  of a script changes that script's part only (`ClientStep`), a step of the viewer
  keeps what is due on every connection in use (`ViewerKeeps`).
* `SyncedPlotsArrive` (`ViewerSessionProof`): `SyncedArrives`, for any number of
  scripts, crashes and interrupts and buffers of any size. `Settled` says nothing
  while messages are on their way, so the invariant `WInv` speaks of what comes of a
  window when all of them have been processed (`Reaches`: the table of windows, then
  the queue, then the wire, each frame by its `Effect` on that window). A frame the
  app processes or a thread takes then changes nothing, and a frame a script sends
  changes it in one way. `Promised` says what a script may count on: a window it has
  seen opened is there, a plot half sent is as far as its job (`Syncing`), one that
  was reported as drawn is shown. Three more parts keep it so. Frames on other
  connections of a script are for windows it does not plot to (`Apart`), and none is
  for another script's (`FramesOK`). What a job has still to say is harmless to the
  plots, a `Close` being for a window that the current figure has left, and the `Reset` of
  "close all" coming when nothing is promised (`JobOK`). No stored figure has the
  window of the connection while the current one is drawn in the viewer (`PlotsOK`).
  The exemption is exact: a window is excused from the moment a frame that changes it
  behind its script's back is in the queue (`Excused`), and `ProcessMessage` turns
  that into `touched`. While "viewer on" dials, its own `Reset` on the new connection
  wipes the windows of the old one, so nothing is promised until it is through
  (`Wipes`).

Every safety property and every action property of the runs that pass is now stated
by a theorem. Only model-checked is all liveness (`Settles` twice, `AllAnswered`,
`CallsReturn`, `StatementsReturn`, `Quiesces`), which is out of the prover's reach.

## 5. What is not modelled

* Time. Debounce windows close at any moment; a stream of events that keeps a
  window open for ever is not a behaviour with a fair server. Sockets have no
  timeouts of their own in the code.
* `RenderLoop`: several notebooks under the working-directory lock, which is held
  for a whole render (`mod.rs:753`); the index page, whose refresh has no
  generation guard (`render_loop.rs:354-382`); git events, which reach all
  notebooks. A preempted Run loses its force (`:488`), as the code says.
* `LiveSync`: the diff view and its reload, flash highlights, collisions of the
  32-bit block ids.
* `NotebookWrites`: replies, highlights, the text of a note. `POST /save`
  overwrites without comparing (`http.rs:816`), a write from outside between a
  handler's read and its rename is lost, text typed between a save and its answer
  is marked clean, and after an annotation of its own a tab sends old offsets with
  the new hash: the model does all of these, and `GuardedWrites` speaks of none.
* `PrefixCache`: the path without a cache, the wording of prose and errors. The cancel
  flag, seen inside prose, only makes an expression fail: a render cancelled in its
  last prose finishes, and is not published because a newer one set the flag. The model
  tells a piece of prose whole or not at all.
* `FnCache`: recursive functions (an entry id has a special case for cycles),
  definitions made inside a running function, lambdas as arguments, the clones of
  memo and registry that `parmap` tasks use.
* `CacheStore`: the WAL pragma and the creation of tables that come before the version
  check change neither version nor rows, and nothing in the model. `clear` and both
  prunes leave the names of entries behind, and a
  newer program that opens an older store never raises its version; the model does
  the same, and no property asks for more.
* `ParMap`: the evaluator a split clones, cancellation, profiler rows, the shape of
  packed results, path resolution under a jail. `derive_task_seed(0, 0)` is 0, so
  that task 0 under `seed(0)` shares its caller's numbers, and two calls under one
  seed draw the same ones; in the model every path is its own seed.
* `ViewerSession`: named sessions, HTML output, titles, several panels, heatmaps,
  payloads too large for a frame, and the truncation of process id and counter to
  16 bits in `next_fig_id`. Half of a frame left by an I/O error is taken by a later
  abort, and a signal after the last check of `sync_viewer` is lost: the model does
  both.
* `WatchLoop`: plot files and their sweep, cleaning of the source tree at the start,
  the depth limit of embeds and their cycles, the prefix cache it uses. A save
  between the read and the write of a page rendered in place is overwritten, and
  one before the hash is recorded is taken for the page's own write: the model does
  both, and `SettledCurrent` exempts them through `lapsed`, together with what the
  hashes then hide: text without outputs that is put back as it was written or
  recorded last.
* Everything numerical, textual or graphical, as the inventory says.

## 6. What could come next

1. `NotebookServer`: several notebooks under the process-wide directory lock, with
   the index refresh. Property: which renders may wait for which, and liveness
   under preemption.
2. Expansion of embeds with its cycle check, as a recursive function against a
   reference definition.
