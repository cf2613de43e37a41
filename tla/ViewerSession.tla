---------------------------- MODULE ViewerSession ----------------------------
(***************************************************************************)
(* Scripts that plot to a viewer process: the figures of each script       *)
(* (rustlab-plot/src/figure.rs), the connection its plots share and the    *)
(* one of its live figure (viewer_live.rs), the abort flags of Ctrl+C      *)
(* (plot_abort.rs), and in the viewer a thread per connection, a bounded   *)
(* queue and the table of windows (rustlab-viewer/src/net.rs, app.rs).     *)
(* A script is one thread: a statement that talks to the viewer is a job   *)
(* whose messages go out one at a time, and everything else may happen     *)
(* between two of them.                                                    *)
(***************************************************************************)
EXTENDS Integers, Sequences, FiniteSets, Functions, SequencesExt

CONSTANTS
  Clients,         \* the script processes
  Kinds,           \* what is plotted, a subset of {"line", "surface"}
  Lives,           \* TRUE when scripts open live figures
  MaxStatements,   \* statements of each script
  MaxHandles,      \* figure numbers a script names
  MaxCloseAlls,    \* how often a script says "close all"
  MaxAborts,       \* how often each user presses Ctrl+C
  MaxCrashes,      \* how often the viewer dies
  WireRoom,        \* messages the kernel buffers for one connection
  ReplyRoom,       \* replies it buffers
  QueueRoom        \* APP_CHANNEL_BOUND

ASSUME SessionAssumption ==
  /\ Kinds \subseteq {"line", "surface"}
  /\ Lives \in BOOLEAN
  /\ \A n \in {MaxStatements, MaxHandles, MaxCloseAlls, MaxAborts, MaxCrashes} : n \in Nat
  /\ \A n \in {WireRoom, ReplyRoom, QueueRoom} : n \in Nat \ {0}

VARIABLES
  said,     \* statements each script has begun
  wiping,   \* how many of them were "close all"
  store,    \* STORE.figures: the figures that are not the current one
  current,  \* the current figure: handle, content, output
  handles,  \* STORE.next_id
  ids,      \* NEXT_FIG_ID
  conn,     \* VIEWER_CONN: socket, window, and whether FigureOpen was sent
  live,     \* the script's ViewerFigure: window and socket
  job,      \* the statement in progress, as far as it talks to the viewer
  flags,    \* signal (ABORT), sticky (STICKY), partial (PARTIAL)
  pressed,  \* Ctrl+C so far
  socks,    \* the connections, in the order they were dialled
  up,       \* the viewer runs
  crashes,  \* how often it died
  queue,    \* the channel from the connection threads to the app
  windows,  \* ViewerApp.figures: what each window shows
  synced,   \* history: the plot each script was last told is drawn
  touched   \* history: windows changed by a frame of a connection given up

script == <<said, wiping, store, current, handles, ids>>
viewer == <<up, crashes, queue, windows>>
vars == <<script, conn, live, job, flags, pressed, socks, viewer, synced, touched>>

(***************************************************************************)
(* Data.  A window's id is the process and a number of its own; no window  *)
(* is the empty tuple, which as an output means the terminal.  What a plot *)
(* shows is the number of the statement that made it, and its kind.        *)
(***************************************************************************)
NoWindow == <<>>
Terminal == NoWindow
Window(c, n) == <<c, n>>

Blank == [made |-> 0, kind |-> "line"]
Message(type, win, content) == [type |-> type, win |-> win, content |-> content]
Ping == Message("Ping", NoWindow, Blank)
Reset == Message("Reset", NoWindow, Blank)
Open(win) == Message("FigureOpen", win, Blank)
Update(win, content) == Message("PanelUpdate", win, content)
Label(win) == Message("PanelLabels", win, Blank)
Redraw(win) == Message("Redraw", win, Blank)
Close(win) == Message("Close", win, Blank)
Cut == Message("Cut", NoWindow, Blank)      \* part of a frame

NoConn == [sock |-> 0, win |-> NoWindow, opened |-> FALSE]
NoLive == [sock |-> 0, win |-> NoWindow]
NoFlags == [signal |-> FALSE, sticky |-> FALSE, partial |-> FALSE]
NoJob == [kind |-> "none", dialling |-> FALSE, sock |-> 0, todo |-> <<>>, waiting |-> FALSE]
Job(kind, dialling, sock, todo) ==
  [kind |-> kind, dialling |-> dialling, sock |-> sock, todo |-> todo, waiting |-> FALSE]

NewSock(c) ==
  [owner |-> c, wire |-> <<>>, replies |-> <<>>, owed |-> "", served |-> TRUE, held |-> TRUE]
Closed(c) ==
  [owner |-> c, wire |-> <<>>, replies |-> <<>>, owed |-> "", served |-> FALSE, held |-> FALSE]

\* The client lets go of connection s; frames it has sent stay readable.
Drop(ss, s) ==
  IF s = 0 THEN ss
  ELSE [ss EXCEPT ![s] = IF @.served THEN [@ EXCEPT !.held = FALSE, !.replies = <<>>]
                         ELSE Closed(@.owner)]

(***************************************************************************)
(* What the app does with one message.                                     *)
(***************************************************************************)
Panel == [series |-> Blank, surface |-> Blank]

\* Table f with entry v under x.
Put(f, x, v) == [y \in DOMAIN f \cup {x} |-> IF y = x THEN v ELSE f[y]]

Apply(ws, m) ==
  CASE m.type = "FigureOpen" -> IF m.win \in DOMAIN ws THEN ws ELSE Put(ws, m.win, Panel)
    [] m.type = "PanelUpdate" /\ m.win \in DOMAIN ws ->
         IF m.content.kind = "surface"
         THEN [ws EXCEPT ![m.win] = [series |-> Blank, surface |-> m.content]]
         ELSE [ws EXCEPT ![m.win].series = m.content]
    [] m.type = "Close" -> Restrict(ws, DOMAIN ws \ {m.win})
    [] m.type = "Reset" -> <<>>
    [] OTHER -> ws

\* The messages a connection thread answers, and those a job reads back.
Answered(m) == m.type \in {"Ping", "FigureOpen", "Redraw", "Reset"}
Awaited(j, m) ==
  m.type \in {"Ping", "FigureOpen", "Redraw"} \/ (m.type = "Reset" /\ j.kind # "tell")

Guarded(j) == j.kind \in {"sync", "update", "draw"}
Requested(c) == Guarded(job[c]) /\ (flags[c].signal \/ flags[c].sticky)
Idle(c) == job[c] = NoJob

(***************************************************************************)
(* The figures of a script.                                                *)
(***************************************************************************)
Figure(content, output) == [content |-> content, output |-> output]

\* save_current: the current figure enters the store, under a new number if
\* it has none.
SavedHandle(c) == IF current[c].handle = 0 THEN handles[c] ELSE current[c].handle
SavedNext(c) == IF current[c].handle = 0 THEN handles[c] + 1 ELSE handles[c]
Saved(c) == Put(store[c], SavedHandle(c), Figure(current[c].content, current[c].output))

\* Mutant: the next figure's window counts as opened.
PointedAtOpened(k, win) == IF k.sock = 0 \/ win = Terminal THEN k ELSE [k EXCEPT !.win = win]

\* set_viewer_fig_id, from restore and for a fresh figure.
PointedAt(k, win) ==
  IF k.sock = 0 \/ win = Terminal THEN k ELSE [k EXCEPT !.win = win, !.opened = FALSE]

\* A fresh figure goes to a window of its own when there is a connection
\* (default_new_output).
FreshOutput(c) == IF conn[c].sock = 0 THEN Terminal ELSE Window(c, ids[c])
\* Mutant: the number is looked at and not taken.
FreshIdsPeeked(c) == ids[c]
FreshIds(c) == IF conn[c].sock = 0 THEN ids[c] ELSE ids[c] + 1

Statement(c) ==
  /\ Idle(c) /\ ~flags[c].sticky /\ said[c] < MaxStatements
  /\ said' = [said EXCEPT ![c] = @ + 1]

Quiet(c) == UNCHANGED <<live, flags, pressed, viewer, touched>>

\* A plot on the current figure.  Its panel is sent whole; FigureOpen goes
\* first unless this window was opened on this connection.
SyncMessages(k, content) ==
  (IF k.opened THEN <<>> ELSE <<Open(k.win)>>) \o <<Update(k.win, content), Redraw(k.win)>>

Plot(c) == \E kind \in Kinds :
  LET content == [made |-> said[c] + 1, kind |-> kind] IN
  /\ Statement(c) /\ Quiet(c)
  /\ current' = [current EXCEPT ![c].content = content]
  /\ UNCHANGED <<wiping, store, handles, ids, conn, synced>>
  /\ \/ /\ \/ current[c].output = Terminal
           \/ conn[c].sock = 0 /\ ~up              \* draw_terminal_once
        /\ UNCHANGED <<job, socks>>
     \/ /\ current[c].output # Terminal /\ conn[c].sock # 0
        /\ job' = [job EXCEPT ![c] =
                     Job("sync", FALSE, conn[c].sock, SyncMessages(conn[c], content))]
        /\ UNCHANGED socks
     \/ /\ current[c].output # Terminal /\ conn[c].sock = 0 /\ up
        /\ socks' = Append(socks, NewSock(c))
        /\ job' = [job EXCEPT ![c] = Job("sync", TRUE, Len(socks'), <<Ping, Reset>>)]

FigureNew(c) ==
  /\ Statement(c) /\ Quiet(c)
  /\ SavedNext(c) <= MaxHandles
  /\ store' = [store EXCEPT ![c] = Saved(c)]
  /\ current' = [current EXCEPT ![c] =
                   [handle |-> SavedNext(c), content |-> Blank, output |-> FreshOutput(c)]]
  /\ handles' = [handles EXCEPT ![c] = SavedNext(c) + 1]
  /\ ids' = [ids EXCEPT ![c] = FreshIds(c)]
  /\ conn' = [conn EXCEPT ![c] = PointedAt(@, FreshOutput(c))]
  /\ synced' = [synced EXCEPT ![c] = Blank]
  /\ UNCHANGED <<wiping, job, socks>>

FigureSwitch(c) == \E h \in 1..MaxHandles :
  LET known == h \in DOMAIN Saved(c)
      output == IF known THEN Saved(c)[h].output ELSE FreshOutput(c) IN
  /\ Statement(c) /\ Quiet(c)
  /\ h # current[c].handle
  /\ store' = [store EXCEPT ![c] = Restrict(Saved(c), DOMAIN Saved(c) \ {h})]
  /\ current' = [current EXCEPT ![c] =
                   [handle |-> h,
                    content |-> IF known THEN Saved(c)[h].content ELSE Blank,
                    output |-> output]]
  /\ handles' = [handles EXCEPT ![c] = IF h >= SavedNext(c) THEN h + 1 ELSE SavedNext(c)]
  /\ ids' = [ids EXCEPT ![c] = IF known THEN @ ELSE FreshIds(c)]
  /\ conn' = [conn EXCEPT ![c] = PointedAt(@, output)]
  /\ synced' = [synced EXCEPT ![c] = Blank]
  /\ UNCHANGED <<wiping, job, socks>>

\* viewer_close, whose error nobody looks at.
CloseWindow(c, win) ==
  job' = [job EXCEPT ![c] = IF conn[c].sock = 0 \/ win = Terminal THEN @
                            ELSE Job("tell", FALSE, conn[c].sock, <<Close(win)>>)]

CloseStored(c) == \E h \in DOMAIN store[c] :
  /\ Statement(c) /\ Quiet(c)
  /\ CloseWindow(c, store[c][h].output)
  /\ store' = [store EXCEPT ![c] = Restrict(@, DOMAIN @ \ {h})]
  /\ UNCHANGED <<wiping, current, handles, ids, conn, socks, synced>>

\* The stored figure with the highest number becomes current, or a fresh one.
CloseCurrent(c) ==
  LET next == IF DOMAIN store[c] = {} THEN 0 ELSE Max(DOMAIN store[c])
      figure == IF next = 0 THEN Figure(Blank, FreshOutput(c)) ELSE store[c][next] IN
  /\ Statement(c) /\ Quiet(c)
  /\ current[c].handle # 0
  /\ CloseWindow(c, current[c].output)
  /\ store' = [store EXCEPT ![c] = Restrict(@, DOMAIN @ \ {next})]
  /\ current' = [current EXCEPT ![c] =
                   [handle |-> next, content |-> figure.content, output |-> figure.output]]
  /\ ids' = [ids EXCEPT ![c] = IF next = 0 THEN FreshIds(c) ELSE @]
  /\ conn' = [conn EXCEPT ![c] = PointedAt(@, figure.output)]
  /\ synced' = [synced EXCEPT ![c] = Blank]
  /\ UNCHANGED <<wiping, handles, socks>>

\* "close all": viewer_reset sends Reset and does not wait for its answer.
CloseAll(c) ==
  /\ Statement(c) /\ Quiet(c)
  /\ wiping[c] < MaxCloseAlls
  /\ wiping' = [wiping EXCEPT ![c] = @ + 1]
  /\ store' = [store EXCEPT ![c] = <<>>]
  /\ current' = [current EXCEPT ![c] =
                   [handle |-> 0, content |-> Blank, output |-> FreshOutput(c)]]
  /\ ids' = [ids EXCEPT ![c] = FreshIds(c)]
  /\ conn' = [conn EXCEPT ![c] = PointedAt(@, FreshOutput(c))]
  /\ job' = [job EXCEPT ![c] = IF conn[c].sock = 0 THEN @
                               ELSE Job("tell", FALSE, conn[c].sock, <<Reset>>)]
  /\ synced' = [synced EXCEPT ![c] = Blank]
  /\ UNCHANGED <<handles, socks>>

(***************************************************************************)
(* "viewer on" and "viewer off".                                           *)
(***************************************************************************)
ViewerOn(c) ==
  /\ Statement(c) /\ Quiet(c)
  /\ up
  /\ socks' = Append(socks, NewSock(c))
  /\ job' = [job EXCEPT ![c] = Job("on", TRUE, Len(socks'), <<Ping, Reset>>)]
  /\ UNCHANGED <<wiping, store, current, handles, ids, conn, synced>>

\* disconnect_viewer closes the window of the connection, then lets it go.
ViewerOff(c) ==
  /\ Statement(c) /\ Quiet(c)
  /\ job' = [job EXCEPT ![c] = IF conn[c].sock = 0 THEN @
                               ELSE Job("part", FALSE, conn[c].sock, <<Close(conn[c].win)>>)]
  /\ conn' = [conn EXCEPT ![c] = NoConn]
  /\ current' = [current EXCEPT ![c].output = Terminal]
  /\ synced' = [synced EXCEPT ![c] = Blank]
  /\ UNCHANGED <<wiping, store, handles, ids, socks>>

(***************************************************************************)
(* A live figure has a window and a connection of its own.                 *)
(***************************************************************************)
LiveStatement(c) ==
  /\ Lives /\ Statement(c)
  /\ UNCHANGED <<wiping, store, current, handles, conn, flags, pressed, viewer, synced, touched>>

LiveOpen(c) ==
  /\ LiveStatement(c)
  /\ live[c] = NoLive /\ up
  /\ socks' = Append(socks, NewSock(c))
  /\ ids' = [ids EXCEPT ![c] = @ + 1]
  /\ job' = [job EXCEPT ![c] = Job("open", TRUE, Len(socks'), <<Open(Window(c, ids[c]))>>)]
  /\ UNCHANGED live

\* plot_update and figure_draw dial again when the connection was given up.
LiveSend(c, kind) ==
  /\ LiveStatement(c)
  /\ live[c] # NoLive
  /\ \/ /\ live[c].sock # 0
        /\ job' = [job EXCEPT ![c] =
                     Job(kind, FALSE, live[c].sock,
                         IF kind = "draw" THEN <<Redraw(live[c].win)>>
                         ELSE <<Update(live[c].win, [made |-> said[c] + 1, kind |-> "line"])>>)]
        /\ UNCHANGED socks
     \/ /\ live[c].sock = 0 /\ up
        /\ socks' = Append(socks, NewSock(c))
        /\ job' = [job EXCEPT ![c] = Job(kind, TRUE, Len(socks'), <<Open(live[c].win)>>)]
     \/ /\ live[c].sock = 0 /\ ~up
        /\ UNCHANGED <<job, socks>>
  /\ UNCHANGED <<ids, live>>

LiveUpdate(c) == LiveSend(c, "update")
LiveDraw(c) == LiveSend(c, "draw")

\* plot_labels and plot_limits: no guard, no dialling, no look at the error.
LiveLabel(c) ==
  /\ LiveStatement(c)
  /\ live[c].sock # 0
  /\ job' = [job EXCEPT ![c] = Job("tell", FALSE, live[c].sock, <<Label(live[c].win)>>)]
  /\ UNCHANGED <<ids, live, socks>>

LiveClose(c) ==
  /\ LiveStatement(c)
  /\ live[c] # NoLive
  /\ live' = [live EXCEPT ![c] = NoLive]
  /\ job' = [job EXCEPT ![c] = IF live[c].sock = 0 THEN @
                               ELSE Job("part", FALSE, live[c].sock, <<Close(live[c].win)>>)]
  /\ UNCHANGED <<ids, socks>>

\* The prompt of the next line: clear_plot_interrupt.
NextLine(c) ==
  /\ Idle(c) /\ flags[c] # NoFlags
  /\ flags' = [flags EXCEPT ![c] = NoFlags]
  /\ UNCHANGED <<script, conn, live, job, pressed, socks, viewer, synced, touched>>

(***************************************************************************)
(* One message of a job.                                                   *)
(***************************************************************************)
Working(c) == ~Idle(c) /\ job[c].todo # <<>>
Wire(c) == socks[job[c].sock]

JobStep(c) ==
  UNCHANGED <<said, wiping, store, handles, pressed, viewer, touched>>

Popped(j) == [j EXCEPT !.todo = Tail(@), !.waiting = FALSE]

\* A whole frame is in the kernel's hands.  The flag may be up: it was not
\* when the last chunk was begun.
Send(c) ==
  LET m == Head(job[c].todo) IN
  /\ Working(c) /\ ~job[c].waiting
  /\ Wire(c).served /\ Len(Wire(c).wire) < WireRoom
  /\ socks' = [socks EXCEPT ![job[c].sock].wire = Append(@, m)]
  /\ job' = [job EXCEPT ![c] = IF Awaited(@, m) THEN [@ EXCEPT !.waiting = TRUE] ELSE Popped(@)]
  /\ JobStep(c) /\ UNCHANGED <<current, ids, conn, live, flags, synced>>

ReadReply(c) ==
  /\ Working(c) /\ job[c].waiting
  /\ Wire(c).replies # <<>>
  /\ socks' = [socks EXCEPT ![job[c].sock].replies = Tail(@)]
  /\ job' = [job EXCEPT ![c] = Popped(@)]
  /\ conn' = [conn EXCEPT ![c].opened =
                @ \/ (job[c].kind = "sync" /\ Head(job[c].todo).type = "FigureOpen")]
  /\ JobStep(c) /\ UNCHANGED <<current, ids, live, flags, synced>>

\* The statement ends: the guard's drop clears the signal flag.
Ends(c, fl) ==
  /\ job' = [job EXCEPT ![c] = NoJob]
  /\ flags' = [flags EXCEPT ![c] = [fl EXCEPT !.signal = FALSE]]

\* Mutant: the connection is closed and not forgotten.
StopsHolding(c, ss, partial) ==
  /\ socks' = IF job[c].dialling \/ partial THEN Drop(ss, job[c].sock) ELSE ss
  /\ Ends(c, [flags[c] EXCEPT !.sticky = TRUE, !.partial = FALSE])
  /\ synced' = [synced EXCEPT ![c] = IF job[c].kind = "sync" THEN Blank ELSE @]
  /\ JobStep(c) /\ UNCHANGED <<current, ids, conn, live>>

\* The job stops with Interrupted.  abort_sync and note_send report it, and
\* let go of the connection if the mark says that a frame was cut short.  A
\* connection that was still being dialled is dropped in any case.
Stops(c, ss, partial) ==
  LET j == job[c]
      gone == j.dialling \/ partial IN
  /\ socks' = IF gone THEN Drop(ss, j.sock) ELSE ss
  /\ conn' = IF gone /\ j.kind = "sync" THEN [conn EXCEPT ![c] = NoConn] ELSE conn
  /\ live' = IF gone /\ j.kind # "sync" THEN [live EXCEPT ![c].sock = 0] ELSE live
  /\ Ends(c, [flags[c] EXCEPT !.sticky = TRUE, !.partial = FALSE])
  /\ synced' = [synced EXCEPT ![c] = IF j.kind = "sync" THEN Blank ELSE @]
  /\ JobStep(c) /\ UNCHANGED <<current, ids>>

\* Before the first byte of a frame.
StopBetween(c) ==
  /\ Working(c) /\ ~job[c].waiting /\ Requested(c)
  /\ Stops(c, socks, flags[c].partial)

\* Inside a frame.  Mutant: the cut is not marked.
StopInFrameUnmarked(c) ==
  /\ Working(c) /\ ~job[c].waiting /\ Requested(c)
  /\ Wire(c).served /\ Len(Wire(c).wire) < WireRoom
  /\ Stops(c, [socks EXCEPT ![job[c].sock].wire = Append(@, Cut)], flags[c].partial)

StopInFrame(c) ==
  /\ Working(c) /\ ~job[c].waiting /\ Requested(c)
  /\ Wire(c).served /\ Len(Wire(c).wire) < WireRoom
  /\ Stops(c, [socks EXCEPT ![job[c].sock].wire = Append(@, Cut)], TRUE)

\* Before the reply has been read.  Mutant: without the mark.
StopWaitingUnmarked(c) ==
  /\ Working(c) /\ job[c].waiting /\ Requested(c)
  /\ Stops(c, socks, flags[c].partial)

StopWaiting(c) ==
  /\ Working(c) /\ job[c].waiting /\ Requested(c)
  /\ Stops(c, socks, TRUE)

\* Mutant: the end of the stream is taken for "nothing yet" while waiting.
FailedInSend(c) == Working(c) /\ ~job[c].waiting /\ ~Wire(c).served

\* The viewer's end is gone.  A write that had put some bytes down marks the
\* frame as partial, and nobody on this path takes the mark.
Failed(c) == Working(c) /\ ~Wire(c).served /\ (job[c].waiting => Wire(c).replies = <<>>)
MarkedOrNot(c) ==
  \E mark \in (IF job[c].waiting THEN {FALSE} ELSE BOOLEAN) :
    Ends(c, [flags[c] EXCEPT !.partial = @ \/ mark])

\* sync_viewer gives the connection up and goes back to the terminal.
LoseSync(c) ==
  /\ Failed(c) /\ job[c].kind = "sync" /\ ~job[c].dialling
  /\ socks' = Drop(socks, job[c].sock)
  /\ conn' = [conn EXCEPT ![c] = NoConn]
  /\ current' = [current EXCEPT ![c].output = Terminal]
  /\ synced' = [synced EXCEPT ![c] = Blank]
  /\ MarkedOrNot(c)
  /\ JobStep(c) /\ UNCHANGED <<ids, live>>

\* note_send forgets the live figure's connection.
LoseLive(c) ==
  /\ Failed(c) /\ job[c].kind \in {"update", "draw"} /\ ~job[c].dialling
  /\ socks' = Drop(socks, job[c].sock)
  /\ live' = [live EXCEPT ![c].sock = 0]
  /\ MarkedOrNot(c)
  /\ JobStep(c) /\ UNCHANGED <<current, ids, conn, synced>>

\* Ping or a first FigureOpen fails: there is no connection.
LoseDial(c) ==
  /\ Failed(c) /\ job[c].dialling /\ Head(job[c].todo).type # "Reset"
  /\ socks' = Drop(socks, job[c].sock)
  /\ IF Requested(c) /\ job[c].kind # "sync"
     THEN Ends(c, [flags[c] EXCEPT !.sticky = TRUE, !.partial = FALSE])
     ELSE MarkedOrNot(c)
  /\ JobStep(c) /\ UNCHANGED <<current, ids, conn, live, synced>>

\* A Reset that fails is not looked at: connect_viewer_impl goes on.
LoseReset(c) ==
  /\ Failed(c) /\ job[c].dialling /\ Head(job[c].todo).type = "Reset"
  /\ job' = [job EXCEPT ![c] = Popped(@)]
  /\ \E mark \in (IF job[c].waiting THEN {FALSE} ELSE BOOLEAN) :
       flags' = [flags EXCEPT ![c].partial = @ \/ mark]
  /\ JobStep(c) /\ UNCHANGED <<current, ids, conn, live, socks, synced>>

\* Close, Reset of "close all", labels: the error is ignored.
LoseTell(c) ==
  /\ Failed(c) /\ job[c].kind \in {"tell", "part"}
  /\ socks' = IF job[c].kind = "part" THEN Drop(socks, job[c].sock) ELSE socks
  /\ MarkedOrNot(c)
  /\ JobStep(c) /\ UNCHANGED <<current, ids, conn, live, synced>>

(***************************************************************************)
(* All messages of a job are out.                                          *)
(***************************************************************************)
Finished(c, kinds, dialling) ==
  ~Idle(c) /\ job[c].todo = <<>> /\ job[c].kind \in kinds /\ job[c].dialling = dialling

\* connect_viewer_impl stores the connection, with a window of its own; a
\* plot that dialled goes on with its figure.
Connected(c) ==
  LET k == [sock |-> job[c].sock, win |-> Window(c, ids[c]), opened |-> FALSE] IN
  /\ Finished(c, {"sync", "on"}, TRUE)
  /\ ids' = [ids EXCEPT ![c] = @ + 1]
  /\ conn' = [conn EXCEPT ![c] = k]
  /\ socks' = Drop(socks, conn[c].sock)
  /\ \/ /\ job[c].kind = "sync"
        /\ job' = [job EXCEPT ![c] =
                     Job("sync", FALSE, k.sock, SyncMessages(k, current[c].content))]
        /\ UNCHANGED <<current, flags>>
     \/ /\ job[c].kind = "on"
        /\ current' = [current EXCEPT ![c].output = k.win]
        /\ Ends(c, flags[c])
  /\ synced' = [synced EXCEPT ![c] = Blank]
  /\ JobStep(c) /\ UNCHANGED live

LiveConnected(c) ==
  /\ Finished(c, {"open", "update", "draw"}, TRUE)
  /\ \/ /\ job[c].kind = "open"
        /\ live' = [live EXCEPT ![c] = [sock |-> job[c].sock, win |-> Window(c, ids[c] - 1)]]
        /\ Ends(c, flags[c])
     \/ /\ job[c].kind # "open"
        /\ live' = [live EXCEPT ![c].sock = job[c].sock]
        /\ job' = [job EXCEPT ![c] =
                     Job(@.kind, FALSE, @.sock,
                         IF @.kind = "draw" THEN <<Redraw(live[c].win)>>
                         ELSE <<Update(live[c].win, [made |-> said[c], kind |-> "line"])>>)]
        /\ UNCHANGED flags
  /\ JobStep(c) /\ UNCHANGED <<current, ids, conn, socks, synced>>

\* sync_viewer returns Ok; a signal that came after its last look is lost.
Synced(c) ==
  /\ Finished(c, {"sync"}, FALSE)
  /\ synced' = [synced EXCEPT ![c] = current[c].content]
  /\ Ends(c, flags[c])
  /\ JobStep(c) /\ UNCHANGED <<current, ids, conn, live, socks>>

\* A live figure looks once more, although its frame is whole.
LiveSent(c) ==
  /\ Finished(c, {"update", "draw"}, FALSE)
  /\ \/ Requested(c) /\ Stops(c, socks, flags[c].partial)
     \/ /\ ~Requested(c)
        /\ Ends(c, flags[c])
        /\ JobStep(c) /\ UNCHANGED <<current, ids, conn, live, socks, synced>>

Told(c) ==
  /\ Finished(c, {"tell", "part"}, FALSE)
  /\ socks' = IF job[c].kind = "part" THEN Drop(socks, job[c].sock) ELSE socks
  /\ Ends(c, flags[c])
  /\ JobStep(c) /\ UNCHANGED <<current, ids, conn, live, synced>>

(***************************************************************************)
(* Ctrl+C while the handler of a guard is installed.                       *)
(***************************************************************************)
Press(c) ==
  /\ Guarded(job[c]) /\ ~flags[c].signal /\ pressed[c] < MaxAborts
  /\ flags' = [flags EXCEPT ![c].signal = TRUE]
  /\ pressed' = [pressed EXCEPT ![c] = @ + 1]
  /\ UNCHANGED <<script, conn, live, job, socks, viewer, synced, touched>>

(***************************************************************************)
(* The viewer.  A connection's thread queues a message and then answers    *)
(* it; it blocks on a full queue and on a full reply buffer.               *)
(***************************************************************************)
ViewerStep == UNCHANGED <<script, conn, live, job, flags, pressed, up, crashes, synced>>

Take(s) ==
  LET m == Head(socks[s].wire) IN
  /\ socks[s].served /\ socks[s].owed = "" /\ socks[s].wire # <<>>
  /\ m # Cut
  /\ \/ m = Ping /\ UNCHANGED queue
     \/ /\ m # Ping
        /\ Len(queue) < QueueRoom
        /\ queue' = Append(queue, [from |-> s, msg |-> m])
  /\ socks' = [socks EXCEPT ![s].wire = Tail(@),
                            ![s].owed = IF Answered(m) THEN m.type ELSE ""]
  /\ ViewerStep /\ UNCHANGED <<windows, touched>>

Reply(s) ==
  /\ socks[s].served /\ socks[s].owed # ""
  /\ \/ /\ socks[s].held
        /\ Len(socks[s].replies) < ReplyRoom
        /\ socks' = [socks EXCEPT ![s].replies = Append(@, socks[s].owed), ![s].owed = ""]
     \/ /\ ~socks[s].held
        /\ socks' = [socks EXCEPT ![s] = Closed(@.owner)]
  /\ ViewerStep /\ UNCHANGED <<queue, windows, touched>>

\* End of file, or a frame that will not be completed.
Hangup(s) ==
  /\ socks[s].served /\ ~socks[s].held /\ socks[s].owed = ""
  /\ socks[s].wire \in {<<>>, <<Cut>>}
  /\ socks' = [socks EXCEPT ![s] = Closed(@.owner)]
  /\ ViewerStep /\ UNCHANGED <<queue, windows, touched>>

\* Windows that a frame changes behind their script's back: it comes from a
\* connection the script has given up, or it is the Reset of another script.
Known == UNION { { Window(c, n) : n \in 0..(ids[c] - 1) } : c \in Clients }
Behind(s, m) ==
  IF m.type = "Reset"
  THEN { w \in Known : w[1] # socks[s].owner \/ ~socks[s].held }
  ELSE { w \in {m.win} : ~socks[s].held }

ProcessMessage ==
  LET item == Head(queue) IN
  /\ queue # <<>>
  /\ queue' = Tail(queue)
  /\ windows' = Apply(windows, item.msg)
  /\ touched' = touched \cup Behind(item.from, item.msg)
  /\ ViewerStep /\ UNCHANGED socks

Crash ==
  /\ up /\ crashes < MaxCrashes
  /\ up' = FALSE
  /\ crashes' = crashes + 1
  /\ queue' = <<>>
  /\ windows' = <<>>
  /\ socks' = [s \in DOMAIN socks |->
                 IF socks[s].held
                 THEN [socks[s] EXCEPT !.served = FALSE, !.wire = <<>>, !.owed = ""]
                 ELSE Closed(socks[s].owner)]
  /\ UNCHANGED <<script, conn, live, job, flags, pressed, synced, touched>>

Restart ==
  /\ ~up
  /\ up' = TRUE
  /\ UNCHANGED <<script, conn, live, job, flags, pressed, socks, crashes, queue, windows,
                 synced, touched>>

(***************************************************************************)
(* The specification.                                                      *)
(***************************************************************************)
Init ==
  /\ said = [c \in Clients |-> 0]
  /\ wiping = [c \in Clients |-> 0]
  /\ store = [c \in Clients |-> <<>>]
  /\ current = [c \in Clients |-> [handle |-> 0, content |-> Blank, output |-> Terminal]]
  /\ handles = [c \in Clients |-> 1]
  /\ ids = [c \in Clients |-> 0]
  /\ conn = [c \in Clients |-> NoConn]
  /\ live = [c \in Clients |-> NoLive]
  /\ job = [c \in Clients |-> NoJob]
  /\ flags = [c \in Clients |-> NoFlags]
  /\ pressed = [c \in Clients |-> 0]
  /\ socks = <<>>
  /\ up = TRUE
  /\ crashes = 0
  /\ queue = <<>>
  /\ windows = <<>>
  /\ synced = [c \in Clients |-> Blank]
  /\ touched = {}

Says(c) ==
  \/ Plot(c) \/ FigureNew(c) \/ FigureSwitch(c) \/ CloseStored(c) \/ CloseCurrent(c)
  \/ CloseAll(c) \/ ViewerOn(c) \/ ViewerOff(c)
  \/ LiveOpen(c) \/ LiveUpdate(c) \/ LiveDraw(c) \/ LiveLabel(c) \/ LiveClose(c)
  \/ NextLine(c)

Works(c) ==
  \/ Send(c) \/ ReadReply(c)
  \/ StopBetween(c) \/ StopInFrame(c) \/ StopWaiting(c)
  \/ LoseSync(c) \/ LoseLive(c) \/ LoseDial(c) \/ LoseReset(c) \/ LoseTell(c)
  \/ Connected(c) \/ LiveConnected(c) \/ Synced(c) \/ LiveSent(c) \/ Told(c)

Serves(s) == Take(s) \/ Reply(s) \/ Hangup(s)

Next ==
  \/ \E c \in Clients : Says(c) \/ Works(c) \/ Press(c)
  \/ \E s \in DOMAIN socks : Serves(s)
  \/ ProcessMessage \/ Crash \/ Restart

\* Each script's thread runs on, and so do the viewer's threads.
Fairness ==
  /\ \A c \in Clients : WF_vars(Works(c))
  /\ \A s \in 1..(Cardinality(Clients) * MaxStatements) :
       WF_vars(s \in DOMAIN socks /\ Serves(s))
  /\ WF_vars(ProcessMessage)

Spec == Init /\ [][Next]_vars /\ Fairness

(***************************************************************************)
(* Types.                                                                  *)
(***************************************************************************)
Contents == [made : 0..MaxStatements, kind : Kinds \cup {"line"}]
Windows == Clients \X (0..MaxStatements)
Outputs == Windows \cup {Terminal}
Handles == 0..(MaxHandles + MaxStatements + 1)
Types == {"Ping", "Reset", "FigureOpen", "PanelUpdate", "PanelLabels", "Redraw", "Close", "Cut"}
Messages == [type : Types, win : Outputs, content : Contents]
Jobs == [kind : {"none", "sync", "on", "open", "update", "draw", "tell", "part"},
         dialling : BOOLEAN, sock : Nat, todo : Seq(Messages), waiting : BOOLEAN]

(* Every variable keeps its type; what a script's job, its plots and its   *)
(* live figure write to is a connection of that script which it still      *)
(* holds, and plots and live figure never share one.                       *)
TypeOK ==
  /\ said \in [Clients -> 0..MaxStatements]
  /\ wiping \in [Clients -> 0..MaxCloseAlls]
  /\ \A c \in Clients :
       /\ DOMAIN store[c] \subseteq Handles
       /\ \A h \in DOMAIN store[c] : store[c][h] \in [content : Contents, output : Outputs]
  /\ current \in [Clients -> [handle : Handles, content : Contents, output : Outputs]]
  /\ handles \in [Clients -> Handles]
  /\ ids \in [Clients -> Nat]
  /\ conn \in [Clients -> [sock : 0..Len(socks), win : Outputs, opened : BOOLEAN]]
  /\ live \in [Clients -> [sock : 0..Len(socks), win : Outputs]]
  /\ job \in [Clients -> Jobs]
  /\ \A c \in Clients :
       /\ job[c].sock \in 0..Len(socks)
       /\ \A s \in {job[c].sock, conn[c].sock, live[c].sock} \ {0} :
            socks[s].owner = c /\ socks[s].held
       /\ conn[c].sock = live[c].sock => conn[c].sock = 0
  /\ flags \in [Clients -> [signal : BOOLEAN, sticky : BOOLEAN, partial : BOOLEAN]]
  /\ pressed \in [Clients -> 0..MaxAborts]
  /\ socks \in Seq([owner : Clients, wire : Seq(Messages), replies : Seq(Types),
                    owed : Types \cup {""}, served : BOOLEAN, held : BOOLEAN])
  /\ up \in BOOLEAN /\ crashes \in 0..MaxCrashes
  /\ queue \in Seq([from : 1..Len(socks), msg : Messages])
  /\ DOMAIN windows \subseteq Windows
  /\ \A w \in DOMAIN windows : windows[w] \in [series : Contents, surface : Contents]
  /\ synced \in [Clients -> Contents]
  /\ touched \subseteq Windows

(***************************************************************************)
(* Properties.                                                             *)
(***************************************************************************)

(* A frame that was cut short is the last thing on its connection: no      *)
(* script keeps a connection whose framing is lost (plot_abort.rs          *)
(* write_length_prefixed, note_send, abort_sync).  One mark per thread     *)
(* serves all connections of the script.                                   *)
CutIsLast ==
  \A s \in DOMAIN socks :
    /\ socks[s].held => \A i \in DOMAIN socks[s].wire : socks[s].wire[i] # Cut
    /\ \A i \in DOMAIN socks[s].wire : socks[s].wire[i] = Cut => i = Len(socks[s].wire)

(* Replies never get out of step by more than the "close all"s of the      *)
(* script: whatever else is on its way to a script that holds the          *)
(* connection is the answer it is waiting for (viewer_client.rs            *)
(* read_reply, net.rs handle_connection).                                  *)
Coming(s) ==
  Len(socks[s].replies) + (IF socks[s].owed = "" THEN 0 ELSE 1)
    + Cardinality({ i \in DOMAIN socks[s].wire : Answered(socks[s].wire[i]) })
Expected(s) == IF \E c \in Clients : job[c].sock = s /\ job[c].waiting THEN 1 ELSE 0
RepliesInStep ==
  \A s \in DOMAIN socks :
    socks[s].served /\ socks[s].held =>
      Coming(s) \in Expected(s)..(Expected(s) + wiping[socks[s].owner])

(* A figure number names one figure, and no two figures of a script share  *)
(* a window, through any sequence of figure, close, viewer on and off, and *)
(* lost connections (figure.rs save_current, restore, close_figure).       *)
FiguresApart ==
  \A c \in Clients :
    LET shared == { h \in DOMAIN store[c] : store[c][h].output # Terminal } IN
    /\ current[c].handle \notin DOMAIN store[c]
    /\ \A h \in DOMAIN store[c] \cup {current[c].handle} : h < handles[c]
    /\ \A h \in shared : store[c][h].output \notin {current[c].output, live[c].win}
    /\ \A g, h \in shared : store[c][g].output = store[c][h].output => g = h

Settled(c) ==
  /\ Idle(c) /\ synced[c] # Blank
  /\ conn[c].sock # 0 /\ socks[conn[c].sock].served
  /\ socks[conn[c].sock].wire = <<>> /\ queue = <<>>

(* A plot that sync_viewer reported as drawn is in its window once the     *)
(* viewer has caught up: FigureOpen was sent whenever the viewer did not   *)
(* know the window (conn.layout).  Exempt are windows changed behind the   *)
(* script's back by another script's Reset or by a late frame of a         *)
(* connection it gave up.                                                  *)
SyncedArrives ==
  \A c \in Clients : LET win == conn[c].win IN
    Settled(c) /\ win \notin touched =>
      /\ win \in DOMAIN windows
      /\ synced[c] \in {windows[win].series, windows[win].surface}

(* Every statement comes back, whether the viewer answers, dies, or is     *)
(* behind: back pressure never becomes a deadlock (net.rs                  *)
(* handle_connection).                                                     *)
StatementsReturn == \A c \in Clients : ~Idle(c) ~> Idle(c)

=============================================================================
