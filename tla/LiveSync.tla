------------------------------ MODULE LiveSync -------------------------------
(***************************************************************************)
(* How a browser tab follows the published page: the block diff of         *)
(* server/diff.rs, its broadcast in server/render_loop.rs, the socket      *)
(* handler of server/ws.rs with its bounded channel, and the scripts that  *)
(* apply an envelope to the page (server/ws.rs, server/cell.rs).           *)
(*                                                                         *)
(* A document is a sequence of block contents, the positions that are      *)
(* nested in an exercise or solution wrapper, and the chrome around the    *)
(* blocks (table of contents, topbar, file browser).  The log keeps every  *)
(* message ever broadcast; a receiver is a cursor in it, and the channel   *)
(* is the last Capacity messages.                                          *)
(***************************************************************************)
EXTENDS Naturals, Sequences, FiniteSets

CONSTANTS
  Tabs,          \* browser tabs
  Docs,          \* documents that may be rendered
  Codes,         \* the contents that are executable blocks
  Capacity,      \* messages the broadcast channel retains
  SocketBound,   \* bound on envelopes sent and not yet applied
  MaxMessages,   \* bound on messages broadcast
  MaxEdits,      \* bound on cell editors opened
  SteadyLayout   \* premise: wrappers and chrome change only with the blocks

ASSUME SyncAssumption ==
  /\ Capacity \in Nat \ {0} /\ SocketBound \in Nat \ {0}
  /\ MaxMessages \in Nat /\ MaxEdits \in Nat /\ SteadyLayout \in BOOLEAN

Contents == UNION {{d.contents[i] : i \in DOMAIN d.contents} : d \in Docs}

Chromes == {d.chrome : d \in Docs}

ASSUME DocsAssumption ==
  Docs \subseteq [contents : Seq(Contents), nested : SUBSET Nat, chrome : Chromes]

ASSUME NestedAssumption == \A d \in Docs : d.nested \subseteq DOMAIN d.contents

VARIABLES
  page,      \* html and prev_blocks of the notebook: the published page
  log,       \* every message broadcast
  st,        \* per tab: "loaded", "live", "down" or "gone"
  dom,       \* per tab: the page it shows
  cursor,    \* per tab: messages taken from the channel
  sock,      \* per tab: envelopes sent and not yet applied
  edit,      \* per tab: the open cell editor, its position 0 if none
  marked,    \* per tab: the section being edited missed a patch
  deferred,  \* per tab: a structural update was refused
  edits,     \* cell editors opened so far
  lost       \* history, per tab: the last update it missed, and why

serverVars == <<page, log>>
editVars == <<edit, marked, deferred, edits>>
vars == <<serverVars, st, dom, cursor, sock, editVars, lost>>

-----------------------------------------------------------------------------
(* Rendering.                                                              *)

NoIdx == 0

(* A block's id is the hash of its content, numbered among its equals; a   *)
(* code block carries its executable ordinal, here counted from one.       *)
FinalizeBlock(c, i) ==
  [id  |-> <<c[i], Cardinality({j \in 1..(i - 1) : c[j] = c[i]})>>,
   idx |-> IF c[i] \in Codes THEN Cardinality({j \in 1..i : c[j] \in Codes})
           ELSE NoIdx]

Render(doc) ==
  [blocks |-> [i \in DOMAIN doc.contents |-> FinalizeBlock(doc.contents, i)],
   nested |-> doc.nested, chrome |-> doc.chrome]

IsFlat(p) == p.nested = {}

Ids(p) == {p.blocks[i].id : i \in DOMAIN p.blocks}

(* What a reader sees: wrappers do not show.                               *)
View(p) == [blocks |-> p.blocks, chrome |-> p.chrome]

-----------------------------------------------------------------------------
(* Publishing.                                                             *)

ComputeChanges(old, new) == {i \in DOMAIN new.blocks : new.blocks[i] # old.blocks[i]}

FreshItems(old, new) == {i \in DOMAIN new.blocks : new.blocks[i].id \notin Ids(old)}

MostOf(changed, p) == 2 * Cardinality(changed) >= Len(p.blocks)

Classify(old, new) ==
  IF Len(old.blocks) # Len(new.blocks)
  THEN IF ~IsFlat(new) \/ MostOf(FreshItems(old, new), new) THEN "full" ELSE "reconcile"
  ELSE IF ComputeChanges(old, new) = {} THEN "none"
       ELSE IF MostOf(ComputeChanges(old, new), new) THEN "full" ELSE "partial"

\* Mutant of Decide: a changed table of contents does not force a full page.
DecideByBlocks(old, new) == Classify(old, new)

Decide(old, new) ==
  IF Classify(old, new) \in {"partial", "reconcile"} /\ old.chrome # new.chrome
  THEN "full" ELSE Classify(old, new)

(* The positions whose html the envelope carries.                          *)
Carried(kind, old, new) ==
  CASE kind = "partial" -> ComputeChanges(old, new)
    [] kind = "reconcile" -> FreshItems(old, new)
    [] OTHER -> DOMAIN new.blocks

Envelope(kind, old, new, at) ==
  [kind |-> kind, at |-> at, doc |-> new, carried |-> Carried(kind, old, new)]

Status(p) == [kind |-> "status", at |-> 0, doc |-> p, carried |-> {}]

IsContent(m) == m.kind # "status"

(* A finished render: the page is replaced, its difference broadcast, and  *)
(* then the terminal status of the cells.                                  *)
Publish(doc) ==
  LET new  == Render(doc)
      kind == Decide(page, new)
      content == IF kind = "none" THEN <<>>
                 ELSE <<Envelope(kind, page, new, Len(log) + 1)>>
  IN
  /\ Len(log) + 2 <= MaxMessages
  /\ SteadyLayout => /\ IsFlat(new) = IsFlat(page)
                     /\ new.blocks = page.blocks => new.chrome = page.chrome
  /\ page' = new
  /\ log' = log \o content \o <<Status(new)>>
  /\ UNCHANGED <<st, dom, cursor, sock, editVars, lost>>

(* A tab's Run button: every tab is told that the cell runs.               *)
BroadcastRunning ==
  /\ Len(log) < MaxMessages
  /\ log' = Append(log, Status(page))
  /\ UNCHANGED <<page, st, dom, cursor, sock, editVars, lost>>

-----------------------------------------------------------------------------
(* The socket handler.                                                     *)

InStep == [at |-> 0, why |-> "none"]

NoEditor == [pos |-> 0, dirty |-> FALSE]

Unread(t) == SubSeq(log, cursor[t] + 1, Len(log))

HasContent(q) == \E i \in DOMAIN q : IsContent(q[i])

Lagged(t) == Len(log) - cursor[t] > Capacity

(* The page is fetched again: by the reader, or by a script.               *)
Load(t) ==
  /\ st' = [st EXCEPT ![t] = "loaded"]
  /\ dom' = [dom EXCEPT ![t] = page]
  /\ cursor' = [cursor EXCEPT ![t] = Len(log)]
  /\ sock' = [sock EXCEPT ![t] = <<>>]
  /\ edit' = [edit EXCEPT ![t] = NoEditor]
  /\ marked' = [marked EXCEPT ![t] = FALSE]
  /\ deferred' = [deferred EXCEPT ![t] = FALSE]
  /\ lost' = [lost EXCEPT ![t] = InStep]

Reload(t) == Load(t) /\ UNCHANGED <<serverVars, edits>>

(* The upgrade subscribes; nothing is sent for what was broadcast since    *)
(* the page was fetched.                                                   *)
Subscribe(t) ==
  /\ st[t] = "loaded"
  /\ st' = [st EXCEPT ![t] = "live"]
  /\ cursor' = [cursor EXCEPT ![t] = Len(log)]
  /\ lost' = [lost EXCEPT ![t] =
                IF HasContent(Unread(t)) THEN [at |-> Len(log), why |-> "gap"] ELSE InStep]
  /\ UNCHANGED <<serverVars, dom, sock, editVars>>

Forward(t) ==
  /\ st[t] = "live" /\ cursor[t] < Len(log) /\ ~Lagged(t)
  /\ Len(sock[t]) < SocketBound
  /\ sock' = [sock EXCEPT ![t] = Append(@, log[cursor[t] + 1])]
  /\ cursor' = [cursor EXCEPT ![t] = @ + 1]
  /\ UNCHANGED <<serverVars, st, dom, editVars, lost>>

RetainedFrom == Len(log) - Capacity

(* A receiver that lags gets the whole page, and then what the channel     *)
(* still retains.                                                          *)
Resync(t) ==
  LET from == RetainedFrom
      m == Envelope("full", page, page, from)
  IN
  /\ st[t] = "live" /\ Lagged(t)
  /\ Len(sock[t]) < SocketBound
  /\ sock' = [sock EXCEPT ![t] = Append(@, m)]
  /\ cursor' = [cursor EXCEPT ![t] = from]
  /\ lost' = IF HasContent(SubSeq(log, from + 1, Len(log)))
             THEN [lost EXCEPT ![t] = [at |-> from, why |-> "lag"]] ELSE lost
  /\ UNCHANGED <<serverVars, st, dom, editVars>>

Drop(t) ==
  /\ st[t] = "live"
  /\ st' = [st EXCEPT ![t] = "down"]
  /\ sock' = [sock EXCEPT ![t] = <<>>]
  /\ UNCHANGED <<serverVars, dom, cursor, editVars, lost>>

(* Ten attempts failed; only the reader can go on.                         *)
GiveUp(t) ==
  /\ st[t] = "down"
  /\ st' = [st EXCEPT ![t] = "gone"]
  /\ UNCHANGED <<serverVars, dom, cursor, sock, editVars, lost>>

KeepsUnsaved(t) == edit[t].dirty

(* A tab that reconnects loads the page again unless that would discard    *)
(* what the reader typed.                                                  *)
Reconnect(t) ==
  /\ st[t] = "down"
  /\ \/ /\ KeepsUnsaved(t)
        /\ st' = [st EXCEPT ![t] = "live"]
        /\ cursor' = [cursor EXCEPT ![t] = Len(log)]
        /\ lost' = [lost EXCEPT ![t] = [at |-> Len(log), why |-> "kept"]]
        /\ UNCHANGED <<serverVars, dom, sock, editVars>>
     \/ ~KeepsUnsaved(t) /\ Reload(t)

-----------------------------------------------------------------------------
(* The page in the browser.                                                *)

(* Partial updates go by position; a vetoed section is left alone.         *)
ApplyPartial(d, m, vetoed) ==
  [blocks |-> [i \in DOMAIN d.blocks |-> IF i \in m.carried \ vetoed
                                        THEN m.doc.blocks[i] ELSE d.blocks[i]],
   nested |-> d.nested, chrome |-> d.chrome]

(* The k-th place of a set, and the elements of q at its places, in order. *)
Place(set, k) == CHOOSE i \in set : Cardinality({j \in set : j < i}) = k - 1

Chosen(q, set) == [k \in 1..Cardinality(set) |-> q[Place(set, k)]]

\* Mutant of Restamp: a reused section keeps the ordinal it had.
KeepOrdinal(d, b) ==
  [b EXCEPT !.idx = IF \E j \in DOMAIN d.blocks : d.blocks[j].id = b.id
                    THEN d.blocks[CHOOSE j \in DOMAIN d.blocks : d.blocks[j].id = b.id].idx
                    ELSE @]

(* A listed section, reused or created, gets its new ordinal.              *)
Restamp(d, b) == b

(* The direct children of main become the listed blocks, those that are    *)
(* neither there nor carried left out; nested blocks stay where they are.  *)
ApplyReconcile(d, m) ==
  LET direct == DOMAIN d.blocks \ d.nested
      there  == {d.blocks[i].id : i \in direct}
      before == {i \in d.nested : \A j \in direct : i < j}
      after  == d.nested \ before
      listed == {i \in DOMAIN m.doc.blocks : i \in m.carried \/ m.doc.blocks[i].id \in there}
      shown  == Chosen(m.doc.blocks, listed)
      last   == Cardinality(before) + Cardinality(listed)
  IN [blocks |-> Chosen(d.blocks, before) \o [k \in DOMAIN shown |-> Restamp(d, shown[k])]
                   \o Chosen(d.blocks, after),
      nested |-> (1..Cardinality(before)) \cup ((last + 1)..(last + Cardinality(after))),
      chrome |-> d.chrome]

Applied(d, m, vetoed) ==
  CASE m.kind = "full"      -> m.doc
    [] m.kind = "partial"   -> ApplyPartial(d, m, vetoed)
    [] m.kind = "reconcile" -> ApplyReconcile(d, m)
    [] OTHER                -> d

\* Mutant of Moved: the editor keeps its place in the page, not its section.
NotMoved(d, e, i) == i

(* Where the section at place i of d is in e, 0 if it is gone.             *)
Moved(d, e, i) ==
  IF \E j \in DOMAIN e.blocks : e.blocks[j].id = d.blocks[i].id
  THEN CHOOSE j \in DOMAIN e.blocks : e.blocks[j].id = d.blocks[i].id
  ELSE 0

VetoStructural(t) == deferred' = [deferred EXCEPT ![t] = TRUE]

Refuse(t, m) ==
  lost' = [lost EXCEPT ![t] = [at  |-> IF m.at > @.at THEN m.at ELSE @.at,
                               why |-> IF @.why = "none" THEN "veto" ELSE @.why]]

(* The open editor, if any, after an update that was not refused: it goes  *)
(* with its section.                                                       *)
KeepEditor(t, m, e) ==
  LET pos == edit[t].pos
      kept == CASE pos = 0 \/ m.kind = "full" -> 0
                [] m.kind = "partial" -> IF pos \in m.carried THEN 0 ELSE pos
                [] OTHER -> Moved(dom[t], e, pos)
  IN /\ edit' = [edit EXCEPT ![t] = IF kept = 0 THEN NoEditor ELSE [@ EXCEPT !.pos = kept]]
     /\ marked' = [marked EXCEPT ![t] = @ /\ kept # 0]
     /\ UNCHANGED <<deferred, edits>>

Apply(t) ==
  LET m == Head(sock[t])
      dirty == edit[t].dirty
      touches == m.kind = "partial" /\ edit[t].pos \in m.carried
      e == Applied(dom[t], m, IF dirty THEN {edit[t].pos} ELSE {})
  IN
  /\ sock[t] # <<>>
  /\ sock' = [sock EXCEPT ![t] = Tail(@)]
  /\ UNCHANGED <<serverVars, st, cursor>>
  /\ \/ /\ ~IsContent(m)
        /\ UNCHANGED <<dom, editVars, lost>>
     \/ /\ m.kind \in {"full", "reconcile"} /\ dirty
        /\ VetoStructural(t) /\ Refuse(t, m)
        /\ UNCHANGED <<dom, edit, marked, edits>>
     \/ /\ touches /\ dirty
        /\ dom' = [dom EXCEPT ![t] = e]
        /\ marked' = [marked EXCEPT ![t] = TRUE] /\ Refuse(t, m)
        /\ UNCHANGED <<edit, deferred, edits>>
     \/ /\ IsContent(m)
        /\ dirty => m.kind = "partial" /\ ~touches
        /\ dom' = [dom EXCEPT ![t] = e]
        /\ IF dirty THEN UNCHANGED editVars ELSE KeepEditor(t, m, e)
        /\ lost' = IF m.kind = "full" /\ m.at > lost[t].at
                   THEN [lost EXCEPT ![t] = InStep] ELSE lost

-----------------------------------------------------------------------------
(* The cell editor.                                                        *)

OpenEditor(t, i) ==
  /\ edits < MaxEdits
  /\ edit[t] = NoEditor /\ i \in DOMAIN dom[t].blocks /\ dom[t].blocks[i].idx # NoIdx
  /\ edit' = [edit EXCEPT ![t] = [pos |-> i, dirty |-> FALSE]]
  /\ edits' = edits + 1
  /\ UNCHANGED <<serverVars, st, dom, cursor, sock, marked, deferred, lost>>

(* The reader changes the text, or changes it back.                        *)
Type(t) ==
  /\ edit[t].pos # 0
  /\ edit' = [edit EXCEPT ![t].dirty = ~@]
  /\ UNCHANGED <<serverVars, st, dom, cursor, sock, marked, deferred, edits, lost>>

StaleOnClose(t) == deferred[t] \/ marked[t]

(* Escape, or the server's word that the cell was saved.                   *)
CloseEditor(t) ==
  /\ edit[t].pos # 0
  /\ IF StaleOnClose(t) THEN Reload(t)
     ELSE /\ edit' = [edit EXCEPT ![t] = NoEditor]
          /\ UNCHANGED <<serverVars, st, dom, cursor, sock, marked, deferred, edits, lost>>

-----------------------------------------------------------------------------
Init ==
  /\ page \in {Render(d) : d \in Docs}
  /\ log = <<>>
  /\ st = [t \in Tabs |-> "loaded"]
  /\ dom = [t \in Tabs |-> page]
  /\ cursor = [t \in Tabs |-> 0]
  /\ sock = [t \in Tabs |-> <<>>]
  /\ edit = [t \in Tabs |-> NoEditor] /\ edits = 0
  /\ marked = [t \in Tabs |-> FALSE] /\ deferred = [t \in Tabs |-> FALSE]
  /\ lost = [t \in Tabs |-> InStep]

Editing(t) == (\E i \in DOMAIN dom[t].blocks : OpenEditor(t, i)) \/ Type(t) \/ CloseEditor(t)

Network(t) == Drop(t) \/ GiveUp(t) \/ Reconnect(t)

Next ==
  \/ \E d \in Docs : Publish(d)
  \/ BroadcastRunning
  \/ \E t \in Tabs :
       \/ Reload(t) \/ Subscribe(t) \/ Forward(t) \/ Resync(t) \/ Apply(t)
       \/ Editing(t) \/ Network(t)

(* The handler of a connected tab, and the tab, go on with what they have. *)
Fairness == \A t \in Tabs : WF_vars(Forward(t) \/ Resync(t)) /\ WF_vars(Apply(t))

Spec == Init /\ [][Next]_vars /\ Fairness

-----------------------------------------------------------------------------
(* The shape of the state: editors sit in a section of the page, envelopes *)
(* are in flight to connected tabs only, cursors stay in the log.          *)
TypeOK ==
  /\ Len(log) <= MaxMessages /\ edits \in 0..MaxEdits
  /\ \A t \in Tabs :
       /\ st[t] \in {"loaded", "live", "down", "gone"}
       /\ cursor[t] \in 0..Len(log)
       /\ Len(sock[t]) <= SocketBound
       /\ st[t] # "live" => sock[t] = <<>>
       /\ edit[t].pos \in 0..Len(dom[t].blocks)
       /\ edit[t].dirty => edit[t].pos # 0
       /\ marked[t] => edit[t].pos # 0
       /\ lost[t].why \in {"none", "gap", "lag", "kept", "veto"}
       /\ lost[t].at \in 0..Len(log)

Following(t) == st[t] = "live" /\ lost[t].why = "none"

Drained(t) == st[t] = "live" /\ sock[t] = <<>> /\ cursor[t] = Len(log)

Queue(t) == sock[t] \o Unread(t)

(* The pages that the envelopes of q lead to.                              *)
Updates(q) == {i \in DOMAIN q : IsContent(q[i])}

PagesIn(q) == [k \in 1..Cardinality(Updates(q)) |-> View(Chosen(q, Updates(q))[k].doc)]

Line(t) == IF Following(t) THEN <<View(dom[t])>> \o PagesIn(Queue(t)) ELSE <<>>

Lines == [t \in Tabs |-> Line(t)]

DocPages == {View(Render(d)) : d \in Docs}

Promise == INSTANCE PageView WITH Pages <- DocPages, page <- View(page), line <- Lines

(* The promise of PageView, for tabs that connected in time, were not      *)
(* overtaken by the channel and refused no update: they show every         *)
(* published page in its order or skip to the newest, whatever mixture of  *)
(* partial, reconciling and full envelopes carries it.                     *)
ImplementsPageView == Promise!Spec

(* A tab that kept up settles on the published page.                       *)
Settles ==
  \A t \in Tabs : <>[](Following(t) => View(dom[t]) = View(page))

(* A tab that shows an old page because it refused an update either holds  *)
(* an editor that reloads when it closes, or remembers to reload, as the   *)
(* comment on closeEditor in server/cell.rs says.  It does not hold: a     *)
(* section that missed a patch is known to the server by its new id, so    *)
(* the next reconcile removes it, and its mark and its editor with it.     *)
RefusalRemembered ==
  \A t \in Tabs :
    lost[t].why = "veto" /\ Drained(t) /\ View(dom[t]) # View(page) => StaleOnClose(t)
=============================================================================
