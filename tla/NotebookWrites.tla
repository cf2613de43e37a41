--------------------------- MODULE NotebookWrites ---------------------------
(***************************************************************************)
(* Writing a notebook from the browser: the whole-document editor of       *)
(* server/page.rs, the cell editor of server/cell.rs, comments with undo   *)
(* (comments.rs), their handlers in server/http.rs and server/ws.rs, and   *)
(* an editor outside the browser that takes no lock.                       *)
(*                                                                         *)
(* A file is a sequence of items: code blocks, prose and notes.  Positions *)
(* stand for byte offsets, a whole file for its hash.  Handlers hold the   *)
(* notebook's save lock; they read the file in one step and replace it in  *)
(* another.                                                                *)
(***************************************************************************)
EXTENDS Naturals, Sequences, FiniteSets

CONSTANTS
  Tabs,         \* browser tabs
  PaneTabs,     \* those whose reader uses the whole-document editor
  CellTabs,     \* those whose reader uses the cell editor
  NoteTabs,     \* those whose reader comments
  Codes,        \* sources of code blocks
  Prose,        \* pieces of prose
  Notes,        \* comments
  FirstFile,    \* the file when the server starts
  MaxLength,    \* bound on the items of a file
  MaxChanges,   \* bound on changes typed in the browser or made outside it
  MaxRequests   \* bound on requests sent

ASSUME WritesAssumption ==
  /\ PaneTabs \subseteq Tabs /\ CellTabs \subseteq Tabs /\ NoteTabs \subseteq Tabs
  /\ MaxLength \in Nat /\ MaxChanges \in Nat /\ MaxRequests \in Nat
  /\ Codes \cap Prose = {} /\ Codes \cap Notes = {} /\ Prose \cap Notes = {}
  /\ FirstFile \in Seq(Codes \cup Prose \cup Notes)

VARIABLES
  file,      \* the notebook on disk
  rendered,  \* the file the published page was rendered from
  undo,      \* the undo slot: the bytes before and after the last comment
  view,      \* per tab: the file its page was rendered from
  hash,      \* per tab: the file whose hash its page carries
  pane,      \* per tab: the source pane is open
  doc,       \* per tab: the buffer of the whole-document editor
  cell,      \* per tab: the open cell editor
  req,       \* per tab: the request in progress
  changes,   \* changes made so far
  requests,  \* requests sent so far
  detached,  \* the replacement that an abandoned handler left running
  foreign    \* history: written outside the lock since it was taken

tabVars == <<view, hash, pane, doc, cell>>
counters == <<changes, requests>>
diskVars == <<file, detached, foreign>>
vars == <<diskVars, rendered, undo, tabVars, req, counters>>

Items == Codes \cup Prose \cup Notes
Nothing == [kind |-> "none"]

-----------------------------------------------------------------------------
(* Files.                                                                  *)

(* Positions of the executable blocks before and at i.                     *)
Ordinal(f, i) == Cardinality({j \in 1..i : f[j] \in Codes})

(* The position of executable block k, 0 if there is none.                 *)
LocateCodeBlock(f, k) ==
  IF \E i \in DOMAIN f : f[i] \in Codes /\ Ordinal(f, i) = k
  THEN CHOOSE i \in DOMAIN f : f[i] \in Codes /\ Ordinal(f, i) = k
  ELSE 0

InsertBefore(f, i, x) == SubSeq(f, 1, i - 1) \o <<x>> \o SubSeq(f, i, Len(f))

Without(f, i) == SubSeq(f, 1, i - 1) \o SubSeq(f, i + 1, Len(f))

(* One change of a text by its author: a block rewritten, or the first     *)
(* item removed, which moves every position.                               *)
Changed(f) ==
  LET blocks == {i \in DOMAIN f : f[i] \in Codes}
  IN  ({[f EXCEPT ![i] = c] : i \in blocks, c \in Codes} \cup {Without(f, 1)}) \ {f}

-----------------------------------------------------------------------------
(* The tabs.                                                               *)

Sends(t, r) ==
  /\ req[t] = Nothing /\ requests < MaxRequests
  /\ req' = [req EXCEPT ![t] = r]
  /\ requests' = requests + 1
  /\ UNCHANGED <<diskVars, rendered, undo, tabVars, changes>>

Author == changes < MaxChanges /\ changes' = changes + 1

CellDirty(t) == cell[t] # Nothing /\ cell[t].text # cell[t].seed

(* The pane refuses to open over unsaved cell edits; the buffer is loaded  *)
(* the first time, empty if that fails, and kept from then on.             *)
OpenPane(t) ==
  /\ t \in PaneTabs /\ ~pane[t] /\ ~CellDirty(t)
  /\ pane' = [pane EXCEPT ![t] = TRUE]
  /\ \E text \in {file, <<>>} :
       doc' = IF doc[t] = Nothing
              THEN [doc EXCEPT ![t] = [kind |-> "doc", text |-> text, clean |-> TRUE]]
              ELSE doc
  /\ UNCHANGED <<diskVars, rendered, undo, view, hash, cell, req, counters>>

ClosePane(t) ==
  /\ pane[t]
  /\ pane' = [pane EXCEPT ![t] = FALSE]
  /\ UNCHANGED <<diskVars, rendered, undo, view, hash, doc, cell, req, counters>>

TypeDoc(t) ==
  /\ pane[t] /\ Author
  /\ \E f \in Changed(doc[t].text) :
       doc' = [doc EXCEPT ![t] = [kind |-> "doc", text |-> f, clean |-> FALSE]]
  /\ UNCHANGED <<diskVars, rendered, undo, view, hash, pane, cell, req, requests>>

SendSave(t) ==
  /\ pane[t]
  /\ Sends(t, [kind |-> "save", phase |-> "sent", body |-> doc[t].text, read |-> <<>>])

(* The cell editor looks whether the pane is open, not whether its buffer  *)
(* has unsaved changes.                                                    *)
OpenCell(t, i) ==
  /\ t \in CellTabs /\ ~pane[t] /\ cell[t] = Nothing
  /\ i \in DOMAIN view[t] /\ view[t][i] \in Codes
  /\ cell' = [cell EXCEPT ![t] = [kind |-> "cell", idx |-> Ordinal(view[t], i),
                                  seed |-> view[t][i], text |-> view[t][i]]]
  /\ UNCHANGED <<diskVars, rendered, undo, view, hash, pane, doc, req, counters>>

TypeCell(t, c) ==
  /\ cell[t] # Nothing /\ c # cell[t].text /\ Author
  /\ cell' = [cell EXCEPT ![t].text = c]
  /\ UNCHANGED <<diskVars, rendered, undo, view, hash, pane, doc, req, requests>>

CloseCell(t) ==
  /\ cell[t] # Nothing
  /\ cell' = [cell EXCEPT ![t] = Nothing]
  /\ UNCHANGED <<diskVars, rendered, undo, view, hash, pane, doc, req, counters>>

SendCell(t) ==
  /\ cell[t] # Nothing
  /\ Sends(t, [kind |-> "cell", phase |-> "sent", idx |-> cell[t].idx,
               source |-> cell[t].text, prev |-> cell[t].seed, read |-> <<>>])

(* A note on a block or a piece of prose, or the removal of a note, at the *)
(* position where the page shows it.                                       *)
SendAnnotate(t, i, n) ==
  /\ t \in NoteTabs /\ i \in DOMAIN view[t]
  /\ view[t][i] \in Notes \/ Len(view[t]) < MaxLength
  /\ Sends(t, [kind |-> "annotate", phase |-> "sent", at |-> i, text |-> view[t][i],
               note |-> n, match |-> hash[t], read |-> <<>>])

SendUndo(t) ==
  t \in NoteTabs /\ Sends(t, [kind |-> "undo", phase |-> "sent", match |-> hash[t], read |-> <<>>])

(* The page is fetched again.                                              *)
Reload(t) ==
  /\ req[t] = Nothing
  /\ view' = [view EXCEPT ![t] = rendered] /\ hash' = [hash EXCEPT ![t] = rendered]
  /\ pane' = [pane EXCEPT ![t] = FALSE]
  /\ doc' = [doc EXCEPT ![t] = Nothing] /\ cell' = [cell EXCEPT ![t] = Nothing]
  /\ UNCHANGED <<diskVars, rendered, undo, req, counters>>

(* A live update replaces the blocks, not the hash in the page's head; a   *)
(* cell editor that is open keeps the page as it was.                      *)
LiveUpdate(t) ==
  /\ cell[t] = Nothing /\ view[t] # rendered
  /\ view' = [view EXCEPT ![t] = rendered]
  /\ UNCHANGED <<diskVars, rendered, undo, hash, pane, doc, cell, req, counters>>

-----------------------------------------------------------------------------
(* The server.                                                             *)

Phase(t) == IF req[t] = Nothing THEN "none" ELSE req[t].phase

\* Mutant of LockFree: a request does not wait for the one before it.
NoLock == TRUE

\* Mutant of LockFree: a handler that refuses does not let the lock go.
LockKept == \A u \in Tabs : Phase(u) \notin {"read", "refused"}

LockFree == \A u \in Tabs : Phase(u) # "read"

Accept(next) == [ok |-> TRUE, next |-> next]
Refuse == [ok |-> FALSE, next |-> <<>>]

\* Mutant of CellSave: the block is not compared with what the editor saw.
CellSaveUnchecked(r, f) ==
  LET i == LocateCodeBlock(f, r.idx)
  IN  IF i # 0 THEN Accept([f EXCEPT ![i] = r.source]) ELSE Refuse

(* The block must still have the source the editor was opened on.          *)
CellSave(r, f) ==
  LET i == LocateCodeBlock(f, r.idx)
  IN  IF i # 0 /\ f[i] = r.prev THEN Accept([f EXCEPT ![i] = r.source]) ELSE Refuse

(* A note goes above a fence, whichever it is, or after the prose it was   *)
(* put on; a note that is removed must be there.                           *)
ApplyAnnotate(r, f) ==
  CASE r.at \notin DOMAIN f -> Refuse
    [] r.at \in DOMAIN f /\ r.text \in Codes ->
         IF f[r.at] \in Codes THEN Accept(InsertBefore(f, r.at, r.note)) ELSE Refuse
    [] r.at \in DOMAIN f /\ r.text \in Prose ->
         IF f[r.at] = r.text THEN Accept(InsertBefore(f, r.at + 1, r.note)) ELSE Refuse
    [] OTHER ->
         IF f[r.at] = r.text THEN Accept(Without(f, r.at)) ELSE Refuse

UndoLast(f) ==
  IF undo # Nothing /\ undo.after = f THEN Accept(undo.before) ELSE Refuse

(* What the handler of r answers when it has read f.                       *)
Verdict(r, f) ==
  CASE r.kind = "save" -> Accept(r.body)
    [] r.kind = "cell" -> CellSave(r, f)
    [] r.kind = "annotate" -> IF r.match = f THEN ApplyAnnotate(r, f) ELSE Refuse
    [] OTHER -> IF r.match = f THEN UndoLast(f) ELSE Refuse

UndoAfter(r, f, next) ==
  CASE r.kind = "annotate" -> [kind |-> "slot", before |-> f, after |-> next]
    [] r.kind = "undo" -> Nothing
    [] OTHER -> undo

(* The answers: a comment or an undo carries the new hash, a cell save the *)
(* block it was for, a save nothing.                                       *)
Accepted(r, next) ==
  [kind |-> r.kind, phase |-> "ok",
   idx |-> IF r.kind = "cell" THEN r.idx ELSE 0,
   sha |-> IF r.kind \in {"annotate", "undo"} THEN next ELSE <<>>]
Refused == [kind |-> "refused", phase |-> "refused"]

(* The handler gets the save lock and reads the file.                      *)
Read(t) ==
  /\ Phase(t) = "sent" /\ LockFree
  /\ req' = [req EXCEPT ![t].phase = "read", ![t].read = file]
  /\ foreign' = FALSE
  /\ UNCHANGED <<file, detached, rendered, undo, tabVars, counters>>

(* It checks what it read, replaces the file, records or clears the undo   *)
(* slot and lets the lock go.                                              *)
Write(t) ==
  LET r == req[t]
      v == Verdict(r, r.read)
  IN
  /\ Phase(t) = "read"
  /\ req' = [req EXCEPT ![t] = IF v.ok THEN Accepted(r, v.next) ELSE Refused]
  /\ file' = IF v.ok THEN v.next ELSE file
  /\ undo' = IF v.ok THEN UndoAfter(r, r.read, v.next) ELSE undo
  /\ UNCHANGED <<detached, foreign, rendered, tabVars, counters>>

(* The checks this model leaves out refuse it, or the disk does.           *)
WriteFails(t) ==
  /\ Phase(t) = "read"
  /\ req' = [req EXCEPT ![t] = Refused]
  /\ UNCHANGED <<diskVars, rendered, undo, tabVars, counters>>

(* The connection closes and the handler is dropped where it stands.  The  *)
(* lock goes with it; a replacement that was under way runs on, on a       *)
(* thread of its own, and its undo is not recorded.                        *)
Abandon(t) ==
  /\ Phase(t) \in {"sent", "read"}
  /\ req' = [req EXCEPT ![t] = Nothing]
  /\ \/ detached' = detached
     \/ /\ Phase(t) = "read" /\ Verdict(req[t], req[t].read).ok /\ detached = Nothing
        /\ detached' = [kind |-> "detached", file |-> Verdict(req[t], req[t].read).next]
  /\ UNCHANGED <<file, foreign, rendered, undo, tabVars, counters>>

Land ==
  /\ detached # Nothing
  /\ file' = detached.file /\ detached' = Nothing /\ foreign' = TRUE
  /\ UNCHANGED <<rendered, undo, tabVars, req, counters>>

(* The answer arrives.                                                     *)
Answer(t) ==
  LET r == req[t]
      ok == r.phase = "ok"
  IN
  /\ Phase(t) \in {"ok", "refused"}
  /\ req' = [req EXCEPT ![t] = Nothing]
  /\ doc' = IF ok /\ r.kind = "save" /\ doc[t] # Nothing
            THEN [doc EXCEPT ![t].clean = TRUE] ELSE doc
  /\ cell' = IF ok /\ r.kind = "cell" /\ cell[t] # Nothing /\ cell[t].idx = r.idx
             THEN [cell EXCEPT ![t] = Nothing] ELSE cell
  /\ hash' = IF ok /\ r.kind \in {"annotate", "undo"}
             THEN [hash EXCEPT ![t] = r.sha] ELSE hash
  /\ UNCHANGED <<diskVars, rendered, undo, view, pane, counters>>

(* The render loop caught up with the disk.                                *)
Render ==
  /\ rendered # file
  /\ rendered' = file
  /\ UNCHANGED <<diskVars, undo, tabVars, req, counters>>

(* The watch process ends and is started again.                            *)
Restart ==
  /\ undo' = Nothing /\ detached' = Nothing
  /\ rendered' = file
  /\ req' = [t \in Tabs |-> IF Phase(t) \in {"sent", "read"} THEN Nothing ELSE req[t]]
  /\ UNCHANGED <<file, foreign, tabVars, counters>>

(* An editor outside the browser saves the file.                           *)
ExternalWrite ==
  /\ Author
  /\ file' \in Changed(file)
  /\ foreign' = TRUE
  /\ UNCHANGED <<detached, rendered, undo, tabVars, req, requests>>

-----------------------------------------------------------------------------
Init ==
  /\ file = FirstFile /\ rendered = FirstFile /\ undo = Nothing
  /\ view = [t \in Tabs |-> FirstFile] /\ hash = [t \in Tabs |-> FirstFile]
  /\ pane = [t \in Tabs |-> FALSE]
  /\ doc = [t \in Tabs |-> Nothing] /\ cell = [t \in Tabs |-> Nothing]
  /\ req = [t \in Tabs |-> Nothing]
  /\ changes = 0 /\ requests = 0 /\ detached = Nothing /\ foreign = FALSE

Reader(t) ==
  \/ OpenPane(t) \/ ClosePane(t) \/ TypeDoc(t) \/ SendSave(t)
  \/ \E i \in DOMAIN view[t] : OpenCell(t, i)
  \/ \E c \in Codes : TypeCell(t, c)
  \/ CloseCell(t) \/ SendCell(t)
  \/ \E i \in DOMAIN view[t] : \E n \in Notes : SendAnnotate(t, i, n)
  \/ SendUndo(t) \/ Reload(t) \/ LiveUpdate(t) \/ Answer(t)

Handler(t) == Read(t) \/ Write(t) \/ WriteFails(t) \/ Abandon(t)

Next ==
  \/ \E t \in Tabs : Reader(t) \/ Handler(t)
  \/ Land \/ Render \/ Restart \/ ExternalWrite

(* A handler that can go on does.                                          *)
Fairness == \A t \in Tabs : WF_vars(Read(t) \/ Write(t))

Spec == Init /\ [][Next]_vars /\ Fairness

-----------------------------------------------------------------------------
Files == Seq(Items)
Pending == {"sent", "read"}

Request ==
  {Nothing, Refused}
  \cup [kind : {"save"}, phase : Pending, body : Files, read : Files]
  \cup [kind : {"cell"}, phase : Pending, idx : Nat, source : Codes, prev : Codes, read : Files]
  \cup [kind : {"annotate"}, phase : Pending, at : Nat, text : Items, note : Notes,
         match : Files, read : Files]
  \cup [kind : {"undo"}, phase : Pending, match : Files, read : Files]
  \cup [kind : {"save", "cell", "annotate", "undo"}, phase : {"ok"}, idx : Nat, sha : Files]

(* A handler between its read and its write is the only one, and unless    *)
(* somebody wrote outside the lock, what it read is what is on disk.       *)
LockHeld ==
  \A t \in Tabs : Phase(t) = "read" =>
    /\ \A u \in Tabs \ {t} : Phase(u) # "read"
    /\ ~foreign => file = req[t].read

(* The shape of the state, the save lock included.                         *)
TypeOK ==
  /\ file \in Files /\ rendered \in Files
  /\ undo \in {Nothing} \cup [kind : {"slot"}, before : Files, after : Files]
  /\ detached \in {Nothing} \cup [kind : {"detached"}, file : Files]
  /\ foreign \in BOOLEAN
  /\ view \in [Tabs -> Files] /\ hash \in [Tabs -> Files] /\ pane \in [Tabs -> BOOLEAN]
  /\ doc \in [Tabs -> {Nothing} \cup [kind : {"doc"}, text : Files, clean : BOOLEAN]]
  /\ cell \in [Tabs -> {Nothing} \cup [kind : {"cell"}, idx : Nat, seed : Codes, text : Codes]]
  /\ req \in [Tabs -> Request]
  /\ changes \in 0..MaxChanges /\ requests \in 0..MaxRequests
  /\ \A t \in Tabs : pane[t] => doc[t] # Nothing
  /\ LockHeld

(* A writer that checks never destroys what it has not seen: a cell save   *)
(* changes one block, from the source its editor was opened on; a comment  *)
(* changes the file its page was made from; an undo puts back the file     *)
(* before the last comment, from the file after it.  All hold of the file  *)
(* at the instant it is replaced, with any other saves in between, as long *)
(* as nobody writes past the lock.                                         *)
WriteSeesFile(t) ==
  Phase(t) = "read" /\ req'[t] # Nothing /\ req'[t].phase = "ok" /\ ~foreign =>
    /\ req[t].kind = "cell" =>
         \E i \in DOMAIN file :
           /\ file[i] = req[t].prev /\ Ordinal(file, i) = req[t].idx
           /\ file' = [file EXCEPT ![i] = req[t].source]
    /\ req[t].kind \in {"annotate", "undo"} => file = req[t].match
    /\ req[t].kind = "undo" => undo.after = file /\ undo.before = file'

GuardedWrites == [][\A t \in Tabs : WriteSeesFile(t)]_vars

(* A request is answered, or its connection is gone: the lock is always    *)
(* let go, whichever way the handler that has it ends.                     *)
AllAnswered == \A t \in Tabs : Phase(t) \in {"sent", "read"} ~> Phase(t) \notin {"sent", "read"}

=============================================================================
