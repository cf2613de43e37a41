------------------------ MODULE NotebookFilesProof ------------------------
(***************************************************************************)
(* The two programs that write notebook files while others do.  The server *)
(* (NotebookWrites): the handlers that check what they overwrite never     *)
(* destroy what they have not seen, for any number of tabs, files and      *)
(* requests.  The watcher (WatchLoop): no change is lost on its way to the *)
(* pages, for any files, embeds, saves and removals.                       *)
(***************************************************************************)
EXTENDS NotebookWrites, WatchLoop, SequenceTheorems, FiniteSetTheorems, TLAPS

(***************************************************************************)
(* NotebookWrites: types and the lock.                                     *)
(***************************************************************************)
Types ==
  /\ file \in Files /\ rendered \in Files
  /\ undo \in {Nothing} \cup [kind : {"slot"}, before : Files, after : Files]
  /\ detached \in {Nothing} \cup [kind : {"detached"}, file : Files]
  /\ foreign \in BOOLEAN
  /\ view \in [Tabs -> Files] /\ hash \in [Tabs -> Files] /\ pane \in [Tabs -> BOOLEAN]
  /\ doc \in [Tabs -> {Nothing} \cup [kind : {"doc"}, text : Files, clean : BOOLEAN]]
  /\ cell \in [Tabs -> {Nothing} \cup [kind : {"cell"}, idx : Nat, seed : Codes, text : Codes]]
  /\ req \in [Tabs -> Request]
  /\ changes \in 0..MaxChanges /\ requests \in 0..MaxRequests
  /\ \A t \in Tabs : pane[t] => doc[t] # Nothing

(* TypeOK is the shape of the state and the exclusiveness of the save lock. *)
LEMMA TypeParts == TypeOK <=> Types /\ LockHeld
BY DEF TypeOK, Types

-----------------------------------------------------------------------------
(* Files.                                                                  *)

(* Removing an item leaves a file.                                         *)
LEMMA WithoutType ==
  ASSUME NEW f \in Files, NEW i \in 1..(Len(f) + 1)
  PROVE  Without(f, i) \in Files
<1>1. SubSeq(f, 1, i - 1) \in Files
  BY SubSeqProperties DEF Files
<1>2. SubSeq(f, i + 1, Len(f)) \in Files
  BY SubSeqProperties DEF Files
<1>. QED  BY <1>1, <1>2, ConcatProperties DEF Without, Files

(* Inserting an item gives a file.                                         *)
LEMMA InsertType ==
  ASSUME NEW f \in Files, NEW i \in 1..(Len(f) + 1), NEW x \in Items
  PROVE  InsertBefore(f, i, x) \in Files
<1>1. SubSeq(f, 1, i - 1) \in Files
  BY SubSeqProperties DEF Files
<1>2. SubSeq(f, i, Len(f)) \in Files
  BY SubSeqProperties DEF Files
<1>3. <<x>> \in Files
  BY DEF Files
<1>4. SubSeq(f, 1, i - 1) \o <<x>> \in Files
  BY <1>1, <1>3, ConcatProperties DEF Files
<1>. QED  BY <1>2, <1>4, ConcatProperties DEF InsertBefore, Files

(* Rewriting an item gives a file.                                         *)
LEMMA ExceptType ==
  ASSUME NEW f \in Files, NEW i \in DOMAIN f, NEW c \in Codes
  PROVE  [f EXCEPT ![i] = c] \in Files
BY DEF Files, Items

(* A change gives a file.                                                  *)
LEMMA ChangedType ==
  ASSUME NEW f \in Files, NEW g \in Changed(f)
  PROVE  g \in Files
<1>1. Without(f, 1) \in Files
  BY WithoutType, LenProperties DEF Files
<1>2. ASSUME NEW i \in DOMAIN f, NEW c \in Codes  PROVE [f EXCEPT ![i] = c] \in Files
  BY <1>2, ExceptType
<1>. QED  BY <1>1, <1>2 DEF Changed

(* The ordinal of a block is a number.                                     *)
LEMMA OrdinalType ==
  ASSUME NEW f \in Files, NEW i \in DOMAIN f
  PROVE  Ordinal(f, i) \in Nat
<1>1. i \in Nat
  BY DEF Files
<1>2. IsFiniteSet(1..i)
  BY <1>1, FS_Interval
<1>3. IsFiniteSet({j \in 1..i : f[j] \in Codes})
  BY <1>2, FS_Subset
<1>. QED  BY <1>3, FS_CardinalityType DEF Ordinal

(* A block that is located is there and has the ordinal asked for.         *)
LEMMA Located ==
  ASSUME NEW f \in Files, NEW k, LocateCodeBlock(f, k) # 0
  PROVE  /\ LocateCodeBlock(f, k) \in DOMAIN f
         /\ Ordinal(f, LocateCodeBlock(f, k)) = k
<1>1. \E i \in DOMAIN f : f[i] \in Codes /\ Ordinal(f, i) = k
  BY DEF LocateCodeBlock
<1>. QED  BY <1>1, Zenon DEF LocateCodeBlock

-----------------------------------------------------------------------------
(* Requests.                                                               *)

(* A handler that has read is one of the four, with a file in hand.        *)
LEMMA PendingShape ==
  ASSUME NEW r \in Request, r # Nothing, r.phase \in Pending
  PROVE  /\ r.read \in Files
         /\ \/ r \in [kind : {"save"}, phase : Pending, body : Files, read : Files]
            \/ r \in [kind : {"cell"}, phase : Pending, idx : Nat, source : Codes,
                      prev : Codes, read : Files]
            \/ r \in [kind : {"annotate"}, phase : Pending, at : Nat, text : Items,
                      note : Notes, match : Files, read : Files]
            \/ r \in [kind : {"undo"}, phase : Pending, match : Files, read : Files]
BY DEF Request, Pending, Refused, Nothing

(* What a handler writes is a file.                                        *)
LEMMA VerdictType ==
  ASSUME Types, NEW r \in Request, r # Nothing, r.phase \in Pending,
         NEW f \in Files, Verdict(r, f).ok
  PROVE  Verdict(r, f).next \in Files
<1>1. CASE r \in [kind : {"save"}, phase : Pending, body : Files, read : Files]
  BY <1>1 DEF Verdict, Accept
<1>2. CASE r \in [kind : {"cell"}, phase : Pending, idx : Nat, source : Codes,
                  prev : Codes, read : Files]
  <2>1. Verdict(r, f) = CellSave(r, f)
    BY <1>2 DEF Verdict
  <2>. DEFINE i == LocateCodeBlock(f, r.idx)
  <2>2. i # 0 /\ CellSave(r, f) = Accept([f EXCEPT ![i] = r.source])
    BY <2>1 DEF CellSave, Refuse
  <2>3. i \in DOMAIN f
    BY <2>2, Located
  <2>4. [f EXCEPT ![i] = r.source] \in Files
    <3>1. r.source \in Codes
      BY <1>2
    <3>. HIDE DEF i
    <3>. QED  BY <2>3, <3>1, ExceptType
  <2>. QED  BY <2>1, <2>2, <2>4 DEF Accept
<1>3. CASE r \in [kind : {"annotate"}, phase : Pending, at : Nat, text : Items,
                  note : Notes, match : Files, read : Files]
  <2>1. Verdict(r, f) = ApplyAnnotate(r, f)
    BY <1>3 DEF Verdict, Refuse
  <2>2. ApplyAnnotate(r, f).ok
    BY <2>1
  <2>3. r.at \in DOMAIN f
    BY <2>2 DEF ApplyAnnotate, Refuse
  <2>4. r.at \in 1..Len(f) /\ r.note \in Items
    BY <1>3, <2>3 DEF Files, Items
  <2>5. InsertBefore(f, r.at, r.note) \in Files
    <3>1. r.at \in 1..(Len(f) + 1)
      BY <2>4, LenProperties DEF Files
    <3>. QED  BY <2>4, <3>1, InsertType
  <2>6. InsertBefore(f, r.at + 1, r.note) \in Files
    <3>1. r.at + 1 \in 1..(Len(f) + 1)
      BY <2>4, LenProperties DEF Files
    <3>. QED  BY <2>4, <3>1, InsertType
  <2>7. Without(f, r.at) \in Files
    BY <2>4, WithoutType, LenProperties DEF Files
  <2>8. ApplyAnnotate(r, f).next \in Files
    BY <2>2, <2>3, <2>5, <2>6, <2>7 DEF ApplyAnnotate, Accept, Refuse
  <2>. QED  BY <2>1, <2>8
<1>4. CASE r \in [kind : {"undo"}, phase : Pending, match : Files, read : Files]
  <2>1. Verdict(r, f) = UndoLast(f) /\ UndoLast(f).ok
    BY <1>4 DEF Verdict, Refuse
  <2>2. undo # Nothing /\ UndoLast(f) = Accept(undo.before)
    BY <2>1 DEF UndoLast, Refuse
  <2>. QED  BY <2>1, <2>2 DEF Types, Accept
<1>. QED  BY <1>1, <1>2, <1>3, <1>4, PendingShape

-----------------------------------------------------------------------------
(* The shape of the state is kept by every step.                           *)

(* At the start nobody holds the lock.                                     *)
LEMMA InitTypes == Init => Types /\ LockHeld
<1>. SUFFICES ASSUME Init  PROVE Types /\ LockHeld
  OBVIOUS
<1>1. FirstFile \in Files
  BY WritesAssumption DEF Files, Items
<1>2. Types
  <2>1. Nothing \in Request
    BY DEF Request
  <2>2. changes \in 0..MaxChanges /\ requests \in 0..MaxRequests
    BY WritesAssumption DEF Init
  <2>3. view \in [Tabs -> Files] /\ hash \in [Tabs -> Files] /\ pane \in [Tabs -> BOOLEAN]
    BY <1>1 DEF Init
  <2>4. \A t \in Tabs : pane[t] => doc[t] # Nothing
    BY DEF Init
  <2>. QED  BY <1>1, <2>1, <2>2, <2>3, <2>4 DEF Init, Types
<1>3. LockHeld
  BY DEF Init, LockHeld, Phase
<1>. QED  BY <1>2, <1>3

(* A request is well formed when it is sent.                               *)
LEMMA SendsTypes ==
  ASSUME Types, NEW t \in Tabs, NEW r \in Request, Sends(t, r)
  PROVE  Types'
BY WritesAssumption DEF Types, Sends, diskVars, tabVars, Request

(* What the reader does in a tab.                                          *)
LEMMA ReaderTypes ==
  ASSUME Types, NEW t \in Tabs, Reader(t)
  PROVE  Types'
<1>1. CASE OpenPane(t)
  <2>1. PICK text \in {file, <<>>} :
          doc' = IF doc[t] = Nothing
                 THEN [doc EXCEPT ![t] = [kind |-> "doc", text |-> text, clean |-> TRUE]]
                 ELSE doc
    BY <1>1 DEF OpenPane
  <2>2. text \in Files
    <3>1. <<>> \in Seq(Items)
      OBVIOUS
    <3> QED BY <2>1, <3>1 DEF Types, Files
  <2>3. doc' \in [Tabs -> {Nothing} \cup [kind : {"doc"}, text : Files, clean : BOOLEAN]]
    BY <2>1, <2>2 DEF Types
  <2>4. [kind |-> "doc", text |-> text, clean |-> TRUE] # Nothing
    BY DEF Nothing
  <2>5. \A u \in Tabs : pane'[u] => doc'[u] # Nothing
    BY <1>1, <2>1, <2>4 DEF Types, OpenPane
  <2>6. pane' \in [Tabs -> BOOLEAN]
    BY <1>1 DEF Types, OpenPane
  <2>7. /\ UNCHANGED <<file, rendered, undo, detached, foreign, view, hash, cell>>
        /\ UNCHANGED <<req, changes, requests>>
    BY <1>1 DEF OpenPane, diskVars, counters
  <2> QED BY <2>3, <2>5, <2>6, <2>7 DEF Types
<1>2. CASE ClosePane(t)
  BY <1>2 DEF Types, ClosePane, diskVars, counters
<1>3. CASE TypeDoc(t)
  <2>1. doc[t] \in [kind : {"doc"}, text : Files, clean : BOOLEAN]
    BY <1>3 DEF TypeDoc, Types
  <2>2. PICK f \in Changed(doc[t].text) :
          doc' = [doc EXCEPT ![t] = [kind |-> "doc", text |-> f, clean |-> FALSE]]
    BY <1>3 DEF TypeDoc
  <2>3. f \in Files
    BY <2>1, ChangedType
  <2>4. changes' \in 0..MaxChanges
    BY <1>3, WritesAssumption DEF TypeDoc, Author, Types
  <2>6. UNCHANGED <<file, detached, foreign, rendered, undo, view, hash, pane, cell, req, requests>>
    BY <1>3 DEF TypeDoc, diskVars
  <2>7. doc' \in [Tabs -> {Nothing} \cup [kind : {"doc"}, text : Files, clean : BOOLEAN]]
    BY <2>2, <2>3 DEF Types
  <2>8. \A u \in Tabs : pane[u] => doc'[u] # Nothing
    <3>1. ASSUME NEW u \in Tabs, u # t, pane[u]  PROVE doc'[u] # Nothing
      BY <2>2, <3>1 DEF Types
    <3>2. doc'[t] # Nothing
      BY <2>2 DEF Types, Nothing
    <3>. QED  BY <3>1, <3>2
  <2>. QED  BY <2>4, <2>6, <2>7, <2>8 DEF Types
<1>4. CASE SendSave(t)
  <2>1. doc[t].text \in Files
    BY <1>4 DEF SendSave, Types
  <2>2. [kind |-> "save", phase |-> "sent", body |-> doc[t].text, read |-> <<>>] \in Request
    BY <2>1 DEF Request, Pending, Files
  <2>. QED  BY <1>4, <2>2, SendsTypes DEF SendSave
<1>5. CASE \E i \in DOMAIN view[t] : OpenCell(t, i)
  <2>1. PICK i \in DOMAIN view[t] : OpenCell(t, i)
    BY <1>5
  <2>2. Ordinal(view[t], i) \in Nat
    BY OrdinalType DEF Types
  <2>. QED  BY <2>1, <2>2 DEF Types, OpenCell, diskVars, counters
<1>6. CASE \E c \in Codes : TypeCell(t, c)
  <2>1. PICK c \in Codes : TypeCell(t, c)
    BY <1>6
  <2>2. changes' \in 0..MaxChanges
    BY <2>1, WritesAssumption DEF TypeCell, Author, Types
  <2>. QED  BY <2>1, <2>2 DEF Types, TypeCell, diskVars
<1>7. CASE CloseCell(t)
  BY <1>7 DEF Types, CloseCell, diskVars, counters
<1>8. CASE SendCell(t)
  <2>1. cell[t] \in [kind : {"cell"}, idx : Nat, seed : Codes, text : Codes]
    BY <1>8 DEF SendCell, Types
  <2>2. [kind |-> "cell", phase |-> "sent", idx |-> cell[t].idx, source |-> cell[t].text,
         prev |-> cell[t].seed, read |-> <<>>] \in Request
    BY <2>1 DEF Request, Pending, Files
  <2>. QED  BY <1>8, <2>2, SendsTypes DEF SendCell
<1>9. CASE \E i \in DOMAIN view[t] : \E n \in Notes : SendAnnotate(t, i, n)
  <2>1. PICK i \in DOMAIN view[t], n \in Notes : SendAnnotate(t, i, n)
    BY <1>9
  <2>2. i \in Nat /\ view[t][i] \in Items /\ hash[t] \in Files
    BY DEF Types, Files
  <2>3. [kind |-> "annotate", phase |-> "sent", at |-> i, text |-> view[t][i],
         note |-> n, match |-> hash[t], read |-> <<>>] \in Request
    BY <2>2 DEF Request, Pending, Files
  <2>. QED  BY <2>1, <2>3, SendsTypes DEF SendAnnotate
<1>10. CASE SendUndo(t)
  <2>1. hash[t] \in Files
    BY DEF Types
  <2>2. [kind |-> "undo", phase |-> "sent", match |-> hash[t], read |-> <<>>] \in Request
    BY <2>1 DEF Request, Pending, Files
  <2>. QED  BY <1>10, <2>2, SendsTypes DEF SendUndo
<1>11. CASE Reload(t)
  BY <1>11 DEF Types, Reload, diskVars, counters
<1>12. CASE LiveUpdate(t)
  BY <1>12 DEF Types, LiveUpdate, diskVars, counters
<1>13. CASE Answer(t)
  <2>1. req' \in [Tabs -> Request]
    BY <1>13 DEF Answer, Types, Request
  <2>2. hash' \in [Tabs -> Files]
    <3>1. CASE hash' = hash
      BY <3>1 DEF Types
    <3>2. CASE hash' = [hash EXCEPT ![t] = req[t].sha] /\ req[t].phase = "ok" /\ req[t] # Nothing
      <4>1. req[t] \in Request
        BY DEF Types
      <4>2. req[t].sha \in Files
        BY <3>2, <4>1 DEF Request, Pending, Refused
      <4>. QED  BY <3>2, <4>2 DEF Types
    <3>3. req[t] # Nothing
      BY <1>13 DEF Answer, Phase
    <3>. QED  BY <1>13, <3>1, <3>2, <3>3 DEF Answer
  <2>3. doc' \in [Tabs -> {Nothing} \cup [kind : {"doc"}, text : Files, clean : BOOLEAN]]
    <3>1. CASE doc' = doc
      BY <3>1 DEF Types
    <3>2. CASE doc' = [doc EXCEPT ![t].clean = TRUE] /\ doc[t] # Nothing
      <4>1. doc[t] \in [kind : {"doc"}, text : Files, clean : BOOLEAN]
        BY <3>2 DEF Types
      <4>2. [doc[t] EXCEPT !.clean = TRUE] \in [kind : {"doc"}, text : Files, clean : BOOLEAN]
        BY <4>1
      <4>3. doc' = [doc EXCEPT ![t] = [doc[t] EXCEPT !.clean = TRUE]]
        BY <3>2
      <4>. QED  BY <4>2, <4>3 DEF Types
    <3>. QED  BY <1>13, <3>1, <3>2 DEF Answer
  <2>4. \A u \in Tabs : pane[u] => doc'[u] # Nothing
    <3>1. CASE doc' = doc
      BY <3>1 DEF Types
    <3>2. CASE doc' = [doc EXCEPT ![t].clean = TRUE] /\ doc[t] # Nothing
      BY <3>2 DEF Types, Nothing
    <3>. QED  BY <1>13, <3>1, <3>2 DEF Answer
  <2>5. cell' \in [Tabs -> {Nothing} \cup [kind : {"cell"}, idx : Nat, seed : Codes, text : Codes]]
    BY <1>13 DEF Answer, Types
  <2>. QED  BY <1>13, <2>1, <2>2, <2>3, <2>4, <2>5 DEF Answer, Types, diskVars, counters
<1>. QED  BY <1>1, <1>2, <1>3, <1>4, <1>5, <1>6, <1>7, <1>8, <1>9, <1>10, <1>11, <1>12, <1>13
          DEF Reader

(* What a handler does.                                                    *)
LEMMA HandlerTypes ==
  ASSUME Types, NEW t \in Tabs, Handler(t)
  PROVE  Types'
<1>. DEFINE r == req[t]
<1>1. r \in Request
  BY DEF Types
<1>2. r # Nothing /\ r.phase \in Pending
  BY DEF Handler, Read, Write, WriteFails, Abandon, Phase, Pending
<1>3. r.read \in Files
  BY <1>1, <1>2, PendingShape
<1>4. CASE Read(t)
  <2>1. [r EXCEPT !.phase = "read", !.read = file] \in Request
    <3>. DEFINE q == [r EXCEPT !.phase = "read", !.read = file]
    <3>1. file \in Files /\ "read" \in Pending
      BY DEF Types, Pending
    <3>. HIDE DEF r
    <3>2. CASE r \in [kind : {"save"}, phase : Pending, body : Files, read : Files]
      <4>1. q \in [kind : {"save"}, phase : Pending, body : Files, read : Files]
        BY <3>1, <3>2
      <4>. QED  BY <4>1 DEF Request
    <3>3. CASE r \in [kind : {"cell"}, phase : Pending, idx : Nat, source : Codes,
                      prev : Codes, read : Files]
      <4>1. q \in [kind : {"cell"}, phase : Pending, idx : Nat, source : Codes,
                   prev : Codes, read : Files]
        BY <3>1, <3>3
      <4>. QED  BY <4>1 DEF Request
    <3>4. CASE r \in [kind : {"annotate"}, phase : Pending, at : Nat, text : Items,
                      note : Notes, match : Files, read : Files]
      <4>1. q \in [kind : {"annotate"}, phase : Pending, at : Nat, text : Items,
                   note : Notes, match : Files, read : Files]
        BY <3>1, <3>4
      <4>. QED  BY <4>1 DEF Request
    <3>5. CASE r \in [kind : {"undo"}, phase : Pending, match : Files, read : Files]
      <4>1. q \in [kind : {"undo"}, phase : Pending, match : Files, read : Files]
        BY <3>1, <3>5
      <4>. QED  BY <4>1 DEF Request
    <3>. QED  BY <1>1, <1>2, <3>2, <3>3, <3>4, <3>5, PendingShape
  <2>2. req' = [req EXCEPT ![t] = [r EXCEPT !.phase = "read", !.read = file]]
    BY <1>4 DEF Read
  <2>3. req' \in [Tabs -> Request]
    <3>. DEFINE q == [r EXCEPT !.phase = "read", !.read = file]
    <3>1. q \in Request /\ req' = [req EXCEPT ![t] = q]
      BY <2>1, <2>2
    <3>. HIDE DEF q
    <3>. QED  BY <3>1 DEF Types
  <2>4. /\ foreign' = FALSE
        /\ UNCHANGED <<file, detached, rendered, undo, view, hash, pane, doc, cell, changes, requests>>
    BY <1>4 DEF Read, tabVars, counters
  <2>. QED  BY <2>3, <2>4 DEF Types
<1>5. CASE Write(t)
  <2>. DEFINE v == Verdict(r, r.read)
  <2>1. CASE v.ok
    <3>1. v.next \in Files
      BY <1>1, <1>2, <1>3, <2>1, VerdictType
    <3>2. Accepted(r, v.next) \in Request
      <4>1. r.kind \in {"save", "cell", "annotate", "undo"}
        BY <1>1, <1>2, PendingShape
      <4>2. r.kind = "cell" => r.idx \in Nat
        BY <1>1, <1>2, PendingShape
      <4>. HIDE DEF v, r
      <4>. QED  BY <3>1, <4>1, <4>2 DEF Accepted, Request, Files
    <3>3. UndoAfter(r, r.read, v.next) \in {Nothing} \cup [kind : {"slot"}, before : Files, after : Files]
      BY <1>3, <3>1 DEF UndoAfter, Types
    <3>4. /\ req' = [req EXCEPT ![t] = Accepted(r, v.next)]
          /\ file' = v.next
          /\ undo' = UndoAfter(r, r.read, v.next)
          /\ UNCHANGED <<detached, foreign, rendered, view, hash, pane, doc, cell, changes, requests>>
      BY <1>5, <2>1 DEF Write, tabVars, counters
    <3>. HIDE DEF v, r
    <3>. QED  BY <3>1, <3>2, <3>3, <3>4 DEF Types
  <2>2. CASE ~v.ok
    <3>1. /\ req' = [req EXCEPT ![t] = Refused]
          /\ UNCHANGED <<file, undo, detached, foreign, rendered, view, hash, pane, doc, cell, changes, requests>>
      BY <1>5, <2>2 DEF Write, tabVars, counters
    <3>. QED  BY <3>1 DEF Types, Request
  <2>. QED  BY <2>1, <2>2
<1>6. CASE WriteFails(t)
  BY <1>6 DEF WriteFails, Types, Request, diskVars, tabVars, counters
<1>7. CASE Abandon(t)
  <2>1. detached' \in {Nothing} \cup [kind : {"detached"}, file : Files]
    <3>1. CASE detached' = detached
      BY <3>1 DEF Types
    <3>2. CASE /\ Verdict(r, r.read).ok
               /\ detached' = [kind |-> "detached", file |-> Verdict(r, r.read).next]
      <4>1. Verdict(r, r.read).next \in Files
        BY <1>1, <1>2, <1>3, <3>2, VerdictType
      <4>. QED  BY <3>2, <4>1
    <3>. QED  BY <1>7, <3>1, <3>2 DEF Abandon
  <2>2. req' \in [Tabs -> Request]
    BY <1>7 DEF Abandon, Types, Request
  <2>. QED  BY <1>7, <2>1, <2>2 DEF Abandon, Types, tabVars, counters
<1>. QED  BY <1>4, <1>5, <1>6, <1>7 DEF Handler

(* Every step.                                                             *)
LEMMA StepTypes ==
  ASSUME Types, [Next]_vars
  PROVE  Types'
<1>1. ASSUME NEW t \in Tabs, Reader(t)  PROVE Types'
  BY <1>1, ReaderTypes
<1>2. ASSUME NEW t \in Tabs, Handler(t)  PROVE Types'
  BY <1>2, HandlerTypes
<1>3. CASE Land
  BY <1>3 DEF Land, Types, tabVars, counters
<1>4. CASE Render
  BY <1>4 DEF Render, Types, diskVars, tabVars, counters
<1>5. CASE Restart
  <2>1. req' \in [Tabs -> Request]
    BY <1>5 DEF Restart, Types, Request
  <2>. QED  BY <1>5, <2>1 DEF Restart, Types, tabVars, counters
<1>6. CASE ExternalWrite
  <2>1. file' \in Files
    BY <1>6, ChangedType DEF ExternalWrite, Types
  <2>2. changes' \in 0..MaxChanges
    BY <1>6, WritesAssumption DEF ExternalWrite, Author, Types
  <2>. QED  BY <1>6, <2>1, <2>2 DEF ExternalWrite, Types, tabVars
<1>7. CASE UNCHANGED vars
  BY <1>7 DEF vars, diskVars, tabVars, counters, Types
<1>. QED  BY <1>1, <1>2, <1>3, <1>4, <1>5, <1>6, <1>7 DEF Next

-----------------------------------------------------------------------------
(* The save lock.                                                          *)

(* A step that starts no read, and either leaves the file alone, or is     *)
(* recorded as foreign, or ends the only read there is, keeps the lock.    *)
LEMMA NoNewRead ==
  ASSUME LockHeld, Types, Types',
         \A u \in Tabs : Phase(u)' = "read" => Phase(u) = "read" /\ req'[u] = req[u],
         \/ file' = file /\ foreign' = foreign
         \/ foreign'
         \/ \A u \in Tabs : Phase(u)' # "read"
  PROVE  LockHeld'
<1>. SUFFICES ASSUME NEW t \in Tabs, Phase(t)' = "read"
              PROVE  /\ \A u \in Tabs \ {t} : Phase(u)' # "read"
                     /\ ~foreign' => file' = req'[t].read
  BY DEF LockHeld
<1>1. \A u \in Tabs \ {t} : Phase(u)' # "read"
  BY DEF LockHeld
<1>2. ~foreign' => file' = req'[t].read
  BY DEF LockHeld
<1>. QED  BY <1>1, <1>2

(* The reader of a tab neither takes the lock nor writes the file.         *)
LEMMA ReaderLock ==
  ASSUME LockHeld, Types, Types', NEW t \in Tabs, Reader(t)
  PROVE  LockHeld'
<1>1. file' = file /\ foreign' = foreign
  BY DEF Reader, OpenPane, ClosePane, TypeDoc, SendSave, OpenCell, TypeCell, CloseCell, SendCell,
         SendAnnotate, SendUndo, Reload, LiveUpdate, Answer, Sends, diskVars
<1>2. CASE req' = req
  BY <1>1, <1>2, NoNewRead DEF Phase
<1>3. CASE \E r : /\ req' = [req EXCEPT ![t] = r]
                  /\ r = Nothing \/ r.phase = "sent"
  <2>1. PICK r : req' = [req EXCEPT ![t] = r] /\ (r = Nothing \/ r.phase = "sent")
    BY <1>3
  <2>2. req'[t] = r /\ \A u \in Tabs \ {t} : req'[u] = req[u]
    BY <2>1 DEF Types
  <2>3. Phase(t)' # "read"
    BY <2>1, <2>2 DEF Phase
  <2>4. \A u \in Tabs : Phase(u)' = "read" => Phase(u) = "read" /\ req'[u] = req[u]
    BY <2>2, <2>3 DEF Phase
  <2>. QED  BY <1>1, <2>4, NoNewRead
<1>4. req' = req \/ \E r : req' = [req EXCEPT ![t] = r] /\ (r = Nothing \/ r.phase = "sent")
  <2>1. CASE \E r : Sends(t, r) /\ r.phase = "sent"
    BY <2>1 DEF Sends
  <2>2. CASE Answer(t)
    BY <2>2 DEF Answer
  <2>3. CASE SendSave(t)
    BY <2>1, <2>3 DEF SendSave
  <2>4. CASE SendCell(t)
    BY <2>1, <2>4 DEF SendCell
  <2>5. CASE \E i \in DOMAIN view[t] : \E n \in Notes : SendAnnotate(t, i, n)
    BY <2>1, <2>5 DEF SendAnnotate
  <2>6. CASE SendUndo(t)
    BY <2>1, <2>6 DEF SendUndo
  <2>. QED  BY <2>2, <2>3, <2>4, <2>5, <2>6
            DEF Reader, OpenPane, ClosePane, TypeDoc, OpenCell, TypeCell, CloseCell, Reload, LiveUpdate
<1>. QED  BY <1>2, <1>3, <1>4

(* A handler reads under the lock, and lets it go when it writes.          *)
LEMMA HandlerLock ==
  ASSUME LockHeld, Types, Types', NEW t \in Tabs, Handler(t)
  PROVE  LockHeld'
<1>1. CASE Read(t)
  <2>1. req[t] # Nothing /\ req[t].phase = "sent" /\ req[t] \in Request
    BY <1>1 DEF Read, Phase, Types
  <2>2. req'[t] = [req[t] EXCEPT !.phase = "read", !.read = file]
    BY <1>1 DEF Read, Types
  <2>3. req'[t].read = file
    BY <2>1, <2>2, PendingShape DEF Pending
  <2>4. \A u \in Tabs \ {t} : req'[u] = req[u]
    BY <1>1 DEF Read, Types
  <2>5. \A u \in Tabs \ {t} : Phase(u)' # "read"
    BY <1>1, <2>4 DEF Read, LockFree, Phase
  <2>6. file' = file
    BY <1>1 DEF Read
  <2>. QED  BY <2>3, <2>5, <2>6 DEF LockHeld
<1>2. ASSUME Phase(t)' # "read", \A u \in Tabs \ {t} : req'[u] = req[u],
             Phase(t) = "read" \/ (file' = file /\ foreign' = foreign)
      PROVE  LockHeld'
  <2>1. \A u \in Tabs : Phase(u)' = "read" => Phase(u) = "read" /\ req'[u] = req[u]
    BY <1>2 DEF Phase
  <2>2. CASE Phase(t) = "read"
    <3>1. \A u \in Tabs : Phase(u)' # "read"
      BY <1>2, <2>1, <2>2 DEF LockHeld
    <3>. QED  BY <2>1, <3>1, NoNewRead
  <2>. QED  BY <1>2, <2>1, <2>2, NoNewRead
<1>3. CASE Write(t)
  <2>1. \A u \in Tabs \ {t} : req'[u] = req[u]
    BY <1>3 DEF Write, Types
  <2>2. req'[t].phase # "read"
    BY <1>3 DEF Write, Types, Accepted, Refused
  <2>. QED  BY <1>2, <1>3, <2>1, <2>2 DEF Write, Phase
<1>4. CASE WriteFails(t)
  <2>1. \A u \in Tabs \ {t} : req'[u] = req[u]
    BY <1>4 DEF WriteFails, Types
  <2>2. req'[t].phase # "read"
    BY <1>4 DEF WriteFails, Types, Refused
  <2>. QED  BY <1>2, <1>4, <2>1, <2>2 DEF WriteFails, Phase
<1>5. CASE Abandon(t)
  <2>1. \A u \in Tabs \ {t} : req'[u] = req[u]
    BY <1>5 DEF Abandon, Types
  <2>2. Phase(t)' # "read"
    BY <1>5 DEF Abandon, Types, Phase
  <2>. QED  BY <1>2, <1>5, <2>1, <2>2 DEF Abandon
<1>. QED  BY <1>1, <1>3, <1>4, <1>5 DEF Handler

(* No step lets a second handler in.                                       *)
LEMMA StepLock ==
  ASSUME LockHeld, Types, Types', [Next]_vars
  PROVE  LockHeld'
<1>1. ASSUME NEW t \in Tabs, Reader(t)  PROVE LockHeld'
  BY <1>1, ReaderLock
<1>2. ASSUME NEW t \in Tabs, Handler(t)  PROVE LockHeld'
  BY <1>2, HandlerLock
<1>3. CASE Land
  BY <1>3, NoNewRead DEF Land, Phase
<1>4. CASE Render
  BY <1>4, NoNewRead DEF Render, Phase, diskVars
<1>5. CASE Restart
  <2>1. \A u \in Tabs : Phase(u)' # "read"
    BY <1>5 DEF Restart, Phase
  <2>. QED  BY <2>1, NoNewRead
<1>6. CASE ExternalWrite
  BY <1>6, NoNewRead DEF ExternalWrite, Phase
<1>7. CASE UNCHANGED vars
  BY <1>7, NoNewRead DEF vars, diskVars, Phase
<1>. QED  BY <1>1, <1>2, <1>3, <1>4, <1>5, <1>6, <1>7 DEF Next

-----------------------------------------------------------------------------
(* The save lock of a notebook (http.rs, ws.rs) is exclusive, and while it *)
(* is held and nobody writes past it, the file is the one that was read.   *)
THEOREM LockIsExclusive == Spec => []TypeOK
<1>1. Init => TypeOK
  BY InitTypes, TypeParts
<1>2. TypeOK /\ [Next]_vars => TypeOK'
  <2>. SUFFICES ASSUME Types, LockHeld, [Next]_vars  PROVE Types' /\ LockHeld'
    BY TypeParts DEF TypeOK, Types
  <2>. QED  BY StepTypes, StepLock
<1>. QED  BY <1>1, <1>2, PTL DEF Spec

(* What a handler that answers ok has done, when nobody wrote past the     *)
(* lock.                                                                   *)
LEMMA WriteIsGuarded ==
  ASSUME Types, LockHeld, Next, NEW t \in Tabs
  PROVE  WriteSeesFile(t)
<1>. SUFFICES ASSUME Phase(t) = "read", req'[t] # Nothing, req'[t].phase = "ok", ~foreign
              PROVE  /\ req[t].kind = "cell" =>
                          \E i \in DOMAIN file :
                            /\ file[i] = req[t].prev /\ Ordinal(file, i) = req[t].idx
                            /\ file' = [file EXCEPT ![i] = req[t].source]
                     /\ req[t].kind \in {"annotate", "undo"} => file = req[t].match
                     /\ req[t].kind = "undo" => undo.after = file /\ undo.before = file'
  BY DEF WriteSeesFile
<1>. DEFINE r == req[t]
<1>1. r # Nothing /\ r.phase = "read" /\ r \in Request
  BY DEF Phase, Types
<1>2. r.read = file
  BY DEF LockHeld
<1>3. Write(t)
  <2>1. req'[t] # req[t]
    BY <1>1
  <2>2. ASSUME NEW u \in Tabs, u # t, Reader(u) \/ Handler(u)  PROVE FALSE
    <3>1. req' = req \/ \E x : req' = [req EXCEPT ![u] = x]
      <4>1. CASE Reader(u)
        BY <4>1 DEF Reader, OpenPane, ClosePane, TypeDoc, SendSave, OpenCell, TypeCell, CloseCell,
             SendCell, SendAnnotate, SendUndo, Reload, LiveUpdate, Answer, Sends
      <4>2. CASE Read(u)
        BY <4>2, Zenon DEF Read
      <4>3. CASE Write(u) \/ WriteFails(u) \/ Abandon(u)
        BY <4>3 DEF Write, WriteFails, Abandon
      <4>. QED  BY <2>2, <4>1, <4>2, <4>3 DEF Handler
    <3>. QED  BY <2>1, <2>2, <3>1 DEF Types
  <2>3. ~Reader(t)
    BY <1>1, <2>1 DEF Reader, OpenPane, ClosePane, TypeDoc, SendSave, OpenCell, TypeCell, CloseCell,
         SendCell, SendAnnotate, SendUndo, Reload, LiveUpdate, Answer, Sends, Phase
  <2>4. ~Read(t) /\ ~WriteFails(t) /\ ~Abandon(t)
    BY <1>1 DEF Read, WriteFails, Abandon, Phase, Refused, Types
  <2>5. ~Land /\ ~Render /\ ~ExternalWrite /\ ~Restart
    BY <1>1, <2>1 DEF Land, Render, ExternalWrite, Restart, Phase
  <2>. QED  BY <2>2, <2>3, <2>4, <2>5 DEF Next, Handler
<1>4. Verdict(r, file).ok /\ file' = Verdict(r, file).next
  BY <1>2, <1>3 DEF Write, Types, Refused
<1>5. CASE r.kind = "save"
  BY <1>5
<1>6. CASE r.kind = "cell"
  <2>. DEFINE i == LocateCodeBlock(file, r.idx)
  <2>1. Verdict(r, file) = CellSave(r, file)
    BY <1>6 DEF Verdict
  <2>2. i # 0 /\ file[i] = r.prev /\ CellSave(r, file) = Accept([file EXCEPT ![i] = r.source])
    BY <1>4, <2>1 DEF CellSave, Refuse
  <2>3. i \in DOMAIN file /\ Ordinal(file, i) = r.idx
    BY <2>2, Located DEF Types
  <2>4. file' = [file EXCEPT ![i] = r.source]
    BY <1>4, <2>1, <2>2 DEF Accept
  <2>. HIDE DEF i
  <2>. QED  BY <1>6, <2>2, <2>3, <2>4
<1>7. CASE r.kind = "annotate"
  BY <1>4, <1>7 DEF Verdict, Refuse
<1>8. CASE r.kind = "undo"
  BY <1>4, <1>8 DEF Verdict, UndoLast, Accept, Refuse
<1>. QED  BY <1>1, <1>5, <1>6, <1>7, <1>8, PendingShape DEF Pending

(* A cell save, a comment and an undo never destroy what they have not     *)
(* seen, whatever else is saved in between, as long as every writer takes  *)
(* the lock.                                                               *)
THEOREM WritesAreGuarded == Spec => GuardedWrites
<1>1. TypeOK /\ [Next]_vars => [\A t \in Tabs : WriteSeesFile(t)]_vars
  <2>. SUFFICES ASSUME Types, LockHeld, Next, NEW t \in Tabs  PROVE WriteSeesFile(t)
    BY TypeParts
  <2>. QED  BY WriteIsGuarded
<1>. QED  BY <1>1, LockIsExclusive, PTL DEF Spec, GuardedWrites


(***************************************************************************)
(* WatchLoop: what a file reaches.                                         *)
(***************************************************************************)
Disks == [Sources -> Contents]

\* What a file reaches holds what it names, and what its members name.
LEMMA ReachedCloses ==
  ASSUME NEW d \in Disks, NEW f \in Sources
  PROVE  Reached(d, f) \subseteq Sources /\ Closed(d, f, Reached(d, f))
<1>1. \A g \in Sources : d[g].refs \subseteq Sources
  BY DEF Disks, Contents
<1>2. d[f].refs \subseteq Reached(d, f)
  BY <1>1 DEF Reached, Closed
<1>3. ASSUME NEW g \in Reached(d, f), NEW h \in d[g].refs PROVE h \in Reached(d, f)
  <2>1. g \in Sources /\ h \in Sources
    BY <1>1, <1>3 DEF Reached
  <2>2. ASSUME NEW S \in SUBSET Sources, Closed(d, f, S) PROVE h \in S
    <3>1. g \in S
      BY <2>2, <1>3 DEF Reached
    <3> QED
      BY <3>1, <2>2, <1>3 DEF Closed
  <2> QED
    BY <2>1, <2>2 DEF Reached
<1> QED
  BY <1>2, <1>3 DEF Reached, Closed

\* And is within every set that does.
LEMMA ReachedIsLeast ==
  ASSUME NEW d, NEW f, NEW S \in SUBSET Sources, Closed(d, f, S)
  PROVE  Reached(d, f) \subseteq S
BY DEF Reached

\* Two disks that agree on the file and on what it reaches on both, have it
\* reach the same.
LEMMA ReachedAlike ==
  ASSUME NEW d \in Disks, NEW e \in Disks, NEW f \in Sources, d[f] = e[f],
         \A g \in Reached(d, f) \cap Reached(e, f) : d[g] = e[g]
  PROVE  Reached(d, f) = Reached(e, f)
<1> DEFINE S == Reached(d, f) \cap Reached(e, f)
<1>1. /\ Reached(d, f) \subseteq Sources /\ Closed(d, f, Reached(d, f))
      /\ Reached(e, f) \subseteq Sources /\ Closed(e, f, Reached(e, f))
  BY ReachedCloses
<1>2. Closed(d, f, S) /\ Closed(e, f, S)
  BY <1>1 DEF Closed
<1>3. S \in SUBSET Sources
  BY <1>1
<1> HIDE DEF S
<1>4. Reached(d, f) \subseteq S /\ Reached(e, f) \subseteq S
  BY <1>2, <1>3, ReachedIsLeast
<1> QED
  BY <1>4 DEF S

\* And render it alike.
LEMMA RenderedAlike ==
  ASSUME NEW d \in Disks, NEW e \in Disks, NEW f \in Sources, NEW draw, d[f] = e[f],
         \A g \in Reached(d, f) \cap Reached(e, f) : d[g] = e[g]
  PROVE  Rendered(d, f, draw) = Rendered(e, f, draw)
<1> DEFINE R == Reached(d, f)
           P(b) == { <<g, b[g].own>> : g \in R } \cup UNION { b[g].pasted : g \in R \cup {f} }
<1>1. Reached(e, f) = R
  BY ReachedAlike
<1>2. \A g \in R : d[g] = e[g]
  BY <1>1
<1>3. { <<g, d[g].own>> : g \in R } = { <<g, e[g].own>> : g \in R }
  BY <1>2
<1>4. { d[g].pasted : g \in R \cup {f} } = { e[g].pasted : g \in R \cup {f} }
  BY <1>2
<1>5. P(d) = P(e)
  BY <1>3, <1>4
<1>6. /\ Rendered(d, f, draw) = [own |-> d[f].own, refs |-> {}, drawn |-> draw, pasted |-> P(d)]
      /\ Rendered(e, f, draw) = [own |-> e[f].own, refs |-> {}, drawn |-> draw, pasted |-> P(e)]
  BY <1>1 DEF Rendered
<1> HIDE DEF P
<1> QED
  BY <1>5, <1>6

LEMMA RenderedType ==
  ASSUME NEW d \in Disks, NEW f \in Sources, NEW draw \in Draws
  PROVE  /\ Rendered(d, f, draw) \in Contents
         /\ Rendered(d, f, draw).own = d[f].own /\ Rendered(d, f, draw).drawn = draw
<1> DEFINE R == Reached(d, f)
           P == { <<g, d[g].own>> : g \in R } \cup UNION { d[g].pasted : g \in R \cup {f} }
<1>1. R \subseteq Sources
  BY DEF Reached
<1>2. \A g \in Sources : /\ d[g].own \in 0..(MaxSaves + 1)
                       /\ d[g].pasted \subseteq Sources \X (0..(MaxSaves + 1))
  BY DEF Disks, Contents
<1>3. P \subseteq Sources \X (0..(MaxSaves + 1))
  <2>1. { <<g, d[g].own>> : g \in R } \subseteq Sources \X (0..(MaxSaves + 1))
    BY <1>1, <1>2
  <2>2. UNION { d[g].pasted : g \in R \cup {f} } \subseteq Sources \X (0..(MaxSaves + 1))
    BY <1>1, <1>2
  <2> QED
    BY <2>1, <2>2
<1>4. Rendered(d, f, draw) = [own |-> d[f].own, refs |-> {}, drawn |-> draw, pasted |-> P]
  BY DEF Rendered
<1> HIDE DEF P
<1> QED
  BY <1>2, <1>3, <1>4 DEF Contents

(***************************************************************************)
(* The types.                                                              *)
(***************************************************************************)
Jobs == [todo : SUBSET Pages, made : Contents,
         step : {"next", "exists", "read", "written", "scanned"}]

LEMMA WatchConstants ==
  /\ Pages \subseteq Sources /\ MaxSaves \in Nat /\ 0 \notin Draws /\ Draws \subseteq Nat
  /\ Absent \in Contents
  /\ \A f \in Sources : \A own \in 0..(MaxSaves + 1), refs \in Bodies[f] :
       Written(own, refs) \in Contents
BY WatchAssumption DEF Absent, Written, Contents

LEMMA RenderingType ==
  ASSUME NEW S \in SUBSET Pages
  PROVE  Rendering(S) \in Jobs
BY WatchConstants DEF Rendering, Jobs

\* How the saves and removals of authors are counted.
Counted(content) ==
  \/ /\ saves' = saves + 1 /\ saves < MaxSaves /\ removals' = removals
  \/ /\ content = Absent /\ removals' = removals + 1 /\ removals < MaxRemovals
     /\ saves' = saves
\* What an author makes of a file.
LEMMA ChangeContent ==
  ASSUME WatchTypeOK, NEW f \in Sources, Save(f) \/ Unlink(f)
  PROVE  \E content \in Contents : Change(f, content) /\ Counted(content)
<1>1. CASE Unlink(f)
  BY <1>1, WatchConstants DEF Unlink, Counted
<1>2. CASE Save(f)
  <2>0. saves \in Nat /\ MaxSaves \in Nat /\ saves + 2 \in 0..(MaxSaves + 1)
    BY <1>2, WatchConstants DEF Save, WatchTypeOK
  <2>1. CASE Change(f, [disk[f] EXCEPT !.own = saves + 2])
    <3>1. disk[f] \in Contents
      BY DEF WatchTypeOK
    <3>2. [disk[f] EXCEPT !.own = saves + 2] \in Contents
      BY <3>1, <2>0 DEF Contents
    <3> QED
      BY <2>1, <3>2, <1>2 DEF Save, Counted
  <2>2. ASSUME NEW own \in {author[f].own, saves + 2} \ {0}, NEW refs \in Bodies[f],
               Change(f, Written(own, refs))
        PROVE  \E content \in Contents : Change(f, content) /\ Counted(content)
    <3>1. own \in 0..(MaxSaves + 1)
      BY <2>0 DEF WatchTypeOK, Contents
    <3> QED
      BY <2>2, <3>1, WatchConstants, <1>2 DEF Save, Counted
  <2> QED
    BY <1>2, <2>1, <2>2 DEF Save
<1> QED
  BY <1>1, <1>2

LEMMA WatchTypeStep ==
  ASSUME WatchTypeOK, [WatchNext]_watchVars
  PROVE  WatchTypeOK'
<1> USE DEF Jobs
<1>0. /\ Pages \subseteq Sources /\ job \in Jobs /\ disk \in Disks
      /\ job.todo \subseteq Pages /\ job.made \in Contents
  BY WatchConstants DEF WatchTypeOK, Disks
<1>1. ASSUME NEW f \in Sources, Receive(f) PROVE WatchTypeOK'
  BY <1>1 DEF Receive, WatchTypeOK, tables, authors
<1>2. CASE Flush
  <2>1. ComputeRenderSet(pending) \subseteq Pages
    BY DEF ComputeRenderSet
  <2>2. job' \in Jobs
    BY <1>2, <2>1, RenderingType DEF Flush
  <2> QED
    BY <1>2, <2>2 DEF Flush, WatchTypeOK, tables, authors
<1>3. CASE Install
  BY <1>3 DEF Install, WatchTypeOK, tables, authors
<1>4. ASSUME NEW f \in Sources, Gone(f) PROVE WatchTypeOK'
  <2>1. job' \in Jobs
    BY <1>4, <1>0, RenderingType DEF Gone, NextPage
  <2> QED
    BY <1>4, <2>1 DEF Gone, Turn, WatchTypeOK, tables, authors
<1>5. ASSUME NEW f \in Sources, Exists(f) PROVE WatchTypeOK'
  <2>1. job' \in Jobs
    BY <1>5, <1>0 DEF Exists
  <2> QED
    BY <1>5, <2>1 DEF Exists, Turn, WatchTypeOK, tables, authors
<1>6. ASSUME NEW f \in Sources, ReadSource(f) PROVE WatchTypeOK'
  <2>1. PICK draw \in Draws :
          job' = [job EXCEPT !.step = "read", !.made = Rendered(disk, f, draw)]
    BY <1>6 DEF ReadSource
  <2>2. Rendered(disk, f, draw) \in Contents
    BY <1>0, RenderedType
  <2>3. job' \in Jobs
    BY <2>1, <2>2, <1>0
  <2> QED
    BY <1>6, <2>3 DEF ReadSource, Turn, WatchTypeOK, tables, authors
<1>7. ASSUME NEW f \in Sources, ReadFails(f) PROVE WatchTypeOK'
  <2>1. job' \in Jobs
    BY <1>7, <1>0 DEF ReadFails
  <2> QED
    BY <1>7, <2>1 DEF ReadFails, Turn, WatchTypeOK, tables, authors
<1>8. ASSUME NEW f \in Sources, WriteOutput(f) PROVE WatchTypeOK'
  <2>1. job' \in Jobs
    BY <1>8, <1>0 DEF WriteOutput
  <2>2. f \in Pages
    BY <1>8, <1>0 DEF WriteOutput, At, Subject
  <2>3. hashes' \in [Pages -> Contents]
    BY <1>8, <1>0, <2>2 DEF WriteOutput, WatchTypeOK
  <2>4. disk' \in [Sources -> Contents] /\ (~inPlace => disk' = disk)
    BY <1>8, <1>0 DEF WriteOutput, WatchTypeOK
  <2>5. out' \in [Pages -> Contents]
    BY <1>8, <1>0, <2>2 DEF WriteOutput, WatchTypeOK
  <2>6. events' \subseteq Sources
    BY <1>8 DEF WriteOutput, WatchTypeOK, Noticed
  <2> QED
    BY <1>8, <2>1, <2>3, <2>4, <2>5, <2>6 DEF WriteOutput, Turn, WatchTypeOK, authors
<1>9. ASSUME NEW f \in Sources, Scan(f) PROVE WatchTypeOK'
  <2>1. job' \in Jobs
    BY <1>9, <1>0 DEF Scan
  <2>2. f \in Pages
    BY <1>9, <1>0 DEF Scan, At, Subject
  <2>3. CollectEmbedTargets(f) \subseteq Sources
    BY <1>0, ReachedCloses DEF CollectEmbedTargets, Present
  <2>4. graph' \in [Pages -> SUBSET Sources]
    BY <1>9, <2>2, <2>3 DEF Scan, WatchTypeOK
  <2>5. gaps' \subseteq Pages
    BY <1>9, <2>2 DEF Scan, WatchTypeOK
  <2> QED
    BY <1>9, <2>1, <2>4, <2>5 DEF Scan, Turn, WatchTypeOK, authors
<1>10. ASSUME NEW f \in Sources, Record(f) PROVE WatchTypeOK'
  <2>1. job' \in Jobs
    BY <1>10, <1>0, RenderingType DEF Record, NextPage
  <2>2. selfWrites' \in [Sources -> Contents]
    BY <1>10 DEF Record, WatchTypeOK
  <2> QED
    BY <1>10, <2>1, <2>2 DEF Record, Turn, WatchTypeOK, authors
<1>11. ASSUME NEW f \in Sources, Save(f) \/ Unlink(f) PROVE WatchTypeOK'
  <2>1. PICK content \in Contents : Change(f, content) /\ Counted(content)
    BY <1>11, ChangeContent
  <2>2. disk' \in [Sources -> Contents] /\ author' \in [Sources -> Contents]
    BY <2>1 DEF Change, WatchTypeOK
  <2>3. ~inPlace => disk' = author'
    BY <2>1 DEF Change, WatchTypeOK
  <2>4. events' \subseteq Sources /\ lapsed' \subseteq Sources
    BY <2>1 DEF Change, WatchTypeOK, Noticed
  <2>5. saves' \in 0..MaxSaves /\ removals' \in 0..MaxRemovals
    BY <2>1, WatchAssumption DEF Counted, WatchTypeOK
  <2> QED
    BY <2>1, <2>2, <2>3, <2>4, <2>5 DEF Change, WatchTypeOK, tables
<1>12. CASE UNCHANGED watchVars
  BY <1>12 DEF watchVars, tables, authors, WatchTypeOK
<1> QED
  BY <1>1, <1>2, <1>3, <1>4, <1>5, <1>6, <1>7, <1>8, <1>9, <1>10, <1>11, <1>12
     DEF WatchNext, Loop, RenderOne

LEMMA WatchTypeInit ==
  WatchInit => WatchTypeOK
<1> SUFFICES ASSUME WatchInit PROVE WatchTypeOK
  OBVIOUS
<1>1. \A f \in Sources : Written(1, Embeds[f]) \in Contents
  BY WatchConstants, WatchAssumption
<1>2. job \in Jobs
  BY RenderingType DEF WatchInit
<1>3. disk \in [Sources -> Contents] /\ author \in [Sources -> Contents]
  BY <1>1 DEF WatchInit
<1>4. /\ out \in [Pages -> Contents] /\ hashes \in [Pages -> Contents]
      /\ selfWrites \in [Sources -> Contents]
  BY WatchConstants DEF WatchInit
<1>5. saves \in 0..MaxSaves /\ removals \in 0..MaxRemovals
  BY WatchAssumption DEF WatchInit
<1> QED
  BY <1>2, <1>3, <1>4, <1>5 DEF WatchInit, WatchTypeOK, Jobs

(* WatchTypeOK is the shape of the watcher's state, and that it renders    *)
(* pages only and leaves the sources alone when it renders elsewhere.      *)
THEOREM WatchTypes == WatchSpec => []WatchTypeOK
BY WatchTypeInit, WatchTypeStep, PTL DEF WatchSpec

(***************************************************************************)
(* In place.  A page that is not to be looked at again shows outputs, or   *)
(* nobody could notice its last change; and so does the page in turn once  *)
(* its output is written.  That an event is dropped as an echo, or a write *)
(* is left out, must not lose this: what was recorded as the watcher's own *)
(* shows outputs, and text without outputs is not the text last written.   *)
(***************************************************************************)
Shown(f) == disk[f] = Absent \/ f \in lapsed \/ disk[f].drawn # 0

KeepsText == \A f \in Sources : f \in lapsed \/ disk[f].own = author[f].own
ToBeShown ==
  \A f \in Pages : Shown(f) \/ f \in events \/ f \in pending \/ f \in job.todo
ReadToWrite ==
  \A f \in Pages : At(f, "read") =>
    /\ job.made.drawn # 0
    /\ f \in lapsed \/ (disk[f] # Absent /\ job.made.own = disk[f].own)
WrittenShown == \A f \in Pages : At(f, "written") \/ At(f, "scanned") => Shown(f)
EchoShown == \A f \in Pages : selfWrites[f] = disk[f] => Shown(f)
HashShown == \A f \in Pages : hashes[f].own = disk[f].own => Shown(f)
InPlaceInv ==
  inPlace => KeepsText /\ ToBeShown /\ ReadToWrite /\ WrittenShown /\ EchoShown /\ HashShown

(***************************************************************************)
(* Elsewhere.  A page that is not to be rendered was rendered and scanned  *)
(* as on some disk d that differs from the present one only in files that  *)
(* are hot: their change is lapsed, or an event, or pending.               *)
(***************************************************************************)
Hot == lapsed \cup events \cup pending
Around(d, f) == {f} \cup Reached(d, f)
ShowsDisk(d, f) == out[f] = Rendered(d, f, out[f].drawn) /\ out[f].drawn # 0
Seen(d, f) ==
  /\ graph[f] = Reached(d, f)
  /\ \A g \in Around(d, f) : disk[g] = d[g] \/ g \in Hot
  /\ (\E g \in Around(d, f) : g \in Hot) \/ ShowsDisk(d, f)
Tracked(f) == disk[f] = Absent \/ f \in Hot \/ f \in gaps \/ \E d \in Disks : Seen(d, f)
Since(d) == \A g \in Sources : disk[g] = d[g] \/ g \in Hot

AllTracked == \A f \in Pages : f \notin job.todo \/ At(f, "scanned") => Tracked(f)
MadeSince ==
  \A f \in Pages : At(f, "read") =>
    \E d \in Disks : \E draw \in Draws : Since(d) /\ job.made = Rendered(d, f, draw)
WrittenSince ==
  \A f \in Pages : At(f, "written") =>
    \E d \in Disks : Since(d) /\ (d[f] = Absent \/ ShowsDisk(d, f))
ElsewhereInv == ~inPlace => hashes = out /\ AllTracked /\ MadeSince /\ WrittenSince

WatchInv == WatchTypeOK /\ InPlaceInv /\ ElsewhereInv

LEMMA OneSubject ==
  ASSUME WatchTypeOK, NEW f \in Sources, NEW g \in Sources, Subject(f), Subject(g)
  PROVE  f = g
<1>1. f \in job.todo /\ g \in job.todo /\ Place[f] <= Place[g] /\ Place[g] <= Place[f]
  BY DEF Subject
<1>2. Place[f] \in Nat /\ Place[g] \in Nat
  BY WatchAssumption
<1>3. Place[f] = Place[g]
  BY <1>1, <1>2
<1> QED
  BY <1>3, WatchAssumption

\* The subject's turn goes on: the step of the job is that of the subject.
LEMMA Turned ==
  ASSUME WatchTypeOK, NEW f \in Sources, Subject(f), job'.todo = job.todo
  PROVE  \A g \in Sources : \A step : At(g, step)' => g = f /\ step = job'.step
BY OneSubject DEF At, Subject

(***************************************************************************)
(* In place, step by step.                                                 *)
(***************************************************************************)
Unmoved == UNCHANGED <<disk, author, lapsed, hashes, selfWrites>>
LEMMA InPlaceUnmoved ==
  ASSUME KeepsText, EchoShown, HashShown, Unmoved
  PROVE  KeepsText' /\ EchoShown' /\ HashShown' /\ \A f : Shown(f)' <=> Shown(f)
BY DEF KeepsText, EchoShown, HashShown, Unmoved, Shown

LEMMA InPlaceReceive ==
  ASSUME WatchTypeOK, InPlaceInv, inPlace, NEW f \in Sources, Receive(f)
  PROVE  InPlaceInv'
<1>1. Unmoved /\ job' = job
  BY DEF Receive, Unmoved, tables, authors
<1>2. KeepsText' /\ EchoShown' /\ HashShown' /\ \A g : Shown(g)' <=> Shown(g)
  BY <1>1, InPlaceUnmoved DEF InPlaceInv
<1>3. ToBeShown'
  <2> SUFFICES ASSUME NEW g \in Pages, ~Shown(g)
               PROVE  g \in events' \/ g \in pending' \/ g \in job'.todo
    BY <1>2 DEF ToBeShown
  <2>1. g \in events \/ g \in pending \/ g \in job.todo
    BY DEF InPlaceInv, ToBeShown
  <2>2. ~IsSelfWriteEcho(g)
    BY DEF IsSelfWriteEcho, InPlaceInv, EchoShown
  <2> QED
    BY <2>1, <2>2, <1>1 DEF Receive
<1>4. ReadToWrite' /\ WrittenShown'
  BY <1>1, <1>2 DEF InPlaceInv, ReadToWrite, WrittenShown, At, Subject, Unmoved
<1> QED
  BY <1>2, <1>3, <1>4 DEF InPlaceInv

LEMMA InPlaceInstall ==
  ASSUME WatchTypeOK, InPlaceInv, inPlace, Install
  PROVE  InPlaceInv'
<1>1. Unmoved /\ UNCHANGED <<job, events, pending>>
  BY DEF Install, Unmoved, tables, authors
<1>2. KeepsText' /\ EchoShown' /\ HashShown' /\ \A g : Shown(g)' <=> Shown(g)
  BY <1>1, InPlaceUnmoved DEF InPlaceInv
<1>3. ToBeShown' /\ ReadToWrite' /\ WrittenShown'
  BY <1>1, <1>2
     DEF InPlaceInv, ToBeShown, ReadToWrite, WrittenShown, At, Subject, Unmoved
<1> QED
  BY <1>2, <1>3 DEF InPlaceInv

LEMMA InPlaceFlush ==
  ASSUME WatchTypeOK, InPlaceInv, inPlace, Flush
  PROVE  InPlaceInv'
<1>1. Unmoved /\ job'.step = "next" /\ pending \cap Pages \subseteq job'.todo
  BY DEF Flush, Unmoved, tables, authors, Rendering, ComputeRenderSet
<1>2. KeepsText' /\ EchoShown' /\ HashShown' /\ \A g : Shown(g)' <=> Shown(g)
  BY <1>1, InPlaceUnmoved DEF InPlaceInv
<1>3. ToBeShown'
  BY <1>1, <1>2 DEF InPlaceInv, ToBeShown, Flush, Idle
<1>4. ReadToWrite' /\ WrittenShown'
  BY <1>1 DEF ReadToWrite, WrittenShown, At
<1> QED
  BY <1>2, <1>3, <1>4 DEF InPlaceInv

\* The page in turn leaves the job.
LEMMA InPlaceLeaves ==
  ASSUME WatchTypeOK, InPlaceInv, inPlace, NEW f \in Sources, job' = NextPage(f), Shown(f),
         KeepsText', EchoShown', HashShown', \A g : Shown(g)' <=> Shown(g),
         UNCHANGED <<inPlace, events, pending>>
  PROVE  InPlaceInv'
<1>1. job'.step = "next" /\ job'.todo = job.todo \ {f}
  BY DEF NextPage, Rendering
<1>2. ToBeShown'
  BY <1>1 DEF InPlaceInv, ToBeShown
<1>3. ReadToWrite' /\ WrittenShown'
  BY <1>1 DEF ReadToWrite, WrittenShown, At
<1> QED
  BY <1>2, <1>3 DEF InPlaceInv

LEMMA InPlaceGone ==
  ASSUME WatchTypeOK, InPlaceInv, inPlace, NEW f \in Sources, Gone(f)
  PROVE  InPlaceInv'
<1>1. Unmoved /\ Shown(f) /\ job' = NextPage(f) /\ UNCHANGED <<inPlace, events, pending>>
  BY DEF Gone, Turn, Unmoved, tables, authors, Shown
<1>2. KeepsText' /\ EchoShown' /\ HashShown' /\ \A g : Shown(g)' <=> Shown(g)
  BY <1>1, InPlaceUnmoved DEF InPlaceInv
<1> QED
  BY <1>1, <1>2, InPlaceLeaves

LEMMA InPlaceRecord ==
  ASSUME WatchTypeOK, InPlaceInv, inPlace, NEW f \in Sources, Record(f)
  PROVE  InPlaceInv'
<1>1. /\ job' = NextPage(f)
      /\ UNCHANGED <<inPlace, events, pending, disk, author, lapsed, hashes>>
  BY DEF Record, Turn, authors
<1>2. f \in Pages /\ Shown(f)
  BY DEF Record, InPlaceInv, WrittenShown, At, Subject, WatchTypeOK
<1>3. \A g : Shown(g)' <=> Shown(g)
  BY <1>1 DEF Shown
<1>4. KeepsText' /\ HashShown'
  BY <1>1, <1>3 DEF InPlaceInv, KeepsText, HashShown
<1>5. \A g \in Sources : selfWrites'[g] = selfWrites[g] \/ g = f
  BY DEF Record, WatchTypeOK
<1>6. EchoShown'
  BY <1>1, <1>2, <1>3, <1>5, WatchConstants DEF InPlaceInv, EchoShown
<1> QED
  BY <1>1, <1>2, <1>3, <1>4, <1>6, InPlaceLeaves

\* The page in turn goes on, and the disk stays as it is.
LEMMA InPlaceGoesOn ==
  ASSUME WatchTypeOK, InPlaceInv, inPlace, NEW f \in Sources, Subject(f), Unmoved,
         UNCHANGED <<inPlace, events, pending>>, job'.todo = job.todo,
         job'.step = "read" =>
           job'.made.drawn # 0 /\ (disk[f] # Absent /\ job'.made.own = disk[f].own),
         job'.step \in {"written", "scanned"} => Shown(f)
  PROVE  InPlaceInv'
<1>1. KeepsText' /\ EchoShown' /\ HashShown' /\ \A g : Shown(g)' <=> Shown(g)
  BY InPlaceUnmoved DEF InPlaceInv
<1>2. ToBeShown'
  BY <1>1 DEF InPlaceInv, ToBeShown
<1>3. \A g \in Sources : \A step : At(g, step)' => g = f /\ step = job'.step
  BY Turned
<1>4. ReadToWrite' /\ WrittenShown'
  BY <1>1, <1>3, WatchConstants DEF ReadToWrite, WrittenShown, Unmoved
<1> QED
  BY <1>1, <1>2, <1>4 DEF InPlaceInv

LEMMA InPlaceRead ==
  ASSUME WatchTypeOK, InPlaceInv, inPlace, NEW f \in Sources, ReadSource(f)
  PROVE  InPlaceInv'
<1>1. PICK draw \in Draws :
        job' = [job EXCEPT !.step = "read", !.made = Rendered(disk, f, draw)]
  BY DEF ReadSource
<1>2. disk \in Disks /\ job \in Jobs
  BY DEF WatchTypeOK, Disks, Jobs
<1>3. Rendered(disk, f, draw).own = disk[f].own /\ Rendered(disk, f, draw).drawn = draw
  BY <1>2, RenderedType
<1>4. /\ job'.todo = job.todo /\ job'.step = "read"
      /\ job'.made.own = disk[f].own /\ job'.made.drawn # 0
  BY <1>1, <1>2, <1>3, WatchConstants DEF Jobs
<1>5. Subject(f) /\ Unmoved /\ disk[f] # Absent /\ UNCHANGED <<inPlace, events, pending>>
  BY DEF ReadSource, Turn, Unmoved, tables, authors, At
<1> QED
  BY <1>4, <1>5, InPlaceGoesOn

LEMMA InPlacePass ==
  ASSUME WatchTypeOK, InPlaceInv, inPlace, NEW f \in Sources, Exists(f) \/ ReadFails(f) \/ Scan(f)
  PROVE  InPlaceInv'
<1>1. job \in Jobs
  BY DEF WatchTypeOK, Jobs
<1>2. job'.todo = job.todo /\ job'.step \in {"exists", "written", "scanned"}
  BY <1>1 DEF Jobs, Exists, ReadFails, Scan
<1>3. Subject(f) /\ Unmoved /\ UNCHANGED <<inPlace, events, pending>>
  BY DEF Exists, ReadFails, Scan, Turn, Unmoved, tables, authors, At
<1>4. f \in Pages
  BY <1>1, <1>3 DEF Jobs, Subject
<1>5. job'.step \in {"written", "scanned"} => Shown(f)
  BY <1>1, <1>4 DEF Jobs, Exists, ReadFails, Scan, Shown, InPlaceInv, WrittenShown
<1> QED
  BY <1>2, <1>3, <1>5, InPlaceGoesOn

LEMMA InPlaceWrite ==
  ASSUME WatchTypeOK, InPlaceInv, inPlace, NEW f \in Sources, WriteOutput(f)
  PROVE  InPlaceInv'
<1>1. job \in Jobs /\ disk \in Disks /\ hashes \in [Pages -> Contents]
  BY DEF WatchTypeOK, Jobs, Disks
<1>2. Subject(f) /\ f \in Pages /\ job'.todo = job.todo /\ job'.step = "written"
  BY <1>1 DEF WriteOutput, At, Subject, Jobs
<1>3. /\ job.made.drawn # 0
      /\ f \in lapsed \/ (disk[f] # Absent /\ job.made.own = disk[f].own)
  BY <1>2 DEF WriteOutput, InPlaceInv, ReadToWrite
<1>4. UNCHANGED <<inPlace, author, lapsed, selfWrites, pending>>
  BY DEF WriteOutput, Turn, authors
<1>5. disk' = disk \/ disk' = [disk EXCEPT ![f] = job.made]
  BY DEF WriteOutput
<1>6. \A g \in Sources : g # f => disk'[g] = disk[g]
  BY <1>1, <1>5 DEF Disks
<1>7. hashes' = [hashes EXCEPT ![f] = job.made]
  BY DEF WriteOutput
<1>8. Shown(f)'
  <2>1. CASE disk' = [disk EXCEPT ![f] = job.made]
    <3>1. disk'[f].drawn # 0
      BY <2>1, <1>1, <1>3 DEF Disks
    <3> QED
      BY <3>1 DEF Shown
  <2>2. CASE disk' = disk /\ job.made = disk[f]
    <3>1. disk'[f].drawn # 0
      BY <2>2, <1>3
    <3> QED
      BY <3>1 DEF Shown
  <2>3. CASE disk' = disk /\ job.made = hashes[f]
    <3>1. Shown(f)
      BY <2>3, <1>2, <1>3 DEF InPlaceInv, HashShown, Shown
    <3> QED
      BY <3>1, <2>3, <1>4 DEF Shown
  <2> QED
    BY <2>1, <2>2, <2>3 DEF WriteOutput, Output
<1>9. \A g \in Sources : Shown(g) => Shown(g)'
  BY <1>4, <1>6, <1>8 DEF Shown
<1>10. \A g \in Sources : g # f => (Shown(g)' <=> Shown(g))
  BY <1>4, <1>6 DEF Shown
<1>11. KeepsText'
  <2>1. f \in lapsed \/ disk'[f].own = disk[f].own
    BY <1>1, <1>3, <1>5 DEF Disks
  <2> QED
    BY <2>1, <1>4, <1>6 DEF InPlaceInv, KeepsText
<1>12. ToBeShown'
  BY <1>2, <1>4, <1>9, WatchConstants DEF InPlaceInv, ToBeShown, WriteOutput, Noticed
<1>13. ReadToWrite' /\ WrittenShown'
  <2>1. \A g \in Sources : \A step : At(g, step)' => g = f /\ step = job'.step
    BY <1>2, Turned
  <2> QED
    BY <2>1, <1>2, <1>8, WatchConstants DEF ReadToWrite, WrittenShown
<1>14. EchoShown'
  BY <1>4, <1>6, <1>8, <1>10, WatchConstants DEF InPlaceInv, EchoShown
<1>15. HashShown'
  <2>1. \A g \in Pages : g # f => hashes'[g] = hashes[g]
    BY <1>1, <1>7
  <2> QED
    BY <2>1, <1>6, <1>8, <1>10, WatchConstants DEF InPlaceInv, HashShown
<1> QED
  BY <1>11, <1>12, <1>13, <1>14, <1>15 DEF InPlaceInv

LEMMA InPlaceChange ==
  ASSUME WatchTypeOK, InPlaceInv, inPlace, NEW f \in Sources, NEW content \in Contents,
         Change(f, content)
  PROVE  InPlaceInv'
<1>1. /\ UNCHANGED <<inPlace, hashes, selfWrites, pending, job>>
      /\ disk' = [disk EXCEPT ![f] = content] /\ author' = [author EXCEPT ![f] = content]
      /\ events' = Noticed(f)
      /\ lapsed' = IF Unnoticed(f, content) THEN lapsed \cup {f} ELSE lapsed \ {f}
  BY DEF Change, tables
<1>2. /\ disk'[f] = content /\ author'[f] = content
      /\ \A g \in Sources : g # f => /\ disk'[g] = disk[g] /\ author'[g] = author[g]
                                  /\ (g \in lapsed' <=> g \in lapsed)
  BY <1>1 DEF WatchTypeOK
<1>3. \A g \in Sources : g # f => (Shown(g)' <=> Shown(g))
  BY <1>2 DEF Shown
<1>4. KeepsText'
  BY <1>2 DEF InPlaceInv, KeepsText
<1>5. f \in lapsed' \/ f \in events'
  BY <1>1 DEF Noticed, Unnoticed
<1>6. ToBeShown'
  <2>1. events \subseteq events'
    BY <1>1 DEF Noticed
  <2>2. Shown(f)' \/ f \in events'
    BY <1>5 DEF Shown
  <2> QED
    BY <2>1, <2>2, <1>1, <1>3, WatchConstants DEF InPlaceInv, ToBeShown
<1>7. \A g, step : At(g, step)' <=> At(g, step)
  BY <1>1 DEF At, Subject
<1>8. \A step \in {"read", "written", "scanned"} : At(f, step) => f \in lapsed'
  BY <1>1 DEF Unnoticed, At
<1>9. ReadToWrite'
  BY <1>1, <1>2, <1>7, <1>8, WatchConstants DEF InPlaceInv, ReadToWrite
<1>10. WrittenShown'
  <2> SUFFICES ASSUME NEW g \in Pages, At(g, "written") \/ At(g, "scanned") PROVE Shown(g)'
    BY <1>7 DEF WrittenShown
  <2>1. CASE g = f
    BY <2>1, <1>8 DEF Shown
  <2>2. CASE g # f
    BY <2>2, <1>3, WatchConstants DEF InPlaceInv, WrittenShown
  <2> QED
    BY <2>1, <2>2
<1>11. EchoShown'
  <2>1. f \in Pages /\ selfWrites[f] = content => Shown(f)'
    BY <1>1, <1>2 DEF Unnoticed, Shown
  <2> QED
    BY <2>1, <1>1, <1>2, <1>3, WatchConstants DEF InPlaceInv, EchoShown
<1>12. HashShown'
  <2>1. f \in Pages /\ hashes[f].own = content.own => Shown(f)'
    BY <1>1, <1>2 DEF Unnoticed, Shown
  <2> QED
    BY <2>1, <1>1, <1>2, <1>3, WatchConstants DEF InPlaceInv, HashShown
<1> QED
  BY <1>4, <1>6, <1>9, <1>10, <1>11, <1>12 DEF InPlaceInv

(***************************************************************************)
(* Elsewhere, step by step.                                                *)
(***************************************************************************)
\* Hot files stay hot, and a file that changes becomes hot.
Warm == Hot \subseteq Hot' /\ \A g \in Sources : disk'[g] = disk[g] \/ g \in Hot'
SameHot == UNCHANGED <<disk, lapsed, events, pending>>

LEMMA SameIsWarm ==
  ASSUME SameHot
  PROVE  Warm
BY DEF SameHot, Warm, Hot

LEMMA TrackedStays ==
  ASSUME NEW f \in Sources, Tracked(f), Warm,
         graph'[f] = graph[f], out'[f] = out[f], f \in gaps => f \in gaps'
  PROVE  Tracked(f)'
<1>1. CASE disk[f] = Absent \/ f \in Hot \/ f \in gaps
  BY <1>1 DEF Warm, Tracked
<1>2. ASSUME NEW d \in Disks, Seen(d, f) PROVE Seen(d, f)'
  <2>1. Around(d, f) \subseteq Sources
    BY DEF Around, Reached
  <2>2. \A g \in Around(d, f) : disk'[g] = d[g] \/ g \in Hot'
    BY <2>1, <1>2 DEF Seen, Warm
  <2>3. ShowsDisk(d, f)' <=> ShowsDisk(d, f)
    BY DEF ShowsDisk
  <2>4. (\E g \in Around(d, f) : g \in Hot') \/ ShowsDisk(d, f)'
    BY <2>3, <1>2 DEF Seen, Warm
  <2> QED
    BY <2>2, <2>4, <1>2 DEF Seen
<1> QED
  BY <1>1, <1>2 DEF Tracked

LEMMA SinceStays ==
  ASSUME NEW d, Since(d), Warm
  PROVE  Since(d)'
BY DEF Since, Warm

\* What leaves the rendered files and the job alone.
LEMMA ElsewhereKeeps ==
  ASSUME WatchTypeOK, ElsewhereInv, ~inPlace, Warm,
         UNCHANGED <<inPlace, hashes, out, graph, gaps, job>>
  PROVE  ElsewhereInv'
<1>1. \A f, step : At(f, step)' <=> At(f, step)
  BY DEF At, Subject
<1>2. AllTracked'
  <2> SUFFICES ASSUME NEW f \in Pages, f \notin job.todo \/ At(f, "scanned") PROVE Tracked(f)'
    BY <1>1 DEF AllTracked
  <2>1. Tracked(f)
    BY DEF ElsewhereInv, AllTracked
  <2> QED
    BY <2>1, TrackedStays, WatchConstants
<1>3. MadeSince'
  <2> SUFFICES ASSUME NEW f \in Pages, At(f, "read")
               PROVE  \E d \in Disks : \E draw \in Draws :
                        Since(d)' /\ job'.made = Rendered(d, f, draw)
    BY <1>1 DEF MadeSince
  <2>1. PICK d \in Disks, draw \in Draws : Since(d) /\ job.made = Rendered(d, f, draw)
    BY DEF ElsewhereInv, MadeSince
  <2> QED
    BY <2>1, SinceStays
<1>4. WrittenSince'
  <2> SUFFICES ASSUME NEW f \in Pages, At(f, "written")
               PROVE  \E d \in Disks : Since(d)' /\ (d[f] = Absent \/ ShowsDisk(d, f)')
    BY <1>1 DEF WrittenSince
  <2>1. PICK d \in Disks : Since(d) /\ (d[f] = Absent \/ ShowsDisk(d, f))
    BY DEF ElsewhereInv, WrittenSince
  <2>2. ShowsDisk(d, f)' <=> ShowsDisk(d, f)
    BY DEF ShowsDisk
  <2> QED
    BY <2>1, <2>2, SinceStays
<1> QED
  BY <1>2, <1>3, <1>4 DEF ElsewhereInv

LEMMA ElsewhereChange ==
  ASSUME WatchTypeOK, ElsewhereInv, ~inPlace, NEW f \in Sources, NEW content \in Contents,
         Change(f, content)
  PROVE  ElsewhereInv'
<1>1. /\ UNCHANGED <<inPlace, hashes, out, graph, gaps, job, pending>>
      /\ disk' = [disk EXCEPT ![f] = content]
      /\ events' = IF watching THEN events \cup {f} ELSE events
      /\ lapsed' = IF watching THEN lapsed \ {f} ELSE lapsed \cup {f}
  BY DEF Change, tables, Noticed, Unnoticed
<1>2. Hot \subseteq Hot' /\ f \in Hot'
  BY <1>1 DEF Hot
<1>3. \A g \in Sources : g # f => disk'[g] = disk[g]
  BY <1>1 DEF WatchTypeOK
<1>4. Warm
  BY <1>2, <1>3 DEF Warm
<1> QED
  BY <1>1, <1>4, ElsewhereKeeps

LEMMA ElsewhereIdle ==
  ASSUME WatchTypeOK, ElsewhereInv, ~inPlace, (\E f \in Sources : Receive(f)) \/ Install
  PROVE  ElsewhereInv'
<1>1. /\ UNCHANGED <<inPlace, hashes, out, graph, gaps, job, disk, lapsed>>
      /\ events \cup pending \subseteq events' \cup pending'
  BY DEF Receive, Install, tables, authors, IsSelfWriteEcho
<1>2. Warm
  BY <1>1 DEF Warm, Hot
<1> QED
  BY <1>1, <1>2, ElsewhereKeeps

LEMMA ElsewhereFlush ==
  ASSUME WatchTypeOK, ElsewhereInv, ~inPlace, Flush
  PROVE  ElsewhereInv'
<1>1. /\ UNCHANGED <<inPlace, hashes, out, graph, gaps, disk, lapsed, events>>
      /\ job'.step = "next" /\ job'.todo = ComputeRenderSet(pending) /\ pending' = {}
  BY DEF Flush, tables, authors, Rendering
<1>2. AllTracked'
  <2> SUFFICES ASSUME NEW f \in Pages, f \notin ComputeRenderSet(pending) PROVE Tracked(f)'
    BY <1>1 DEF AllTracked, At
  <2>1. Tracked(f) /\ f \notin pending /\ graph[f] \cap pending = {}
    BY DEF ElsewhereInv, AllTracked, ComputeRenderSet, Flush, Idle
  <2>2. CASE disk[f] = Absent \/ f \in Hot \/ f \in gaps
    BY <2>1, <2>2, <1>1 DEF Tracked, Hot
  <2>3. ASSUME NEW d \in Disks, Seen(d, f) PROVE Seen(d, f)'
    <3>1. \A g \in Around(d, f) : g \in Hot <=> g \in Hot'
      BY <2>1, <2>3, <1>1 DEF Around, Seen, Hot
    <3>2. ShowsDisk(d, f)' <=> ShowsDisk(d, f)
      BY <1>1 DEF ShowsDisk
    <3> QED
      BY <3>1, <3>2, <2>3, <1>1 DEF Seen
  <2> QED
    BY <2>1, <2>2, <2>3 DEF Tracked
<1>3. MadeSince' /\ WrittenSince'
  BY <1>1 DEF MadeSince, WrittenSince, At
<1> QED
  BY <1>1, <1>2, <1>3 DEF ElsewhereInv

\* Pages that are not in turn are rendered and tracked as before.
LEMMA OthersTracked ==
  ASSUME WatchTypeOK, AllTracked, NEW f \in Sources, Subject(f), SameHot,
         job'.todo = job.todo \/ job'.todo = job.todo \ {f},
         \A g \in Pages : g # f =>
           graph'[g] = graph[g] /\ out'[g] = out[g] /\ (g \in gaps <=> g \in gaps')
  PROVE  \A g \in Pages : g # f /\ g \notin job'.todo => Tracked(g)'
<1> SUFFICES ASSUME NEW g \in Pages, g # f, g \notin job'.todo PROVE Tracked(g)'
  OBVIOUS
<1>1. Tracked(g)
  BY DEF AllTracked
<1> QED
  BY <1>1, SameIsWarm, TrackedStays, WatchConstants

LEMMA ElsewhereLeaves ==
  ASSUME WatchTypeOK, ElsewhereInv, ~inPlace, NEW f \in Sources, Gone(f) \/ Record(f)
  PROVE  ElsewhereInv'
<1>1. /\ UNCHANGED <<inPlace, hashes, out, graph, gaps>> /\ SameHot /\ Subject(f)
      /\ job'.step = "next" /\ job'.todo = job.todo \ {f}
  BY DEF Gone, Record, Turn, SameHot, tables, authors, NextPage, Rendering, At
<1>2. f \in Pages => Tracked(f)
  BY DEF Gone, Record, Tracked, ElsewhereInv, AllTracked
<1>3. f \in Pages => Tracked(f)'
  BY <1>1, <1>2, SameIsWarm, TrackedStays
<1>4. \A g \in Pages : g # f /\ g \notin job'.todo => Tracked(g)'
  BY <1>1, OthersTracked DEF ElsewhereInv
<1>5. AllTracked'
  BY <1>1, <1>3, <1>4 DEF AllTracked, At
<1>6. MadeSince' /\ WrittenSince'
  BY <1>1 DEF MadeSince, WrittenSince, At
<1> QED
  BY <1>1, <1>5, <1>6 DEF ElsewhereInv

\* The page in turn goes on.
LEMMA ElsewhereGoesOn ==
  ASSUME WatchTypeOK, ElsewhereInv, ~inPlace, NEW f \in Sources, Subject(f), SameHot,
         job'.todo = job.todo, inPlace' = inPlace, hashes' = out',
         \A g \in Pages : g # f =>
           graph'[g] = graph[g] /\ out'[g] = out[g] /\ (g \in gaps <=> g \in gaps'),
         job'.step = "read" =>
           \E d \in Disks : \E draw \in Draws : Since(d)' /\ job'.made = Rendered(d, f, draw),
         job'.step = "written" =>
           \E d \in Disks : Since(d)' /\ (d[f] = Absent \/ ShowsDisk(d, f)'),
         job'.step = "scanned" => Tracked(f)'
  PROVE  ElsewhereInv'
<1>1. \A g \in Sources : \A step : At(g, step)' => g = f /\ step = job'.step
  BY Turned
<1>2. \A g \in Pages : g # f /\ g \notin job'.todo => Tracked(g)'
  BY OthersTracked DEF ElsewhereInv
<1>3. f \in job'.todo
  BY DEF Subject
<1>4. AllTracked'
  BY <1>1, <1>2, <1>3, WatchConstants DEF AllTracked
<1>5. MadeSince'
  BY <1>1, WatchConstants DEF MadeSince
<1>6. WrittenSince'
  BY <1>1, WatchConstants DEF WrittenSince
<1> QED
  BY <1>4, <1>5, <1>6 DEF ElsewhereInv

LEMMA ElsewhereRead ==
  ASSUME WatchTypeOK, ElsewhereInv, ~inPlace, NEW f \in Sources,
         Exists(f) \/ ReadSource(f) \/ ReadFails(f)
  PROVE  ElsewhereInv'
<1>1. job \in Jobs /\ disk \in Disks
  BY DEF WatchTypeOK, Jobs, Disks
<1>2. /\ UNCHANGED <<inPlace, hashes, out, graph, gaps>> /\ SameHot /\ Subject(f)
      /\ job'.todo = job.todo
  BY <1>1 DEF Exists, ReadSource, ReadFails, Turn, SameHot, tables, authors, At, Jobs
<1>3. Since(disk)'
  BY <1>2 DEF Since, SameHot
<1>4. job'.step = "read" => \E draw \in Draws : job'.made = Rendered(disk, f, draw)
  BY <1>1 DEF Exists, ReadSource, ReadFails, Jobs
<1>5. job'.step = "written" => disk[f] = Absent
  BY <1>1 DEF Exists, ReadSource, ReadFails, Jobs
<1>6. job'.step # "scanned"
  BY <1>1 DEF Exists, ReadSource, ReadFails, Jobs
<1>7. job'.step = "read" =>
        \E d \in Disks : \E draw \in Draws : Since(d)' /\ job'.made = Rendered(d, f, draw)
  BY <1>1, <1>2, <1>3, <1>4 DEF SameHot
<1>8. job'.step = "written" =>
        \E d \in Disks : Since(d)' /\ (d[f] = Absent \/ ShowsDisk(d, f)')
  BY <1>1, <1>2, <1>3, <1>5 DEF SameHot
<1>9. hashes' = out'
  BY <1>2 DEF ElsewhereInv
<1> QED
  BY <1>2, <1>6, <1>7, <1>8, <1>9, ElsewhereGoesOn

LEMMA ElsewhereWrite ==
  ASSUME WatchTypeOK, ElsewhereInv, ~inPlace, NEW f \in Sources, WriteOutput(f)
  PROVE  ElsewhereInv'
<1>1. job \in Jobs /\ out \in [Pages -> Contents] /\ hashes = out
  BY DEF WatchTypeOK, Jobs, ElsewhereInv
<1>2. /\ UNCHANGED <<inPlace, graph, gaps>> /\ SameHot /\ Subject(f)
      /\ job'.todo = job.todo /\ job'.step = "written"
  BY <1>1 DEF WriteOutput, Turn, SameHot, authors, At, Jobs
<1>3. f \in Pages
  BY <1>1, <1>2 DEF Subject, Jobs
<1>4. hashes' = [out EXCEPT ![f] = job.made]
  BY <1>1 DEF WriteOutput
<1>5. out' = [out EXCEPT ![f] = job.made]
  BY <1>1, <1>3 DEF WriteOutput, Output
<1>6. PICK d \in Disks, draw \in Draws : Since(d) /\ job.made = Rendered(d, f, draw)
  BY <1>3 DEF WriteOutput, ElsewhereInv, MadeSince
<1>7. Since(d)'
  BY <1>2, <1>6, SinceStays, SameIsWarm
<1>8. out'[f] = Rendered(d, f, draw) /\ out'[f].drawn = draw /\ draw # 0
  BY <1>1, <1>3, <1>5, <1>6, RenderedType, WatchConstants
<1>9. ShowsDisk(d, f)'
  BY <1>8 DEF ShowsDisk
<1>10. \A g \in Pages : g # f => out'[g] = out[g]
  BY <1>1, <1>5
<1> HIDE DEF Jobs
<1> QED
  BY <1>2, <1>4, <1>5, <1>7, <1>9, <1>10, ElsewhereGoesOn

LEMMA ElsewhereScan ==
  ASSUME WatchTypeOK, ElsewhereInv, ~inPlace, NEW f \in Sources, Scan(f)
  PROVE  ElsewhereInv'
<1>1. job \in Jobs /\ disk \in Disks /\ graph \in [Pages -> SUBSET Sources]
  BY DEF WatchTypeOK, Jobs, Disks
<1>2. /\ UNCHANGED <<inPlace, hashes, out>> /\ SameHot /\ Subject(f)
      /\ job'.todo = job.todo /\ job'.step = "scanned"
  BY <1>1 DEF Scan, Turn, SameHot, authors, At, Jobs
<1>3. f \in Pages
  BY <1>1, <1>2 DEF Subject, Jobs
<1>4. PICK d \in Disks : Since(d) /\ (d[f] = Absent \/ ShowsDisk(d, f))
  BY <1>3 DEF Scan, ElsewhereInv, WrittenSince
<1>5. Tracked(f)'
  <2> SUFFICES ASSUME disk[f] # Absent, f \notin Hot, f \notin gaps' PROVE Seen(disk, f)'
    BY <1>1, <1>2 DEF SameHot, Tracked, Hot
  <2>1. Reached(disk, f) \subseteq Present(Sources)
    BY DEF Scan
  <2>2. CollectEmbedTargets(f) = Reached(disk, f)
    BY <2>1 DEF CollectEmbedTargets, Present
  <2>3. graph'[f] = Reached(disk, f)
    BY <1>1, <1>3, <2>2 DEF Scan
  <2>4. ShowsDisk(d, f) /\ disk[f] = d[f]
    BY <1>4 DEF Since
  <2>5. CASE \E g \in Around(disk, f) : g \in Hot
    BY <2>3, <2>5, <1>2 DEF Seen, SameHot, Hot
  <2>6. CASE \A g \in Around(disk, f) : g \notin Hot
    <3>1. \A g \in Reached(disk, f) : disk[g] = d[g]
      BY <2>6, <1>4 DEF Around, Since, Reached
    <3>2. Rendered(disk, f, out[f].drawn) = Rendered(d, f, out[f].drawn)
      BY <3>1, <2>4, <1>1, RenderedAlike
    <3>3. ShowsDisk(disk, f)'
      BY <3>2, <2>4, <1>2 DEF ShowsDisk, SameHot
    <3> QED
      BY <2>3, <3>3, <1>2 DEF Seen, SameHot
  <2> QED
    BY <2>5, <2>6
<1>6. \A g \in Pages : g # f => graph'[g] = graph[g] /\ (g \in gaps <=> g \in gaps')
  BY <1>1 DEF Scan
<1>7. hashes' = out'
  BY <1>2 DEF ElsewhereInv
<1> QED
  BY <1>2, <1>5, <1>6, <1>7, ElsewhereGoesOn

(***************************************************************************)
(* The invariant, and what it says at rest.                                *)
(***************************************************************************)
LEMMA WatchInvInit ==
  WatchInit => WatchInv
<1> SUFFICES ASSUME WatchInit PROVE WatchInv
  OBVIOUS
<1>1. job.todo = Pages /\ job.step = "next"
  BY DEF WatchInit, Rendering
<1>2. \A f \in Sources : disk[f] = author[f] /\ disk[f].own = 1 /\ selfWrites[f] = Absent
  BY DEF WatchInit, Written
<1>3. \A f \in Pages : hashes[f].own = 0 /\ hashes = out
  BY DEF WatchInit, Absent
<1>4. InPlaceInv
  BY <1>1, <1>2, <1>3, WatchConstants
     DEF InPlaceInv, KeepsText, ToBeShown, ReadToWrite, WrittenShown, EchoShown, HashShown, At,
         Shown
<1>5. ElsewhereInv
  BY <1>1 DEF ElsewhereInv, AllTracked, MadeSince, WrittenSince, At, WatchInit
<1> QED
  BY <1>4, <1>5, WatchTypeInit DEF WatchInv

LEMMA WatchInvStep ==
  ASSUME WatchInv, [WatchNext]_watchVars
  PROVE  WatchInv'
<1>0. WatchTypeOK /\ InPlaceInv /\ ElsewhereInv /\ WatchTypeOK'
  BY WatchTypeStep DEF WatchInv
<1>1. CASE UNCHANGED watchVars
  <2>1. UNCHANGED <<inPlace, hashes, out, graph, gaps, job>> /\ SameHot /\ Unmoved
    BY <1>1 DEF watchVars, tables, authors, SameHot, Unmoved
  <2>2. ~inPlace => ElsewhereInv'
    BY <2>1, <1>0, SameIsWarm, ElsewhereKeeps
  <2>3. inPlace => InPlaceInv'
    BY <2>1, <1>0, InPlaceUnmoved
       DEF InPlaceInv, SameHot, ToBeShown, ReadToWrite, WrittenShown, At, Subject
  <2> QED
    BY <2>1, <2>2, <2>3, <1>0 DEF WatchInv, InPlaceInv, ElsewhereInv
<1>2. CASE WatchNext
  <2>1. inPlace' = inPlace
    <3>1. ASSUME NEW f \in Sources, Save(f) \/ Unlink(f) PROVE inPlace' = inPlace
      BY <3>1 DEF Save, Unlink, Change
    <3> QED
      BY <3>1, <1>2 DEF WatchNext, Loop, RenderOne, Receive, Flush, Install, Gone, Exists,
           ReadSource, ReadFails, WriteOutput, Scan, Record, Turn
  <2>2. ASSUME NEW f \in Sources, Save(f) \/ Unlink(f)
        PROVE  (inPlace => InPlaceInv') /\ (~inPlace => ElsewhereInv')
    BY <2>2, <1>0, ChangeContent, InPlaceChange, ElsewhereChange
  <2>3. ASSUME NEW f \in Sources, Receive(f) \/ RenderOne(f)
        PROVE  (inPlace => InPlaceInv') /\ (~inPlace => ElsewhereInv')
    <3>1. inPlace => InPlaceInv'
      BY <2>3, <1>0, InPlaceReceive, InPlaceGone, InPlacePass, InPlaceRead, InPlaceWrite,
         InPlaceRecord DEF RenderOne
    <3>2. CASE Receive(f)
      BY <3>2, <3>1, <1>0, ElsewhereIdle
    <3>3. ~inPlace /\ RenderOne(f) => ElsewhereInv'
      BY <1>0, ElsewhereLeaves, ElsewhereRead, ElsewhereWrite, ElsewhereScan DEF RenderOne
    <3> QED
      BY <2>3, <3>1, <3>2, <3>3
  <2>4. ASSUME Flush \/ Install
        PROVE  (inPlace => InPlaceInv') /\ (~inPlace => ElsewhereInv')
    BY <2>4, <1>0, InPlaceFlush, InPlaceInstall, ElsewhereFlush, ElsewhereIdle
  <2>5. (inPlace => InPlaceInv') /\ (~inPlace => ElsewhereInv')
    <3>1. CASE \E f \in Sources : Save(f) \/ Unlink(f)
      BY <3>1, <2>2
    <3>2. CASE \E f \in Sources : Receive(f) \/ RenderOne(f)
      BY <3>2, <2>3
    <3>3. CASE Flush \/ Install
      BY <3>3, <2>4
    <3> QED
      BY <3>1, <3>2, <3>3, <1>2 DEF WatchNext, Loop
  <2> QED
    BY <2>1, <2>5, <1>0 DEF WatchInv, InPlaceInv, ElsewhereInv
<1> QED
  BY <1>1, <1>2

LEMMA SettledInPlace ==
  ASSUME WatchTypeOK, InPlaceInv, inPlace, Settled, NEW f \in Pages,
         disk[f] # Absent, f \notin lapsed
  PROVE  Current(f)
BY WatchConstants DEF InPlaceInv, KeepsText, ToBeShown, Shown, Settled, Idle, Current

LEMMA SettledElsewhere ==
  ASSUME WatchTypeOK, ElsewhereInv, ~inPlace, Settled, NEW f \in Pages,
         disk[f] # Absent, f \notin lapsed, f \notin gaps, Reached(disk, f) \cap lapsed = {}
  PROVE  Current(f)
<1>1. Hot = lapsed /\ Tracked(f) /\ f \in Sources /\ disk \in Disks
  BY WatchConstants
     DEF Settled, Hot, Idle, ElsewhereInv, AllTracked, WatchTypeOK, Disks
<1>2. PICK d \in Disks : Seen(d, f)
  BY <1>1 DEF Tracked
<1>3. disk[f] = d[f]
  BY <1>1, <1>2 DEF Seen, Around
<1>4. \A g \in Reached(d, f) \cap Reached(disk, f) : d[g] = disk[g]
  BY <1>1, <1>2 DEF Seen, Around
<1>5. Reached(d, f) = Reached(disk, f)
  BY <1>1, <1>3, <1>4, ReachedAlike
<1>6. ShowsDisk(d, f)
  BY <1>1, <1>2, <1>5 DEF Seen, Around
<1>7. Rendered(d, f, out[f].drawn) = Rendered(disk, f, out[f].drawn)
  BY <1>1, <1>3, <1>4, RenderedAlike
<1> QED
  BY <1>6, <1>7 DEF Current, ShowsDisk

LEMMA WatchInvSettles ==
  WatchInv => SettledCurrent
<1> SUFFICES ASSUME WatchInv, Settled, NEW f \in Pages, disk[f] # Absent, f \notin lapsed,
                    ~inPlace => f \notin gaps /\ Reached(disk, f) \cap lapsed = {}
             PROVE  Current(f)
  BY DEF SettledCurrent
<1> QED
  BY SettledInPlace, SettledElsewhere DEF WatchInv

(* SettledCurrent is that no change is lost between the event of a save,   *)
(* the echo check, the render set and the render: at rest the pages show   *)
(* what the sources say, for any files, embeds, saves and removals.        *)
THEOREM SettledIsCurrent == WatchSpec => []SettledCurrent
BY WatchInvInit, WatchInvStep, WatchInvSettles, PTL DEF WatchSpec
=============================================================================
