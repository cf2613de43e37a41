------------------------- MODULE ViewerSessionProof -------------------------
(***************************************************************************)
(* Proofs about ViewerSession, for any number of scripts, statements,      *)
(* interrupts and crashes, and buffers of any size: the figures of a       *)
(* script stay apart, a frame that was cut short is the last thing on its  *)
(* connection, replies stay in step, and a plot that was reported as drawn *)
(* arrives.                                                                *)
(***************************************************************************)
EXTENDS ViewerSession, FiniteSetTheorems, SequenceTheorems, WellFoundedInduction, TLAPS

(* The frames of the protocol; those with a window name one.  A wire may   *)
(* also hold a part of one.                                                *)
WindowTypes == {"FigureOpen", "PanelUpdate", "PanelLabels", "Redraw", "Close"}
Frames ==
  {Ping, Reset} \cup [type : WindowTypes, win : Windows, content : Contents]

SockType ==
  [owner : Clients, wire : Seq(Frames \cup {Cut}), replies : Seq(Types),
   owed : Types \cup {""}, served : BOOLEAN, held : BOOLEAN]

JobType ==
  [kind : {"none", "sync", "on", "open", "update", "draw", "tell", "part"},
   dialling : BOOLEAN, sock : Nat, todo : Seq(Frames), waiting : BOOLEAN]

FlagType == [signal : BOOLEAN, sticky : BOOLEAN, partial : BOOLEAN]

(* The windows among the first n of a script, and the terminal.            *)
Outs(c, n) == {Terminal} \cup {Window(c, i) : i \in 0..(n - 1)}

(* A live figure that is being opened holds the last window already.       *)
Taken(c) == IF job[c].kind = "open" THEN ids[c] - 1 ELSE ids[c]

(* A table of figures below number top, of outputs outs, each window in it *)
(* once, and none that of the live figure, lw.                             *)
StoreFits(st, top, outs, lw) ==
  /\ DOMAIN st \subseteq 1..(top - 1)
  /\ \A h \in DOMAIN st : st[h] \in [content : Contents, output : outs]
  /\ \A h \in DOMAIN st : st[h].output # Terminal => st[h].output # lw
  /\ \A g, h \in DOMAIN st : st[g].output = st[h].output /\ st[g].output # Terminal => g = h

CurrentFits(st, cur, top, outs, lw) ==
  /\ cur \in [handle : 0..(top - 1), content : Contents, output : outs]
  /\ cur.handle \notin DOMAIN st
  /\ cur.output # Terminal => cur.output # lw
  /\ \A h \in DOMAIN st : st[h].output # Terminal => st[h].output # cur.output

FiguresFit(st, cur, top, outs, lw) ==
  StoreFits(st, top, outs, lw) /\ CurrentFits(st, cur, top, outs, lw)

-----------------------------------------------------------------------------
(* Windows.                                                                *)
LEMMA FreshWindow ==
  ASSUME NEW c, NEW n \in Nat
  PROVE  /\ Window(c, n) \notin Outs(c, n) /\ Window(c, n) # Terminal
         /\ Outs(c, n) \subseteq Outs(c, n + 1) /\ Window(c, n) \in Outs(c, n + 1)
         /\ Terminal \in Outs(c, n)
BY DEF Window, Outs, Terminal, NoWindow

LEMMA OutsGrow ==
  ASSUME NEW c, NEW n \in Int, NEW m \in Int, n <= m
  PROVE  Outs(c, n) \subseteq Outs(c, m)
BY DEF Outs

LEMMA OutsAreOutputs ==
  ASSUME NEW c \in Clients, NEW n \in Int, n <= MaxStatements + 1
  PROVE  Outs(c, n) \subseteq Outputs /\ Outs(c, n) \ {Terminal} \subseteq Windows
<1>1. MaxStatements \in Nat
  BY SessionAssumption DEF SessionAssumption
<1>2. \A i \in 0..(n - 1) : Window(c, i) \in Windows
  BY <1>1 DEF Window, Windows
<1> QED BY <1>2 DEF Outs, Outputs

LEMMA BlankType == Blank \in Contents
<1>1. MaxStatements \in Nat
  BY SessionAssumption DEF SessionAssumption
<1> QED BY <1>1 DEF Blank, Contents

(* Tables of figures.                                                      *)
LEMMA StoreWider ==
  ASSUME NEW st, NEW top \in Nat, NEW outs, NEW lw, StoreFits(st, top, outs, lw),
         NEW more, outs \subseteq more, NEW top2 \in Nat, top <= top2
  PROVE  StoreFits(st, top2, more, lw)
BY DEF StoreFits

LEMMA CurrentWider ==
  ASSUME NEW st, NEW cur, NEW top \in Nat, NEW outs, NEW lw, CurrentFits(st, cur, top, outs, lw),
         NEW more, outs \subseteq more, NEW top2 \in Nat, top <= top2
  PROVE  CurrentFits(st, cur, top2, more, lw)
BY DEF CurrentFits

(* The live figure takes a window of its own, or none.                     *)
LEMMA LiveApart ==
  ASSUME NEW st, NEW cur, NEW top, NEW outs, NEW lw, FiguresFit(st, cur, top, outs, lw),
         NEW new, new \notin outs \/ new = Terminal
  PROVE  FiguresFit(st, cur, top, outs, new)
BY DEF FiguresFit, StoreFits, CurrentFits

(* save_current keeps figures apart.                                       *)
LEMMA SaveFits ==
  ASSUME NEW st, NEW cur, NEW top \in Nat \ {0}, NEW outs, NEW lw,
         FiguresFit(st, cur, top, outs, lw),
         NEW h, h = IF cur.handle = 0 THEN top ELSE cur.handle,
         NEW next, next = IF cur.handle = 0 THEN top + 1 ELSE top,
         NEW s, s = Put(st, h, Figure(cur.content, cur.output))
  PROVE  /\ StoreFits(s, next, outs, lw) /\ h \in DOMAIN s /\ h \in 1..(next - 1)
         /\ next \in {top, top + 1}
<1> DEFINE f == Figure(cur.content, cur.output)
<1>1. /\ cur.handle \in 0..(top - 1) /\ cur.content \in Contents /\ cur.output \in outs
      /\ cur.handle \notin DOMAIN st
  BY DEF FiguresFit, CurrentFits
<1>2. h \in 1..(next - 1) /\ next \in {top, top + 1} /\ h \notin DOMAIN st
  BY <1>1 DEF FiguresFit, StoreFits
<1>3. /\ DOMAIN s = {h} \cup DOMAIN st
      /\ \A g \in DOMAIN s : s[g] = IF g = h THEN f ELSE st[g]
  BY <1>2 DEF Put
<1>4. f.content = cur.content /\ f.output = cur.output
      /\ f \in [content : Contents, output : outs]
  BY <1>1 DEF Figure
<1> HIDE DEF f
<1>5. DOMAIN s \subseteq 1..(next - 1)
  BY <1>2, <1>3 DEF FiguresFit, StoreFits
<1>6. \A g \in DOMAIN s : s[g] \in [content : Contents, output : outs]
  BY <1>3, <1>4 DEF FiguresFit, StoreFits
<1>7. \A g \in DOMAIN s : s[g].output # Terminal => s[g].output # lw
  BY <1>3, <1>4 DEF FiguresFit, StoreFits, CurrentFits
<1>8. \A g, k \in DOMAIN s : s[g].output = s[k].output /\ s[g].output # Terminal => g = k
  BY <1>3, <1>4 DEF FiguresFit, StoreFits, CurrentFits
<1> QED BY <1>2, <1>3, <1>5, <1>6, <1>7, <1>8 DEF StoreFits

(* A figure of no table becomes the current one.                           *)
LEMMA FreshFits ==
  ASSUME NEW st, NEW top \in Nat, NEW outs, NEW lw, StoreFits(st, top, outs, lw),
         NEW h \in 0..(top - 1), h \notin DOMAIN st,
         NEW more, outs \subseteq more, NEW out \in more,
         out = Terminal \/ (out \notin outs /\ out # lw)
  PROVE  FiguresFit(st, [handle |-> h, content |-> Blank, output |-> out], top, more, lw)
<1> DEFINE cur == [handle |-> h, content |-> Blank, output |-> out]
<1>1. cur.handle = h /\ cur.output = out
      /\ cur \in [handle : 0..(top - 1), content : Contents, output : more]
  BY BlankType
<1> HIDE DEF cur
<1>2. StoreFits(st, top, more, lw)
  BY StoreWider
<1>3. CurrentFits(st, cur, top, more, lw)
  BY <1>1 DEF StoreFits, CurrentFits
<1> QED BY <1>2, <1>3 DEF FiguresFit, cur

(* A figure of the table becomes the current one.                          *)
LEMMA RestoreFits ==
  ASSUME NEW st, NEW top \in Nat, NEW outs, NEW lw, StoreFits(st, top, outs, lw),
         NEW h \in DOMAIN st
  PROVE  FiguresFit(Restrict(st, DOMAIN st \ {h}),
                    [handle |-> h, content |-> st[h].content, output |-> st[h].output],
                    top, outs, lw)
<1> DEFINE cur == [handle |-> h, content |-> st[h].content, output |-> st[h].output]
           s == Restrict(st, DOMAIN st \ {h})
<1>1. DOMAIN s = DOMAIN st \ {h} /\ \A g \in DOMAIN s : s[g] = st[g]
  BY DEF Restrict
<1>2. cur.handle = h /\ cur.output = st[h].output
      /\ cur \in [handle : 0..(top - 1), content : Contents, output : outs]
  BY DEF StoreFits
<1> HIDE DEF s, cur
<1>3. StoreFits(s, top, outs, lw)
  BY <1>1 DEF StoreFits
<1>4. CurrentFits(s, cur, top, outs, lw)
  BY <1>1, <1>2 DEF StoreFits, CurrentFits
<1> QED BY <1>3, <1>4 DEF FiguresFit, s, cur

LEMMA ForgetFits ==
  ASSUME NEW st, NEW cur, NEW top, NEW outs, NEW lw, FiguresFit(st, cur, top, outs, lw), NEW h
  PROVE  FiguresFit(Restrict(st, DOMAIN st \ {h}), cur, top, outs, lw)
<1> DEFINE s == Restrict(st, DOMAIN st \ {h})
<1>1. DOMAIN s \subseteq DOMAIN st /\ \A g \in DOMAIN s : s[g] = st[g]
  BY DEF Restrict
<1> HIDE DEF s
<1>2. FiguresFit(s, cur, top, outs, lw)
  BY <1>1 DEF FiguresFit, StoreFits, CurrentFits
<1> QED BY <1>2 DEF s

-----------------------------------------------------------------------------
(***************************************************************************)
(* The inductive invariant.                                                *)
(***************************************************************************)

(* Each script's part of the state.                                        *)
PerClient ==
  /\ said = [d \in Clients |-> said[d]]
  /\ wiping = [d \in Clients |-> wiping[d]]
  /\ store = [d \in Clients |-> store[d]]
  /\ current = [d \in Clients |-> current[d]]
  /\ handles = [d \in Clients |-> handles[d]]
  /\ ids = [d \in Clients |-> ids[d]]
  /\ conn = [d \in Clients |-> conn[d]]
  /\ live = [d \in Clients |-> live[d]]
  /\ job = [d \in Clients |-> job[d]]
  /\ flags = [d \in Clients |-> flags[d]]
  /\ pressed = [d \in Clients |-> pressed[d]]
  /\ synced = [d \in Clients |-> synced[d]]

(* A window number is taken from a statement of the script's own; a        *)
(* connection that is being dialled has not taken its number yet, a live   *)
(* figure that is being opened has.                                        *)
ScriptOK(c) ==
  /\ said[c] \in 0..MaxStatements /\ wiping[c] \in 0..MaxCloseAlls
  /\ ids[c] \in 0..said[c]
  /\ job[c].kind \in {"sync", "on"} /\ job[c].dialling => ids[c] < said[c]
  /\ job[c].kind = "open" => ids[c] > 0
  /\ handles[c] \in 1..(MaxHandles + 1 + said[c])
  /\ FiguresFit(store[c], current[c], handles[c], Outs(c, Taken(c)), live[c].win)
  /\ flags[c] \in FlagType /\ pressed[c] \in 0..MaxAborts /\ synced[c] \in Contents

(* What a job may be doing, given the connection of the plots, k, and the  *)
(* live figure, l.                                                         *)
JobFits(j, k, l) ==
  /\ j \in JobType
  /\ j.waiting => j.todo # <<>>
  /\ j.kind = "none" => j = NoJob
  /\ j.kind # "none" => j.sock # 0
  /\ j.kind \in {"on", "open"} => j.dialling
  /\ j.dialling => j.kind \in {"sync", "on", "open", "update", "draw"}
                   /\ j.sock \notin {k.sock, l.sock}
  /\ j.kind = "sync" => k.sock = IF j.dialling THEN 0 ELSE j.sock
  /\ j.kind \in {"update", "draw"} => /\ l.win # Terminal
                                      /\ l.sock = IF j.dialling THEN 0 ELSE j.sock
  /\ j.kind = "open" => l = NoLive
  /\ j.kind = "tell" => j.sock \in {k.sock, l.sock} /\ Len(j.todo) <= 1
  /\ j.kind = "part" => /\ j.sock \notin {k.sock, l.sock}
                        /\ \A i \in DOMAIN j.todo : j.todo[i] # Reset

(* Connection s is there, c's own, and c has not let go of it.             *)
Holds(c, s, ss) == s \in DOMAIN ss /\ ss[s].owner = c /\ ss[s].held

ConnFits(k, outs) ==
  /\ k \in [sock : Nat, win : outs, opened : BOOLEAN]
  /\ k.sock # 0 => k.win # Terminal

LiveFits(l, outs) ==
  /\ l \in [sock : Nat, win : outs]
  /\ l.win = Terminal => l = NoLive

LinkOK(c) ==
  /\ ConnFits(conn[c], Outs(c, ids[c]))
  /\ LiveFits(live[c], Outs(c, ids[c]))
  /\ JobFits(job[c], conn[c], live[c])
  /\ \A s \in {job[c].sock, conn[c].sock, live[c].sock} : s # 0 => Holds(c, s, socks)
  /\ conn[c].sock # 0 => conn[c].sock # live[c].sock

(* The replies that are due on a connection: one more than the script      *)
(* waits for after a "close all", but not before its Reset is out.         *)
Answers(w) == Cardinality({i \in DOMAIN w : Answered(w[i])})
Due(sk) == Len(sk.replies) + (IF sk.owed = "" THEN 0 ELSE 1) + Answers(sk.wire)
Awaits(j, s) == IF j.sock = s /\ j.waiting THEN 1 ELSE 0
Slack(j, s) == IF j.sock = s /\ j.kind = "tell" /\ j.todo = <<Reset>> THEN 1 ELSE 0

WireFits(sk) ==
  /\ sk.held => \A i \in DOMAIN sk.wire : sk.wire[i] # Cut
  /\ \A i \in DOMAIN sk.wire : sk.wire[i] = Cut => i = Len(sk.wire)

InStep(sk, s, j, n) ==
  sk.served /\ sk.held => Awaits(j, s) <= Due(sk) /\ Due(sk) <= Awaits(j, s) + n - Slack(j, s)

SockOK(s) ==
  /\ WireFits(socks[s])
  /\ InStep(socks[s], s, job[socks[s].owner], wiping[socks[s].owner])

ViewerOK ==
  /\ up \in BOOLEAN /\ crashes \in 0..MaxCrashes
  /\ queue \in Seq([from : Nat, msg : Frames \ {Ping}])
  /\ \A i \in DOMAIN queue : queue[i].from \in DOMAIN socks
  /\ DOMAIN windows \subseteq Windows
  /\ \A w \in DOMAIN windows : windows[w] \in [series : Contents, surface : Contents]
  /\ touched \subseteq Windows

Inv ==
  /\ PerClient
  /\ \A c \in Clients : ScriptOK(c) /\ LinkOK(c)
  /\ socks \in Seq(SockType)
  /\ \A s \in DOMAIN socks : SockOK(s)
  /\ ViewerOK

-----------------------------------------------------------------------------
(***************************************************************************)
(* Lemmas about connections.                                               *)
(***************************************************************************)
LEMMA FramesAre ==
  ASSUME NEW m \in Frames
  PROVE  /\ m \in [type : Types \ {"Cut"}, win : Outputs, content : Contents]
         /\ m # Cut /\ m.type # "Cut"
         /\ m.type = "Ping" <=> m = Ping
         /\ m.type = "Reset" <=> m = Reset
         /\ m \notin {Ping, Reset} => m.win \in Windows /\ m.type \in WindowTypes
BY BlankType DEF Frames, Ping, Reset, Message, Cut, Types, WindowTypes, Outputs, NoWindow, Terminal

LEMMA CutIs == Cut \notin Frames /\ ~Answered(Cut) /\ Cut.type = "Cut"
BY FramesAre DEF Cut, Message, Answered

LEMMA FrameOf ==
  ASSUME NEW win \in Windows, NEW content \in Contents
  PROVE  /\ {Ping, Reset, Open(win), Update(win, content), Label(win), Redraw(win), Close(win)}
              \subseteq Frames
         /\ Open(win) # Reset /\ Update(win, content) # Reset /\ Label(win) # Reset
         /\ Redraw(win) # Reset /\ Close(win) # Reset /\ Ping # Reset
BY BlankType DEF Frames, WindowTypes, Open, Update, Label, Redraw, Close, Message, Ping, Reset

LEMMA AnswersNone == Answers(<<>>) = 0
<1>1. {i \in DOMAIN <<>> : Answered(<<>>[i])} = {}
  OBVIOUS
<1> QED BY <1>1, FS_EmptySet DEF Answers

LEMMA AnswersAre ==
  ASSUME NEW T, NEW w \in Seq(T)
  PROVE  IsFiniteSet({i \in DOMAIN w : Answered(w[i])}) /\ Answers(w) \in Nat
<1>1. DOMAIN w = 1..Len(w) /\ Len(w) \in Nat
  OBVIOUS
<1>2. IsFiniteSet(DOMAIN w)
  BY <1>1, FS_Interval
<1>3. IsFiniteSet({i \in DOMAIN w : Answered(w[i])})
  BY <1>2, FS_Subset
<1> QED BY <1>3, FS_CardinalityType DEF Answers

LEMMA AnswersAppend ==
  ASSUME NEW T, NEW w \in Seq(T), NEW m \in T
  PROVE  Answers(Append(w, m)) = Answers(w) + (IF Answered(m) THEN 1 ELSE 0)
<1> DEFINE n == Len(w) + 1
           At(v) == {i \in DOMAIN v : Answered(v[i])}
<1>1. DOMAIN w = 1..Len(w) /\ Len(w) \in Nat
  OBVIOUS
<1>2. /\ DOMAIN Append(w, m) = DOMAIN w \cup {n} /\ n \notin DOMAIN w
      /\ Append(w, m)[n] = m /\ \A i \in DOMAIN w : Append(w, m)[i] = w[i]
  BY <1>1
<1>3. At(Append(w, m)) = IF Answered(m) THEN At(w) \cup {n} ELSE At(w)
  BY <1>2
<1>4. n \notin At(w) /\ IsFiniteSet(At(w))
  BY <1>2, AnswersAre
<1>5. Cardinality(At(w) \cup {n}) = Cardinality(At(w)) + 1
  BY <1>4, FS_AddElement
<1>6. Cardinality(At(w)) \in Nat
  BY <1>4, FS_CardinalityType
<1> HIDE DEF At
<1>7. Cardinality(At(Append(w, m))) = Cardinality(At(w)) + (IF Answered(m) THEN 1 ELSE 0)
  BY <1>3, <1>5, <1>6
<1> QED BY <1>7 DEF Answers, At

LEMMA AnswersTail ==
  ASSUME NEW T, NEW w \in Seq(T), w # <<>>
  PROVE  Answers(Tail(w)) = Answers(w) - (IF Answered(Head(w)) THEN 1 ELSE 0)
<1> DEFINE At(v) == {i \in DOMAIN v : Answered(v[i])}
           f == [i \in At(Tail(w)) |-> i + 1]
<1>1. DOMAIN w = 1..Len(w) /\ Len(w) \in Nat /\ Len(w) > 0
  OBVIOUS
<1>2. /\ DOMAIN Tail(w) = 1..(Len(w) - 1) /\ Head(w) = w[1]
      /\ \A i \in DOMAIN Tail(w) : Tail(w)[i] = w[i + 1]
  BY <1>1
<1>3. f \in Bijection(At(Tail(w)), At(w) \ {1})
  <2>1. \A i \in At(Tail(w)) : i \in Int /\ f[i] = i + 1 /\ f[i] \in At(w) \ {1}
    BY <1>1, <1>2
  <2>2. \A k \in At(w) \ {1} : \E i \in At(Tail(w)) : k = f[i]
    <3>1. ASSUME NEW k \in At(w) \ {1} PROVE k - 1 \in At(Tail(w)) /\ k = (k - 1) + 1
      BY <1>1, <1>2
    <3> QED BY <2>1, <3>1
  <2>3. \A i, k \in At(Tail(w)) : f[i] = f[k] => i = k
    BY <2>1
  <2> HIDE DEF At
  <2>4. f \in [At(Tail(w)) -> At(w) \ {1}]
    BY <2>1
  <2> HIDE DEF f
  <2> QED BY <2>2, <2>3, <2>4 DEF Bijection, Injection, IsInjective, Surjection
<1>4. IsFiniteSet(At(w)) /\ Cardinality(At(w)) \in Nat /\ IsFiniteSet(At(Tail(w)))
  <2>1. IsFiniteSet(At(w)) /\ Answers(w) = Cardinality(At(w)) /\ Answers(w) \in Nat
    BY AnswersAre DEF Answers
  <2>2. Tail(w) \in Seq(T)
    OBVIOUS
  <2>3. IsFiniteSet(At(Tail(w)))
    BY <2>2, AnswersAre
  <2> QED BY <2>1, <2>3
<1>5. 1 \in At(w) <=> Answered(Head(w))
  BY <1>1, <1>2
<1> HIDE DEF At, f
<1>6. Cardinality(At(w) \ {1}) = Cardinality(At(w)) - (IF Answered(Head(w)) THEN 1 ELSE 0)
  <2>1. Cardinality(At(w) \ {1}) =
          IF 1 \in At(w) THEN Cardinality(At(w)) - 1 ELSE Cardinality(At(w))
    BY <1>4, FS_RemoveElement
  <2> QED BY <1>4, <1>5, <2>1
<1>7. ExistsBijection(At(Tail(w)), At(w) \ {1})
  BY <1>3 DEF ExistsBijection
<1>8. Cardinality(At(Tail(w))) = Cardinality(At(w) \ {1})
  BY <1>4, <1>7, FS_Bijection
<1> QED BY <1>6, <1>8 DEF Answers, At

(* A new connection, one that is over, and one that is let go of.          *)
LEMMA SockTypes ==
  ASSUME NEW c \in Clients
  PROVE  /\ NewSock(c) \in SockType /\ Closed(c) \in SockType
         /\ Due(NewSock(c)) = 0 /\ WireFits(NewSock(c)) /\ WireFits(Closed(c))
         /\ NewSock(c).owner = c /\ NewSock(c).held /\ Closed(c).owner = c /\ ~Closed(c).held
<1>1. <<>> \in Seq(Frames \cup {Cut}) /\ <<>> \in Seq(Types) /\ Len(<<>>) = 0
  OBVIOUS
<1> QED BY <1>1, AnswersNone DEF NewSock, Closed, SockType, Due, WireFits

LEMMA DueIsNat ==
  ASSUME NEW sk \in SockType
  PROVE  Due(sk) \in Nat /\ Len(sk.replies) \in Nat /\ Answers(sk.wire) \in Nat
<1>1. sk.wire \in Seq(Frames \cup {Cut}) /\ sk.replies \in Seq(Types)
  BY DEF SockType
<1>2. Answers(sk.wire) \in Nat
  BY <1>1, AnswersAre
<1>3. Len(sk.replies) \in Nat
  BY <1>1
<1> DEFINE owed == IF sk.owed = "" THEN 0 ELSE 1
<1>4. owed \in Nat
  OBVIOUS
<1>5. Due(sk) = Len(sk.replies) + owed + Answers(sk.wire)
  BY DEF Due
<1> HIDE DEF owed
<1> QED BY <1>2, <1>3, <1>4, <1>5

LEMMA Appended ==
  ASSUME NEW T, NEW q \in Seq(T), NEW x \in T
  PROVE  /\ Append(q, x) \in Seq(T) /\ Len(Append(q, x)) = Len(q) + 1
         /\ DOMAIN q = 1..Len(q) /\ Len(q) \in Nat /\ DOMAIN Append(q, x) = 1..(Len(q) + 1)
         /\ Append(q, x)[Len(q) + 1] = x
         /\ \A i \in DOMAIN q : Append(q, x)[i] = q[i]
OBVIOUS

LEMMA DropEffect ==
  ASSUME NEW ss \in Seq(SockType), NEW s \in DOMAIN ss \cup {0}
  PROVE  /\ Drop(ss, s) \in Seq(SockType) /\ Len(Drop(ss, s)) = Len(ss)
         /\ DOMAIN Drop(ss, s) = DOMAIN ss
         /\ \A t \in DOMAIN ss : /\ Drop(ss, s)[t].owner = ss[t].owner
                                 /\ t # s => Drop(ss, s)[t] = ss[t]
         /\ s # 0 => ~Drop(ss, s)[s].held
         /\ s # 0 /\ (\A i \in DOMAIN ss[s].wire : ss[s].wire[i] = Cut => i = Len(ss[s].wire))
              => WireFits(Drop(ss, s)[s])
<1>1. CASE s = 0
  BY <1>1 DEF Drop
<1>2. CASE s # 0
  <2> DEFINE o == ss[s]
             kept == [o EXCEPT !.held = FALSE, !.replies = <<>>]
             new == IF o.served THEN kept ELSE Closed(o.owner)
  <2>1. o \in SockType /\ s \in DOMAIN ss
    BY <1>2
  <2>2. <<>> \in Seq(Types)
    OBVIOUS
  <2>3. kept \in SockType /\ kept.owner = o.owner /\ ~kept.held /\ kept.wire = o.wire
    BY <2>1, <2>2 DEF SockType
  <2>4. o.owner \in Clients
    BY <2>1 DEF SockType
  <2>5. /\ Closed(o.owner) \in SockType /\ Closed(o.owner).owner = o.owner
        /\ ~Closed(o.owner).held /\ WireFits(Closed(o.owner))
    BY <2>4, SockTypes
  <2>6. /\ new \in SockType /\ new.owner = o.owner /\ ~new.held
        /\ (\A i \in DOMAIN o.wire : o.wire[i] = Cut => i = Len(o.wire)) => WireFits(new)
    BY <2>3, <2>5 DEF WireFits
  <2>7. Drop(ss, s) = [ss EXCEPT ![s] = new]
    BY <1>2 DEF Drop
  <2> HIDE DEF new
  <2>8. /\ Drop(ss, s) \in Seq(SockType) /\ Len(Drop(ss, s)) = Len(ss)
        /\ DOMAIN Drop(ss, s) = DOMAIN ss /\ Drop(ss, s)[s] = new
        /\ \A t \in DOMAIN ss : t # s => Drop(ss, s)[t] = ss[t]
    BY <2>1, <2>6, <2>7
  <2> QED BY <2>6, <2>8
<1> QED BY <1>1, <1>2

-----------------------------------------------------------------------------
(***************************************************************************)
(* A step of one script.                                                   *)
(***************************************************************************)
Others(c) ==
  \A d \in Clients \ {c} :
    /\ said'[d] = said[d] /\ wiping'[d] = wiping[d] /\ store'[d] = store[d]
    /\ current'[d] = current[d] /\ handles'[d] = handles[d] /\ ids'[d] = ids[d]
    /\ conn'[d] = conn[d] /\ live'[d] = live[d] /\ job'[d] = job[d]
    /\ flags'[d] = flags[d] /\ pressed'[d] = pressed[d] /\ synced'[d] = synced[d]

(* Connections stay with their script; those of other scripts are left     *)
(* alone.                                                                  *)
SocksMove(c) ==
  /\ socks' \in Seq(SockType) /\ Len(socks) <= Len(socks')
  /\ \A s \in DOMAIN socks' :
       IF s \in DOMAIN socks
       THEN socks'[s].owner = socks[s].owner /\ (socks[s].owner # c => socks'[s] = socks[s])
       ELSE socks'[s].owner = c

ClientStep(c) ==
  /\ PerClient' /\ Others(c)
  /\ ScriptOK(c)' /\ LinkOK(c)'
  /\ SocksMove(c)
  /\ \A s \in DOMAIN socks' : socks'[s].owner = c => SockOK(s)'
  /\ UNCHANGED <<viewer, touched>>

LEMMA ClientStepKeeps ==
  ASSUME Inv, NEW c \in Clients, ClientStep(c)
  PROVE  Inv'
<1> USE DEF ClientStep
<1>1. DOMAIN socks = 1..Len(socks) /\ DOMAIN socks' = 1..Len(socks')
      /\ DOMAIN socks \subseteq DOMAIN socks'
  BY DEF Inv, SocksMove
<1>2. ASSUME NEW d \in Clients, d # c PROVE ScriptOK(d)' /\ LinkOK(d)'
  <2>1. /\ said'[d] = said[d] /\ wiping'[d] = wiping[d] /\ store'[d] = store[d]
        /\ current'[d] = current[d] /\ handles'[d] = handles[d] /\ ids'[d] = ids[d]
        /\ conn'[d] = conn[d] /\ live'[d] = live[d] /\ job'[d] = job[d]
        /\ flags'[d] = flags[d] /\ pressed'[d] = pressed[d] /\ synced'[d] = synced[d]
    BY <1>2 DEF Others
  <2>2. ScriptOK(d) /\ LinkOK(d)
    BY DEF Inv
  <2>3. ScriptOK(d)'
    BY <2>1, <2>2 DEF ScriptOK, Taken
  <2>4. ASSUME NEW s, Holds(d, s, socks) PROVE Holds(d, s, socks')
    BY <1>1, <1>2, <2>4 DEF Holds, SocksMove
  <2>5. LinkOK(d)'
    BY <2>1, <2>2, <2>4 DEF LinkOK
  <2> QED BY <2>3, <2>5
<1>3. \A d \in Clients : ScriptOK(d)' /\ LinkOK(d)'
  BY <1>2
<1>4. ASSUME NEW s \in DOMAIN socks', socks'[s].owner # c PROVE SockOK(s)'
  <2>1. s \in DOMAIN socks /\ socks'[s] = socks[s]
    BY <1>4 DEF SocksMove
  <2>2. socks[s].owner \in Clients \ {c}
    <3>1. socks[s] \in SockType
      BY <2>1 DEF Inv
    <3> QED BY <1>4, <2>1, <3>1 DEF SockType
  <2>3. /\ job'[socks[s].owner] = job[socks[s].owner]
        /\ wiping'[socks[s].owner] = wiping[socks[s].owner]
    BY <2>2 DEF Others
  <2> QED BY <2>1, <2>3 DEF Inv, SockOK
<1>5. ViewerOK'
  BY <1>1 DEF Inv, ViewerOK, viewer
<1> QED BY <1>3, <1>4, <1>5 DEF Inv, SocksMove

(* What a statement does to the connections: none is touched, or a new one *)
(* is dialled.                                                             *)
LEMMA StatementSocks ==
  ASSUME Inv, NEW c \in Clients, Idle(c),
         ~job'[c].waiting, wiping'[c] \in Nat, wiping[c] <= wiping'[c],
         job'[c].kind = "tell" /\ job'[c].todo = <<Reset>> => wiping[c] < wiping'[c],
         \/ socks' = socks
         \/ socks' = Append(socks, NewSock(c)) /\ job'[c].kind # "tell"
  PROVE  /\ SocksMove(c)
         /\ \A s \in DOMAIN socks' : socks'[s].owner = c => SockOK(s)'
<1>1. DOMAIN socks = 1..Len(socks) /\ Len(socks) \in Nat /\ socks \in Seq(SockType)
  BY DEF Inv
<1>2. wiping[c] \in Nat /\ ~job[c].waiting /\ job[c].kind = "none" /\ Idle(c)
  BY DEF Inv, ScriptOK, Idle, NoJob
<1>3. ASSUME NEW s \in DOMAIN socks, socks[s].owner = c, socks' = socks
                 \/ (s \in DOMAIN socks' /\ socks'[s] = socks[s])
      PROVE  SockOK(s)'
  <2>1. SockOK(s) /\ socks[s] \in SockType /\ socks'[s] = socks[s]
    BY <1>1, <1>3 DEF Inv
  <2>2. Awaits(job[c], s) = 0 /\ Slack(job[c], s) = 0 /\ Awaits(job'[c], s) = 0
    BY <1>2 DEF Awaits, Slack
  <2>3. Slack(job'[c], s) <= wiping'[c] - wiping[c] /\ Slack(job'[c], s) \in Nat
    BY <1>2 DEF Slack
  <2>4. Due(socks[s]) \in Nat
    BY <2>1, DueIsNat
  <2>5. InStep(socks[s], s, job'[c], wiping'[c])
    BY <1>2, <1>3, <2>1, <2>2, <2>3, <2>4 DEF SockOK, InStep
  <2> QED BY <1>3, <2>1, <2>5 DEF SockOK
<1>4. CASE socks' = socks
  BY <1>1, <1>3, <1>4 DEF SocksMove
<1>5. CASE socks' = Append(socks, NewSock(c)) /\ job'[c].kind # "tell"
  <2>0. PICK n \in Nat : n = Len(socks) + 1
    BY <1>1
  <2>1. NewSock(c) \in SockType /\ NewSock(c).owner = c /\ Due(NewSock(c)) = 0
        /\ WireFits(NewSock(c))
    BY SockTypes
  <2>2. /\ socks' \in Seq(SockType) /\ Len(socks') = n /\ DOMAIN socks' = DOMAIN socks \cup {n}
        /\ n \notin DOMAIN socks /\ socks'[n] = NewSock(c)
        /\ \A s \in DOMAIN socks : socks'[s] = socks[s]
    <3>1. ASSUME NEW sk \in SockType, NEW q \in Seq(SockType), n = Len(q) + 1
          PROVE  /\ Append(q, sk) \in Seq(SockType) /\ Len(Append(q, sk)) = n
                 /\ DOMAIN Append(q, sk) = 1..n /\ Append(q, sk)[n] = sk
                 /\ \A s \in DOMAIN q : Append(q, sk)[s] = q[s]
      BY <3>1, Appended
    <3>2. 1..n = (1..Len(socks)) \cup {n} /\ n \notin 1..Len(socks)
      BY <1>1, <2>0
    <3>3. /\ Append(socks, NewSock(c)) \in Seq(SockType)
          /\ Len(Append(socks, NewSock(c))) = n
          /\ DOMAIN Append(socks, NewSock(c)) = 1..n
          /\ Append(socks, NewSock(c))[n] = NewSock(c)
          /\ \A s \in DOMAIN socks : Append(socks, NewSock(c))[s] = socks[s]
      BY <1>1, <2>0, <2>1, <3>1
    <3> QED BY <1>1, <1>5, <3>2, <3>3
  <2>3. SocksMove(c)
    BY <1>1, <2>0, <2>1, <2>2 DEF SocksMove
  <2>4. Awaits(job'[c], n) = 0 /\ Slack(job'[c], n) = 0
    BY <1>5 DEF Awaits, Slack
  <2>5. SockOK(n)'
    <3>1. socks'[n].owner = c /\ Due(socks'[n]) = 0 /\ WireFits(socks'[n])
      BY <2>1, <2>2
    <3> QED BY <2>4, <3>1 DEF SockOK, InStep
  <2> QED BY <1>3, <2>2, <2>3, <2>5
<1> QED BY <1>4, <1>5

-----------------------------------------------------------------------------
(***************************************************************************)
(* Statements.                                                             *)
(***************************************************************************)
LEMMA IdleScript ==
  ASSUME Inv, NEW c \in Clients, Idle(c)
  PROVE  /\ job[c] = NoJob /\ ids[c] \in Nat /\ said[c] \in Nat /\ ids[c] <= said[c]
         /\ said[c] <= MaxStatements /\ MaxStatements \in Nat
         /\ wiping[c] \in Nat /\ wiping[c] <= MaxCloseAlls /\ MaxCloseAlls \in Nat
         /\ handles[c] \in Nat \ {0} /\ handles[c] <= MaxHandles + 1 + said[c]
         /\ MaxHandles \in Nat
         /\ FiguresFit(store[c], current[c], handles[c], Outs(c, ids[c]), live[c].win)
         /\ ConnFits(conn[c], Outs(c, ids[c])) /\ conn[c].sock \in Nat
         /\ LiveFits(live[c], Outs(c, ids[c])) /\ live[c].win \in Outs(c, ids[c])
         /\ flags[c] \in FlagType /\ pressed[c] \in 0..MaxAborts /\ synced[c] \in Contents
<1>1. /\ MaxStatements \in Nat /\ MaxHandles \in Nat /\ MaxCloseAlls \in Nat
  BY SessionAssumption DEF SessionAssumption
<1>2. job[c] = NoJob /\ Taken(c) = ids[c]
  BY DEF Idle, Taken, NoJob
<1>3. ScriptOK(c) /\ LinkOK(c)
  BY DEF Inv
<1> QED BY <1>1, <1>2, <1>3 DEF ScriptOK, LinkOK, ConnFits, LiveFits

LEMMA NoJobIs ==
  /\ NoJob.sock = 0 /\ NoJob.kind = "none" /\ ~NoJob.waiting /\ ~NoJob.dialling
  /\ NoJob.kind \notin {"sync", "on", "open", "update", "draw", "tell", "part"}
  /\ NoJob.todo # <<Reset>>
<1>1. <<>> # <<Reset>>
  OBVIOUS
<1> QED BY <1>1 DEF NoJob

LEMMA NoJobFits ==
  ASSUME NEW k, NEW l
  PROVE  JobFits(NoJob, k, l)
<1>1. <<>> \in Seq(Frames)
  OBVIOUS
<1> QED BY <1>1 DEF NoJob, JobFits, JobType

Tell(s, m) == Job("tell", FALSE, s, <<m>>)

LEMMA TellIs ==
  ASSUME NEW s, NEW m
  PROVE  /\ Tell(s, m).sock = s /\ Tell(s, m).kind = "tell"
         /\ ~Tell(s, m).waiting /\ ~Tell(s, m).dialling
BY DEF Tell, Job

LEMMA TellFits ==
  ASSUME NEW k, NEW l, NEW s \in Nat \ {0}, s \in {k.sock, l.sock}, NEW m \in Frames
  PROVE  JobFits(Tell(s, m), k, l)
<1>1. <<m>> \in Seq(Frames) /\ Len(<<m>>) = 1
  OBVIOUS
<1> QED BY <1>1 DEF Tell, Job, NoJob, JobFits, JobType

(* The window a fresh figure gets is new, if it gets one.                  *)
LEMMA FreshOutputIs ==
  ASSUME Inv, NEW c \in Clients, Idle(c)
  PROVE  /\ FreshIds(c) \in {ids[c], ids[c] + 1}
         /\ FreshOutput(c) \in Outs(c, FreshIds(c))
         /\ Outs(c, ids[c]) \subseteq Outs(c, FreshIds(c))
         /\ \/ FreshOutput(c) = Terminal
            \/ FreshOutput(c) \notin Outs(c, ids[c]) /\ FreshOutput(c) # live[c].win
<1>1. ids[c] \in Nat /\ live[c].win \in Outs(c, ids[c])
  BY IdleScript
<1>2. /\ Window(c, ids[c]) \notin Outs(c, ids[c])
      /\ Outs(c, ids[c]) \subseteq Outs(c, ids[c] + 1)
      /\ Window(c, ids[c]) \in Outs(c, ids[c] + 1)
      /\ Terminal \in Outs(c, ids[c])
  BY <1>1, FreshWindow
<1> QED BY <1>1, <1>2 DEF FreshIds, FreshOutput

LEMMA PointedAtFits ==
  ASSUME NEW outs, NEW more, outs \subseteq more,
         NEW k, ConnFits(k, outs), NEW win \in more
  PROVE  ConnFits(PointedAt(k, win), more) /\ PointedAt(k, win).sock = k.sock
BY DEF PointedAt, ConnFits

(* A statement that leaves connections alone, or says something on one.    *)
LEMMA QuietLink ==
  ASSUME Inv, NEW c \in Clients, Idle(c),
         ids'[c] \in {ids[c], ids[c] + 1},
         NEW win \in Outs(c, ids'[c]), conn'[c] = PointedAt(conn[c], win),
         live'[c] = live[c], socks' = socks,
         \/ job'[c] = NoJob
         \/ conn[c].sock # 0 /\ \E m \in Frames : job'[c] = Tell(conn[c].sock, m)
  PROVE  LinkOK(c)'
<1>1. LinkOK(c) /\ ids[c] \in Nat
  BY IdleScript DEF Inv
<1>2. Outs(c, ids[c]) \subseteq Outs(c, ids'[c])
  BY <1>1, OutsGrow
<1>3. ConnFits(conn'[c], Outs(c, ids'[c])) /\ conn'[c].sock = conn[c].sock
  BY <1>1, <1>2, PointedAtFits DEF LinkOK
<1>4. LiveFits(live'[c], Outs(c, ids'[c]))
  BY <1>1, <1>2 DEF LinkOK, LiveFits
<1>5. JobFits(job'[c], conn'[c], live'[c]) /\ job'[c].sock \in {0, conn[c].sock}
  <2>1. CASE job'[c] = NoJob
    BY <2>1, NoJobFits, NoJobIs
  <2>2. CASE conn[c].sock # 0
             /\ \E m \in Frames : job'[c] = Tell(conn[c].sock, m)
    <3>1. PICK m \in Frames : job'[c] = Tell(conn[c].sock, m)
      BY <2>2
    <3>2. PICK s \in Nat \ {0} : s = conn[c].sock /\ s \in {conn'[c].sock, live'[c].sock}
      BY <1>3, <2>2, IdleScript
    <3>3. ASSUME NEW k, NEW l, s \in {k.sock, l.sock}
          PROVE  JobFits(Tell(s, m), k, l)
      BY <3>1, <3>2, <3>3, TellFits
    <3> QED BY <3>1, <3>2, <3>3, TellIs
  <2> QED BY <2>1, <2>2
<1> QED BY <1>1, <1>3, <1>4, <1>5 DEF LinkOK, Holds

LEMMA NoOutput ==
  ASSUME Inv, NEW c \in Clients, Idle(c)
  PROVE  Terminal \in Outs(c, ids[c]) /\ PointedAt(conn[c], Terminal) = conn[c]
BY IdleScript, FreshWindow DEF PointedAt

(* What the statements on figures have in common.                          *)
FigureStatement(c) ==
  /\ PerClient' /\ Others(c) /\ Idle(c)
  /\ said'[c] = said[c] + 1 /\ said[c] < MaxStatements
  /\ wiping[c] <= wiping'[c] /\ wiping'[c] \in 0..MaxCloseAlls
  /\ handles[c] <= handles'[c]
  /\ handles'[c] \in 1..(MaxHandles + 1 + said'[c])
  /\ ids'[c] \in {ids[c], ids[c] + 1}
  /\ FiguresFit(store'[c], current'[c], handles'[c], Outs(c, ids'[c]), live[c].win)
  /\ \E win \in Outs(c, ids'[c]) : conn'[c] = PointedAt(conn[c], win)
  /\ \/ job'[c] = NoJob
     \/ /\ conn[c].sock # 0
        /\ \E m \in Frames : /\ job'[c] = Tell(conn[c].sock, m)
                             /\ m = Reset => wiping[c] < wiping'[c]
  /\ live'[c] = live[c] /\ flags'[c] = flags[c] /\ pressed'[c] = pressed[c]
  /\ synced'[c] \in Contents
  /\ socks' = socks /\ UNCHANGED <<viewer, touched>>

LEMMA FigureStatementStep ==
  ASSUME Inv, NEW c \in Clients, FigureStatement(c)
  PROVE  ClientStep(c)
<1>1. Idle(c) /\ job[c] = NoJob /\ ids[c] \in Nat /\ said[c] \in Nat /\ ids[c] <= said[c]
      /\ MaxStatements \in Nat
  BY IdleScript DEF FigureStatement
<1>2. LinkOK(c)'
  <2>1. PICK win \in Outs(c, ids'[c]) : conn'[c] = PointedAt(conn[c], win)
    BY DEF FigureStatement
  <2>2. \/ job'[c] = NoJob
        \/ conn[c].sock # 0 /\ \E m \in Frames : job'[c] = Tell(conn[c].sock, m)
    BY DEF FigureStatement
  <2> QED BY <1>1, <2>1, <2>2, QuietLink DEF FigureStatement
<1>3. /\ ~job'[c].waiting
      /\ job'[c].kind \notin {"sync", "on", "open"}
      /\ job'[c].kind = "tell" /\ job'[c].todo = <<Reset>> => wiping[c] < wiping'[c]
  <2>1. CASE job'[c] = NoJob
    BY <2>1, NoJobIs
  <2>2. ASSUME NEW m \in Frames, job'[c] = Tell(conn[c].sock, m),
               m = Reset => wiping[c] < wiping'[c]
        PROVE  /\ ~job'[c].waiting
               /\ job'[c].kind \notin {"sync", "on", "open"}
               /\ job'[c].kind = "tell" /\ job'[c].todo = <<Reset>> => wiping[c] < wiping'[c]
    BY <2>2 DEF Tell, Job
  <2> QED BY <2>1, <2>2 DEF FigureStatement
<1>4. /\ SocksMove(c) /\ \A s \in DOMAIN socks' : socks'[s].owner = c => SockOK(s)'
  <2>1. wiping'[c] \in Nat /\ wiping[c] <= wiping'[c] /\ socks' = socks
    BY DEF FigureStatement
  <2> QED BY <1>1, <1>3, <2>1, StatementSocks
<1>5. ScriptOK(c)'
  <2>1. said'[c] \in 0..MaxStatements /\ ids'[c] \in 0..said'[c]
    BY <1>1 DEF FigureStatement
  <2>2. Taken(c)' = ids'[c]
    BY <1>3 DEF Taken
  <2>3. flags'[c] \in FlagType /\ pressed'[c] \in 0..MaxAborts
    BY <1>1, IdleScript DEF FigureStatement
  <2> QED BY <1>3, <2>1, <2>2, <2>3 DEF ScriptOK, FigureStatement
<1> QED BY <1>2, <1>4, <1>5 DEF ClientStep, FigureStatement

(* The current figure is saved.                                            *)
LEMMA SavedFits ==
  ASSUME Inv, NEW c \in Clients, Idle(c)
  PROVE  /\ StoreFits(Saved(c), SavedNext(c), Outs(c, ids[c]), live[c].win)
         /\ SavedNext(c) \in {handles[c], handles[c] + 1} /\ SavedNext(c) \in Nat \ {0}
BY IdleScript, SaveFits DEF Saved, SavedHandle, SavedNext

LEMMA FigureNewStep ==
  ASSUME Inv, NEW c \in Clients, FigureNew(c)
  PROVE  ClientStep(c)
<1>1. /\ PerClient' /\ Others(c) /\ Idle(c)
      /\ said'[c] = said[c] + 1 /\ said[c] < MaxStatements /\ wiping'[c] = wiping[c]
      /\ store'[c] = Saved(c) /\ SavedNext(c) <= MaxHandles
      /\ current'[c] = [handle |-> SavedNext(c), content |-> Blank, output |-> FreshOutput(c)]
      /\ handles'[c] = SavedNext(c) + 1 /\ ids'[c] = FreshIds(c)
      /\ conn'[c] = PointedAt(conn[c], FreshOutput(c))
      /\ live'[c] = live[c] /\ job'[c] = job[c] /\ flags'[c] = flags[c]
      /\ pressed'[c] = pressed[c] /\ synced'[c] = Blank
      /\ socks' = socks /\ UNCHANGED <<viewer, touched>>
  BY DEF FigureNew, Statement, Quiet, Inv, PerClient, Others
<1>2. /\ handles[c] \in Nat \ {0} /\ handles[c] <= SavedNext(c) /\ SavedNext(c) \in Nat
      /\ SavedNext(c) \in 0..(handles'[c] - 1) /\ handles'[c] \in Nat
      /\ handles'[c] \in 1..(MaxHandles + 1 + said'[c]) /\ handles[c] <= handles'[c]
  BY <1>1, IdleScript, SavedFits
<1>3. FiguresFit(store'[c], current'[c], handles'[c], Outs(c, ids'[c]), live[c].win)
  <2>1. SavedNext(c) \notin DOMAIN Saved(c)
    BY <1>1, <1>2, SavedFits DEF StoreFits
  <2>2. StoreFits(Saved(c), handles'[c], Outs(c, ids[c]), live[c].win)
    BY <1>1, <1>2, SavedFits, StoreWider
  <2> QED BY <1>1, <1>2, <2>1, <2>2, FreshOutputIs, FreshFits
<1>4. FigureStatement(c)
  BY <1>1, <1>2, <1>3, IdleScript, FreshOutputIs, BlankType DEF FigureStatement
<1> QED BY <1>4, FigureStatementStep

LEMMA FigureSwitchStep ==
  ASSUME Inv, NEW c \in Clients, FigureSwitch(c)
  PROVE  ClientStep(c)
<1> DEFINE Stored(h) == h \in DOMAIN Saved(c)
           Output(h) == IF Stored(h) THEN Saved(c)[h].output ELSE FreshOutput(c)
<1>1. PICK h \in 1..MaxHandles :
        /\ PerClient' /\ Others(c) /\ Idle(c)
        /\ said'[c] = said[c] + 1 /\ said[c] < MaxStatements /\ wiping'[c] = wiping[c]
        /\ store'[c] = Restrict(Saved(c), DOMAIN Saved(c) \ {h})
        /\ current'[c] = [handle |-> h,
                          content |-> IF Stored(h) THEN Saved(c)[h].content ELSE Blank,
                          output |-> Output(h)]
        /\ handles'[c] = IF h >= SavedNext(c) THEN h + 1 ELSE SavedNext(c)
        /\ ids'[c] = IF Stored(h) THEN ids[c] ELSE FreshIds(c)
        /\ conn'[c] = PointedAt(conn[c], Output(h))
        /\ live'[c] = live[c] /\ job'[c] = job[c] /\ flags'[c] = flags[c]
        /\ pressed'[c] = pressed[c] /\ synced'[c] = Blank
        /\ socks' = socks /\ UNCHANGED <<viewer, touched>>
  BY ZenonT(60) DEF FigureSwitch, Statement, Quiet, Inv, PerClient, Others
<1>2. /\ handles[c] \in Nat \ {0} /\ handles[c] <= SavedNext(c) /\ SavedNext(c) \in Nat
      /\ SavedNext(c) <= handles'[c] /\ h \in 0..(handles'[c] - 1) /\ handles'[c] \in Nat
      /\ handles'[c] \in 1..(MaxHandles + 1 + said'[c]) /\ handles[c] <= handles'[c]
  BY <1>1, IdleScript, SavedFits
<1>3. StoreFits(Saved(c), handles'[c], Outs(c, ids[c]), live[c].win)
  BY <1>1, <1>2, SavedFits, StoreWider
<1>4. /\ FiguresFit(store'[c], current'[c], handles'[c], Outs(c, ids'[c]), live[c].win)
      /\ Output(h) \in Outs(c, ids'[c]) /\ ids'[c] \in {ids[c], ids[c] + 1}
  <2>1. CASE Stored(h)
    BY <1>1, <1>2, <1>3, <2>1, RestoreFits DEF StoreFits
  <2>2. CASE ~Stored(h)
    <3>1. store'[c] = Restrict(Saved(c), DOMAIN Saved(c)) /\ h \notin DOMAIN Saved(c)
      BY <1>1, <2>2
    <3>2. /\ StoreFits(store'[c], handles'[c], Outs(c, ids[c]), live[c].win)
          /\ h \notin DOMAIN store'[c]
      BY <1>3, <3>1 DEF StoreFits, Restrict
    <3> QED BY <1>1, <1>2, <2>2, <3>2, FreshOutputIs, FreshFits
  <2> QED BY <2>1, <2>2
<1>5. FigureStatement(c)
  <2> HIDE DEF Stored, Output
  <2> QED BY <1>1, <1>2, <1>4, IdleScript, BlankType DEF FigureStatement
<1> QED BY <1>5, FigureStatementStep

(* viewer_close says Close, or nothing.                                    *)
LEMMA CloseWindowIs ==
  ASSUME Inv, NEW c \in Clients, Idle(c), NEW win \in Outs(c, ids[c]),
         NEW j, j = IF conn[c].sock = 0 \/ win = Terminal THEN NoJob
                    ELSE Tell(conn[c].sock, Close(win))
  PROVE  \/ j = NoJob
         \/ /\ conn[c].sock # 0
            /\ \E m \in Frames : j = Tell(conn[c].sock, m) /\ m # Reset
<1>1. ASSUME win # Terminal PROVE win \in Windows
  <2>1. ids[c] \in Int /\ ids[c] <= MaxStatements + 1
    BY IdleScript
  <2>2. Outs(c, ids[c]) \ {Terminal} \subseteq Windows
    BY <2>1, OutsAreOutputs
  <2> QED BY <1>1, <2>2
<1>2. ASSUME win # Terminal PROVE Close(win) \in Frames /\ Close(win) # Reset
  BY <1>1, <1>2, FrameOf, BlankType
<1> QED BY <1>2

LEMMA CloseStoredStep ==
  ASSUME Inv, NEW c \in Clients, CloseStored(c)
  PROVE  ClientStep(c)
<1>1. PICK h \in DOMAIN store[c] :
        /\ PerClient' /\ Others(c) /\ Idle(c)
        /\ said'[c] = said[c] + 1 /\ said[c] < MaxStatements /\ wiping'[c] = wiping[c]
        /\ store'[c] = Restrict(store[c], DOMAIN store[c] \ {h})
        /\ current'[c] = current[c] /\ handles'[c] = handles[c] /\ ids'[c] = ids[c]
        /\ job'[c] = IF conn[c].sock = 0 \/ store[c][h].output = Terminal THEN job[c]
                     ELSE Tell(conn[c].sock, Close(store[c][h].output))
        /\ conn'[c] = conn[c]
        /\ live'[c] = live[c] /\ flags'[c] = flags[c]
        /\ pressed'[c] = pressed[c] /\ synced'[c] = synced[c]
        /\ socks' = socks /\ UNCHANGED <<viewer, touched>>
  BY DEF CloseStored, CloseWindow, Tell, Statement, Quiet, Inv, PerClient, Others
<1>2. FiguresFit(store[c], current[c], handles[c], Outs(c, ids[c]), live[c].win)
  BY <1>1, IdleScript
<1>3. FiguresFit(store'[c], current'[c], handles'[c], Outs(c, ids'[c]), live[c].win)
  BY SMTT(40), <1>1, <1>2, ForgetFits
<1>4. store[c][h].output \in Outs(c, ids[c])
  BY <1>1, <1>2 DEF FiguresFit, StoreFits
<1>5. /\ handles'[c] \in 1..(MaxHandles + 1 + said'[c]) /\ handles[c] <= handles'[c]
      /\ wiping[c] <= wiping'[c] /\ wiping'[c] \in 0..MaxCloseAlls
  BY <1>1, IdleScript
<1>6. \/ job'[c] = NoJob
      \/ conn[c].sock # 0 /\ \E m \in Frames : job'[c] = Tell(conn[c].sock, m) /\ m # Reset
  BY <1>1, <1>4, IdleScript, CloseWindowIs
<1>7. FigureStatement(c)
  BY <1>1, <1>3, <1>5, <1>6, IdleScript, NoOutput DEF FigureStatement
<1> QED BY <1>7, FigureStatementStep

(* A table of figures has a last one.                                      *)
LEMMA LastExists ==
  ASSUME NEW S \in SUBSET Nat, IsFiniteSet(S), S # {}
  PROVE  \E i \in S : \A j \in S : j <= i
<1> DEFINE Above(i) == {j \in S : i < j}
           Aboves == {Above(i) : i \in S}
<1>1. Aboves \subseteq FiniteSubsetsOf(S) /\ Aboves # {}
  <2>1. ASSUME NEW i \in S PROVE Above(i) \in FiniteSubsetsOf(S)
    BY FS_Subset DEF FiniteSubsetsOf
  <2> QED BY <2>1
<1>2. PICK A \in Aboves : \A B \in Aboves : <<B, A>> \notin StrictSubsetOrdering(S)
  <2> HIDE DEF Aboves
  <2> QED BY <1>1, FS_StrictSubsetOrderingWellFounded, WFMin
<1>3. PICK i \in S : A = Above(i)
  OBVIOUS
<1>4. ASSUME NEW j \in S, i < j PROVE FALSE
  <2>1. j \in Above(i) /\ j \notin Above(j)
    BY <1>4
  <2>2. ASSUME NEW k \in Above(j) PROVE k \in Above(i)
    <3>1. i \in Nat /\ j \in Nat /\ k \in Nat /\ k \in S /\ j < k
      OBVIOUS
    <3> QED BY <1>4, <3>1
  <2>3. Above(j) \in Aboves /\ Above(i) \in SUBSET S /\ Above(j) \in SUBSET S
    OBVIOUS
  <2>4. <<Above(j), Above(i)>> \in StrictSubsetOrdering(S)
    <3> HIDE DEF Above
    <3> QED BY <2>1, <2>2, <2>3 DEF StrictSubsetOrdering
  <2> QED BY <1>2, <1>3, <2>3, <2>4
<1>5. ASSUME NEW j \in S PROVE j <= i
  <2>1. i \in Nat /\ j \in Nat
    OBVIOUS
  <2> QED BY <1>4, <2>1
<1> QED BY <1>5

LEMMA MaxOfTable ==
  ASSUME NEW S, NEW n \in Nat, S \subseteq 1..n, S # {}
  PROVE  Max(S) \in S /\ \A i \in S : i <= Max(S)
<1>1. S \in SUBSET Nat /\ IsFiniteSet(S)
  <2>1. IsFiniteSet(1..n)
    BY FS_Interval
  <2>2. S \in SUBSET (1..n) /\ S \in SUBSET Nat
    OBVIOUS
  <2> QED BY <2>1, <2>2, FS_Subset
<1>2. PICK i \in S : \A k \in S : k <= i
  BY <1>1, LastExists
<1> QED BY <1>2 DEF Max

LEMMA CloseCurrentStep ==
  ASSUME Inv, NEW c \in Clients, CloseCurrent(c)
  PROVE  ClientStep(c)
<1> DEFINE next == IF DOMAIN store[c] = {} THEN 0 ELSE Max(DOMAIN store[c])
           figure == IF next = 0 THEN Figure(Blank, FreshOutput(c)) ELSE store[c][next]
<1>1. /\ PerClient' /\ Others(c) /\ Idle(c)
      /\ said'[c] = said[c] + 1 /\ said[c] < MaxStatements /\ wiping'[c] = wiping[c]
      /\ store'[c] = Restrict(store[c], DOMAIN store[c] \ {next})
      /\ current'[c] = [handle |-> next, content |-> figure.content, output |-> figure.output]
      /\ handles'[c] = handles[c] /\ ids'[c] = IF next = 0 THEN FreshIds(c) ELSE ids[c]
      /\ job'[c] = IF conn[c].sock = 0 \/ current[c].output = Terminal THEN job[c]
                   ELSE Tell(conn[c].sock, Close(current[c].output))
      /\ conn'[c] = PointedAt(conn[c], figure.output)
      /\ live'[c] = live[c] /\ flags'[c] = flags[c]
      /\ pressed'[c] = pressed[c] /\ synced'[c] = Blank
      /\ socks' = socks /\ UNCHANGED <<viewer, touched>>
  <2> HIDE DEF next, figure
  <2> QED BY DEF CloseCurrent, next, figure, CloseWindow, Tell, Statement, Quiet, Inv,
                 PerClient, Others
<1>2. /\ FiguresFit(store[c], current[c], handles[c], Outs(c, ids[c]), live[c].win)
      /\ handles[c] \in Nat \ {0}
  BY <1>1, IdleScript
<1>3. current[c].output \in Outs(c, ids[c])
  BY <1>1, <1>2 DEF FiguresFit, CurrentFits
<1>4. /\ handles'[c] \in 1..(MaxHandles + 1 + said'[c]) /\ handles[c] <= handles'[c]
      /\ wiping[c] <= wiping'[c] /\ wiping'[c] \in 0..MaxCloseAlls
  BY <1>1, IdleScript
<1>5. \/ job'[c] = NoJob
      \/ conn[c].sock # 0 /\ \E m \in Frames : job'[c] = Tell(conn[c].sock, m) /\ m # Reset
  BY <1>1, <1>3, IdleScript, CloseWindowIs
<1>6. /\ FiguresFit(store'[c], current'[c], handles'[c], Outs(c, ids'[c]), live[c].win)
      /\ figure.output \in Outs(c, ids'[c]) /\ ids'[c] \in {ids[c], ids[c] + 1}
  <2>1. DOMAIN store[c] \subseteq 1..(handles[c] - 1) /\ handles[c] - 1 \in Nat
        /\ StoreFits(store[c], handles[c], Outs(c, ids[c]), live[c].win)
    BY <1>2 DEF FiguresFit, StoreFits
  <2>2. CASE DOMAIN store[c] = {}
    <3>1. next = 0
      BY <2>2
    <3>2. /\ StoreFits(store'[c], handles[c], Outs(c, ids[c]), live[c].win)
          /\ 0 \notin DOMAIN store'[c]
          /\ 0 \in 0..(handles[c] - 1) /\ handles[c] \in Nat
      BY <1>1, <1>2, <2>1, <2>2, <3>1 DEF Restrict, StoreFits
    <3>3. figure.content = Blank /\ figure.output = FreshOutput(c) /\ ids'[c] = FreshIds(c)
      BY <1>1, <3>1 DEF Figure
    <3> HIDE DEF next, figure
    <3> QED BY <1>1, <3>1, <3>2, <3>3, FreshOutputIs, FreshFits
  <2>3. CASE DOMAIN store[c] # {}
    <3>1. next \in DOMAIN store[c] /\ next # 0
      <4>1. Max(DOMAIN store[c]) \in DOMAIN store[c]
        BY <2>1, <2>3, MaxOfTable
      <4> QED BY <2>1, <2>3, <4>1
    <3>2. figure = store[c][next] /\ ids'[c] = ids[c]
      BY <1>1, <3>1
    <3> HIDE DEF next, figure
    <3>3. FiguresFit(store'[c], current'[c], handles'[c], Outs(c, ids'[c]), live[c].win)
      BY <1>1, <1>2, <2>1, <3>1, <3>2, RestoreFits
    <3> QED BY <2>1, <3>1, <3>2, <3>3 DEF StoreFits
  <2> QED BY <2>2, <2>3
<1>7. FigureStatement(c)
  <2> HIDE DEF next, figure
  <2> QED BY <1>1, <1>4, <1>5, <1>6, IdleScript, BlankType DEF FigureStatement
<1> QED BY <1>7, FigureStatementStep

LEMMA CloseAllStep ==
  ASSUME Inv, NEW c \in Clients, CloseAll(c)
  PROVE  ClientStep(c)
<1>1. /\ PerClient' /\ Others(c) /\ Idle(c)
      /\ said'[c] = said[c] + 1 /\ said[c] < MaxStatements
      /\ wiping'[c] = wiping[c] + 1 /\ wiping[c] < MaxCloseAlls
      /\ store'[c] = <<>>
      /\ current'[c] = [handle |-> 0, content |-> Blank, output |-> FreshOutput(c)]
      /\ handles'[c] = handles[c] /\ ids'[c] = FreshIds(c)
      /\ job'[c] = IF conn[c].sock = 0 THEN job[c] ELSE Tell(conn[c].sock, Reset)
      /\ conn'[c] = PointedAt(conn[c], FreshOutput(c))
      /\ live'[c] = live[c] /\ flags'[c] = flags[c]
      /\ pressed'[c] = pressed[c] /\ synced'[c] = Blank
      /\ socks' = socks /\ UNCHANGED <<viewer, touched>>
  BY DEF CloseAll, Tell, Statement, Quiet, Inv, PerClient, Others
<1>2. handles[c] \in Nat /\ 0 \in 0..(handles[c] - 1)
  BY <1>1, IdleScript
<1>3. FiguresFit(store'[c], current'[c], handles'[c], Outs(c, ids'[c]), live[c].win)
  <2>1. StoreFits(store'[c], handles[c], Outs(c, ids[c]), live[c].win) /\ 0 \notin DOMAIN store'[c]
    BY <1>1, <1>2 DEF StoreFits
  <2>2. PICK h \in Nat : h = 0
    OBVIOUS
  <2>3. FiguresFit(store'[c], [handle |-> h, content |-> Blank, output |-> FreshOutput(c)],
                   handles[c], Outs(c, FreshIds(c)), live[c].win)
    BY <1>1, <1>2, <2>1, <2>2, FreshOutputIs, FreshFits
  <2> QED BY <1>1, <2>2, <2>3
<1>4. /\ handles'[c] \in 1..(MaxHandles + 1 + said'[c]) /\ handles[c] <= handles'[c]
      /\ wiping[c] < wiping'[c] /\ wiping[c] <= wiping'[c] /\ wiping'[c] \in 0..MaxCloseAlls
  BY SMTT(40), <1>1, IdleScript
<1>5. Reset \in Frames
  BY DEF Frames
<1>6. FigureStatement(c)
  BY <1>1, <1>3, <1>4, <1>5, IdleScript, FreshOutputIs, BlankType DEF FigureStatement
<1> QED BY <1>6, FigureStatementStep

(***************************************************************************)
(* Statements that talk to the viewer.                                     *)
(***************************************************************************)
TalkStatement(c) ==
  /\ PerClient' /\ Others(c) /\ Idle(c)
  /\ said'[c] = said[c] + 1 /\ said[c] < MaxStatements
  /\ wiping'[c] = wiping[c] /\ handles'[c] = handles[c]
  /\ ids'[c] = IF job'[c].kind = "open" THEN ids[c] + 1 ELSE ids[c]
  /\ FiguresFit(store'[c], current'[c], handles[c], Outs(c, ids[c]), live'[c].win)
  /\ ConnFits(conn'[c], Outs(c, ids[c])) /\ LiveFits(live'[c], Outs(c, ids[c]))
  /\ conn'[c].sock \in {0, conn[c].sock} /\ live'[c].sock \in {0, live[c].sock}
  /\ JobFits(job'[c], conn'[c], live'[c])
  /\ ~job'[c].waiting /\ job'[c].todo # <<Reset>>
  /\ \/ socks' = socks /\ job'[c].sock \in {0, conn[c].sock, live[c].sock}
     \/ /\ socks' = Append(socks, NewSock(c)) /\ job'[c].sock = Len(socks) + 1
        /\ job'[c].kind # "tell"
  /\ flags'[c] = flags[c] /\ pressed'[c] = pressed[c] /\ synced'[c] \in Contents
  /\ UNCHANGED <<viewer, touched>>

LEMMA TalkStatementStep ==
  ASSUME Inv, NEW c \in Clients, TalkStatement(c)
  PROVE  ClientStep(c)
<1>1. Idle(c) /\ job[c] = NoJob /\ ids[c] \in Nat /\ said[c] \in Nat /\ ids[c] <= said[c]
      /\ MaxStatements \in Nat /\ wiping[c] \in Nat
  BY IdleScript DEF TalkStatement
<1>2. ids'[c] \in {ids[c], ids[c] + 1} /\ Outs(c, ids[c]) \subseteq Outs(c, ids'[c])
  BY <1>1, OutsGrow DEF TalkStatement
<1>3. /\ SocksMove(c) /\ \A s \in DOMAIN socks' : socks'[s].owner = c => SockOK(s)'
  <2>1. /\ wiping'[c] \in Nat /\ wiping[c] <= wiping'[c] /\ ~job'[c].waiting
        /\ job'[c].kind = "tell" /\ job'[c].todo = <<Reset>> => wiping[c] < wiping'[c]
        /\ \/ socks' = socks
           \/ socks' = Append(socks, NewSock(c)) /\ job'[c].kind # "tell"
    BY <1>1 DEF TalkStatement
  <2> QED BY <1>1, <2>1, StatementSocks
<1>4. ScriptOK(c)'
  <2>1. /\ said'[c] \in 0..MaxStatements /\ ids'[c] \in 0..said'[c]
        /\ job'[c].kind \in {"sync", "on"} => ids'[c] < said'[c]
        /\ job'[c].kind = "open" => ids'[c] > 0
    BY <1>1 DEF TalkStatement
  <2>2. Taken(c)' = ids[c]
    BY <1>1 DEF Taken, TalkStatement
  <2>3. /\ flags'[c] \in FlagType /\ pressed'[c] \in 0..MaxAborts /\ wiping'[c] \in 0..MaxCloseAlls
        /\ handles'[c] \in 1..(MaxHandles + 1 + said'[c])
    BY <1>1, IdleScript DEF TalkStatement
  <2> QED BY <2>1, <2>2, <2>3 DEF ScriptOK, TalkStatement
<1>5. LinkOK(c)'
  <2>1. /\ ConnFits(conn'[c], Outs(c, ids'[c])) /\ LiveFits(live'[c], Outs(c, ids'[c]))
    BY <1>2 DEF TalkStatement, ConnFits, LiveFits
  <2>2. /\ \A s \in {conn[c].sock, live[c].sock} : s # 0 => Holds(c, s, socks)
        /\ conn[c].sock # 0 => conn[c].sock # live[c].sock
    BY DEF Inv, LinkOK
  <2>3. socks \in Seq(SockType) /\ DOMAIN socks = 1..Len(socks) /\ Len(socks) \in Nat
    BY DEF Inv
  <2>4. /\ \A s \in {conn[c].sock, live[c].sock} : s # 0 => Holds(c, s, socks')
        /\ job'[c].sock # 0 => Holds(c, job'[c].sock, socks')
    <3>1. CASE socks' = socks /\ job'[c].sock \in {0, conn[c].sock, live[c].sock}
      BY <2>2, <3>1
    <3>2. CASE socks' = Append(socks, NewSock(c)) /\ job'[c].sock = Len(socks) + 1
      <4>1. NewSock(c) \in SockType /\ NewSock(c).owner = c /\ NewSock(c).held
        BY SockTypes
      <4>2. /\ DOMAIN socks' = 1..(Len(socks) + 1) /\ socks'[Len(socks) + 1] = NewSock(c)
            /\ \A s \in DOMAIN socks : socks'[s] = socks[s]
        BY <2>3, <3>2
      <4> QED BY <2>2, <2>3, <3>2, <4>1, <4>2 DEF Holds
    <3> QED BY <3>1, <3>2 DEF TalkStatement
  <2>5. conn'[c].sock \in {0, conn[c].sock} /\ live'[c].sock \in {0, live[c].sock}
        /\ JobFits(job'[c], conn'[c], live'[c])
    BY DEF TalkStatement
  <2> QED BY <2>1, <2>2, <2>4, <2>5 DEF LinkOK
<1> QED BY <1>3, <1>4, <1>5 DEF ClientStep, TalkStatement

(* The number of a new connection.                                         *)
LEMMA NewNumber ==
  ASSUME Inv, NEW c \in Clients
  PROVE  /\ Len(socks) + 1 \in Nat \ {0} /\ Len(socks) + 1 \notin {conn[c].sock, live[c].sock}
         /\ Len(Append(socks, NewSock(c))) = Len(socks) + 1
<1>1. socks \in Seq(SockType) /\ DOMAIN socks = 1..Len(socks) /\ Len(socks) \in Nat
  BY DEF Inv
<1>2. \A s \in {conn[c].sock, live[c].sock} : s # 0 => s \in DOMAIN socks
  BY DEF Inv, LinkOK, Holds
<1>3. Len(socks) + 1 \notin DOMAIN socks /\ Len(socks) + 1 # 0
  BY <1>1
<1> QED BY <1>1, <1>2, <1>3

Dial(kind, s) == Job(kind, TRUE, s, <<Ping, Reset>>)

LEMMA DialIs ==
  ASSUME NEW s, NEW kind
  PROVE  /\ Dial(kind, s).sock = s /\ Dial(kind, s).kind = kind
         /\ ~Dial(kind, s).waiting /\ Dial(kind, s).todo # <<Reset>>
<1>1. <<Ping, Reset>> # <<Reset>>
  OBVIOUS
<1> QED BY <1>1 DEF Dial, Job

LEMMA DialFits ==
  ASSUME NEW k, NEW l, NEW s \in Nat \ {0}, s \notin {k.sock, l.sock},
         NEW kind \in {"sync", "on"}, kind = "sync" => k.sock = 0
  PROVE  JobFits(Dial(kind, s), k, l)
<1>1. <<Ping, Reset>> \in Seq(Frames) /\ Len(<<Ping, Reset>>) = 2
  BY DEF Frames
<1> QED BY <1>1 DEF Dial, Job, NoJob, JobFits, JobType

(* What a connection can be used for.                                      *)
LEMMA SyncFits ==
  ASSUME NEW k, NEW l, NEW outs, ConnFits(k, outs), outs \ {Terminal} \subseteq Windows,
         k.sock # 0, NEW content \in Contents,
         NEW j, j = Job("sync", FALSE, k.sock, SyncMessages(k, content))
  PROVE  JobFits(j, k, l) /\ j.sock = k.sock /\ j.kind = "sync" /\ ~j.waiting /\ j.todo # <<Reset>>
<1>1. k.win \in Windows /\ k.sock \in Nat
  BY DEF ConnFits
<1>2. {Open(k.win), Update(k.win, content), Redraw(k.win)} \subseteq Frames
  BY <1>1, FrameOf
<1>3. SyncMessages(k, content) \in Seq(Frames) /\ Len(SyncMessages(k, content)) >= 2
  BY <1>2 DEF SyncMessages
<1>4. SyncMessages(k, content) # <<Reset>> /\ SyncMessages(k, content) # <<>>
  BY SMTT(40), <1>3
<1> QED BY <1>1, <1>3, <1>4 DEF Job, NoJob, JobFits, JobType

LEMMA PlotStep ==
  ASSUME Inv, NEW c \in Clients, Plot(c)
  PROVE  ClientStep(c)
<1>1. PICK kind \in Kinds :
        LET content == [made |-> said[c] + 1, kind |-> kind] IN
        /\ PerClient' /\ Others(c) /\ Idle(c)
        /\ said'[c] = said[c] + 1 /\ said[c] < MaxStatements /\ wiping'[c] = wiping[c]
        /\ store'[c] = store[c] /\ current'[c] = [current[c] EXCEPT !.content = content]
        /\ handles'[c] = handles[c] /\ ids'[c] = ids[c] /\ conn'[c] = conn[c]
        /\ \/ job'[c] = job[c] /\ socks' = socks
           \/ /\ conn[c].sock # 0 /\ socks' = socks
              /\ job'[c] = Job("sync", FALSE, conn[c].sock, SyncMessages(conn[c], content))
           \/ /\ conn[c].sock = 0 /\ socks' = Append(socks, NewSock(c))
              /\ job'[c] = Job("sync", TRUE, Len(socks'), <<Ping, Reset>>)
        /\ live'[c] = live[c] /\ flags'[c] = flags[c]
        /\ pressed'[c] = pressed[c] /\ synced'[c] = synced[c]
        /\ UNCHANGED <<viewer, touched>>
  <2> DEFINE Content(kind) == [made |-> said[c] + 1, kind |-> kind]
  <2>1. PICK kind \in Kinds :
          /\ Statement(c) /\ Quiet(c)
          /\ current' = [current EXCEPT ![c].content = Content(kind)]
          /\ UNCHANGED <<wiping, store, handles, ids, conn, synced>>
          /\ \/ UNCHANGED <<job, socks>>
             \/ /\ conn[c].sock # 0
                /\ job' = [job EXCEPT ![c] = Job("sync", FALSE, conn[c].sock,
                                                SyncMessages(conn[c], Content(kind)))]
                /\ UNCHANGED socks
             \/ /\ conn[c].sock = 0
                /\ socks' = Append(socks, NewSock(c))
                /\ job' = [job EXCEPT ![c] = Job("sync", TRUE, Len(socks'), <<Ping, Reset>>)]
    BY DEF Plot
  <2> HIDE DEF Content
  <2>2. PerClient /\ c \in Clients
    BY DEF Inv
  <2>3. /\ said' = [said EXCEPT ![c] = @ + 1] /\ Idle(c) /\ said[c] < MaxStatements
        /\ UNCHANGED <<live, flags, pressed, viewer, touched>>
    BY <2>1 DEF Statement, Quiet
  <2>4. \A d \in Clients : job'[d] = IF d = c THEN job'[c] ELSE job[d]
    BY <2>1, <2>2 DEF PerClient
  <2>5. job' = [d \in Clients |-> job'[d]]
    BY <2>1, <2>2 DEF PerClient
  <2>6. PerClient' /\ Others(c)
    BY <2>1, <2>2, <2>3, <2>4, <2>5 DEF PerClient, Others
  <2>7. \/ job'[c] = job[c] /\ socks' = socks
        \/ /\ conn[c].sock # 0 /\ socks' = socks
           /\ job'[c] = Job("sync", FALSE, conn[c].sock, SyncMessages(conn[c], Content(kind)))
        \/ /\ conn[c].sock = 0 /\ socks' = Append(socks, NewSock(c))
           /\ job'[c] = Job("sync", TRUE, Len(socks'), <<Ping, Reset>>)
    BY <2>1, <2>2 DEF PerClient
  <2>8. /\ said'[c] = said[c] + 1 /\ wiping'[c] = wiping[c]
        /\ store'[c] = store[c] /\ current'[c] = [current[c] EXCEPT !.content = Content(kind)]
        /\ handles'[c] = handles[c] /\ ids'[c] = ids[c] /\ conn'[c] = conn[c]
        /\ live'[c] = live[c] /\ flags'[c] = flags[c]
        /\ pressed'[c] = pressed[c] /\ synced'[c] = synced[c]
    BY <2>1, <2>2, <2>3 DEF PerClient
  <2> QED BY <2>1, <2>3, <2>6, <2>7, <2>8 DEF Content
<1> DEFINE content == [made |-> said[c] + 1, kind |-> kind]
<1>2. content \in Contents
  BY <1>1, IdleScript DEF Contents
<1> HIDE DEF content
<1>3. /\ FiguresFit(store[c], current[c], handles[c], Outs(c, ids[c]), live[c].win)
      /\ ConnFits(conn[c], Outs(c, ids[c])) /\ LiveFits(live[c], Outs(c, ids[c]))
      /\ Outs(c, ids[c]) \ {Terminal} \subseteq Windows
  <2>1. ids[c] \in Int /\ ids[c] <= MaxStatements + 1
    BY <1>1, IdleScript
  <2> QED BY <1>1, <2>1, IdleScript, OutsAreOutputs
<1>4. FiguresFit(store'[c], current'[c], handles[c], Outs(c, ids[c]), live[c].win)
  <2>1. current'[c] = [current[c] EXCEPT !.content = content]
    BY <1>1 DEF content
  <2> QED BY <1>1, <1>2, <1>3, <2>1 DEF FiguresFit, CurrentFits
<1>5. /\ JobFits(job'[c], conn[c], live[c])
      /\ ~job'[c].waiting /\ job'[c].todo # <<Reset>> /\ job'[c].kind # "open"
      /\ \/ socks' = socks /\ job'[c].sock \in {0, conn[c].sock, live[c].sock}
         \/ /\ socks' = Append(socks, NewSock(c)) /\ job'[c].sock = Len(socks) + 1
            /\ job'[c].kind # "tell"
  <2>1. CASE job'[c] = job[c] /\ socks' = socks
    BY <1>1, <2>1, IdleScript, NoJobIs, NoJobFits
  <2>2. CASE /\ conn[c].sock # 0 /\ socks' = socks
             /\ job'[c] = Job("sync", FALSE, conn[c].sock, SyncMessages(conn[c], content))
    BY <1>2, <1>3, <2>2, SyncFits
  <2>3. CASE /\ conn[c].sock = 0 /\ socks' = Append(socks, NewSock(c))
             /\ job'[c] = Job("sync", TRUE, Len(socks'), <<Ping, Reset>>)
    <3>1. PICK s \in Nat \ {0} : s = Len(socks') /\ s = Len(socks) + 1
                                /\ s \notin {conn[c].sock, live[c].sock}
      BY <2>3, NewNumber
    <3>2. JobFits(Dial("sync", s), conn[c], live[c])
      BY <2>3, <3>1, DialFits
    <3>3. job'[c] = Dial("sync", s)
      BY <2>3, <3>1 DEF Dial
    <3>4. /\ job'[c].sock = s /\ job'[c].kind = "sync"
          /\ ~job'[c].waiting /\ job'[c].todo # <<Reset>>
      BY <3>3, DialIs
    <3>5. job'[c].kind # "open" /\ job'[c].kind # "tell" /\ job'[c].sock = Len(socks) + 1
      BY <3>1, <3>4
    <3> QED BY <2>3, <3>2, <3>3, <3>4, <3>5
  <2> QED BY <1>1, <2>1, <2>2, <2>3 DEF content
<1>6. TalkStatement(c)
  BY <1>1, <1>3, <1>4, <1>5, IdleScript DEF TalkStatement
<1> QED BY <1>6, TalkStatementStep

LEMMA ViewerOnStep ==
  ASSUME Inv, NEW c \in Clients, ViewerOn(c)
  PROVE  ClientStep(c)
<1>1. /\ PerClient' /\ Others(c) /\ Idle(c)
      /\ said'[c] = said[c] + 1 /\ said[c] < MaxStatements /\ wiping'[c] = wiping[c]
      /\ store'[c] = store[c] /\ current'[c] = current[c] /\ handles'[c] = handles[c]
      /\ ids'[c] = ids[c] /\ conn'[c] = conn[c] /\ live'[c] = live[c]
      /\ socks' = Append(socks, NewSock(c)) /\ job'[c] = Dial("on", Len(socks'))
      /\ flags'[c] = flags[c] /\ pressed'[c] = pressed[c] /\ synced'[c] = synced[c]
      /\ UNCHANGED <<viewer, touched>>
  BY DEF ViewerOn, Statement, Quiet, Inv, PerClient, Others, Dial
<1>2. PICK s \in Nat \ {0} : s = Len(socks') /\ s = Len(socks) + 1
                             /\ s \notin {conn[c].sock, live[c].sock}
  BY <1>1, NewNumber
<1>3. JobFits(Dial("on", s), conn[c], live[c])
  BY <1>2, DialFits
<1>4. job'[c].sock = s /\ job'[c].kind = "on" /\ ~job'[c].waiting /\ job'[c].todo # <<Reset>>
  BY <1>1, <1>2, DialIs
<1>5. job'[c].kind # "open" /\ job'[c].kind # "tell"
  BY <1>4
<1>6. TalkStatement(c)
  BY <1>1, <1>2, <1>3, <1>4, <1>5, IdleScript DEF TalkStatement
<1> QED BY <1>6, TalkStatementStep

(* The last word on a connection that the script lets go of.               *)
Part(s, m) == Job("part", FALSE, s, <<m>>)

LEMMA PartIs ==
  ASSUME NEW s, NEW m, m # Reset
  PROVE  /\ Part(s, m).sock = s /\ Part(s, m).kind = "part"
         /\ ~Part(s, m).waiting /\ Part(s, m).todo # <<Reset>>
<1>1. <<m>> # <<Reset>>
  OBVIOUS
<1> QED BY <1>1 DEF Part, Job

LEMMA PartFits ==
  ASSUME NEW k, NEW l, NEW s \in Nat \ {0}, s \notin {k.sock, l.sock},
         NEW m \in Frames, m # Reset
  PROVE  JobFits(Part(s, m), k, l)
<1>1. <<m>> \in Seq(Frames) /\ Len(<<m>>) = 1 /\ DOMAIN <<m>> = {1} /\ <<m>>[1] = m
  OBVIOUS
<1> QED BY <1>1 DEF Part, Job, NoJob, JobFits, JobType

(* The current figure goes back to the terminal.                           *)
LEMMA OutputLost ==
  ASSUME NEW st, NEW cur, NEW top, NEW outs, NEW lw, FiguresFit(st, cur, top, outs, lw),
         Terminal \in outs
  PROVE  FiguresFit(st, [cur EXCEPT !.output = Terminal], top, outs, lw)
<1> DEFINE new == [cur EXCEPT !.output = Terminal]
<1>1. cur \in [handle : 0..(top - 1), content : Contents, output : outs]
  BY DEF FiguresFit, CurrentFits
<1>2. /\ new \in [handle : 0..(top - 1), content : Contents, output : outs]
      /\ new.handle = cur.handle /\ new.output = Terminal
  BY <1>1
<1> HIDE DEF new
<1>3. FiguresFit(st, new, top, outs, lw)
  BY <1>2 DEF FiguresFit, StoreFits, CurrentFits
<1> QED BY <1>3 DEF new

LEMMA NoConnFits ==
  ASSUME NEW outs, Terminal \in outs
  PROVE  ConnFits(NoConn, outs) /\ NoConn.sock = 0
BY DEF ConnFits, NoConn, Terminal

LEMMA ViewerOffStep ==
  ASSUME Inv, NEW c \in Clients, ViewerOff(c)
  PROVE  ClientStep(c)
<1>1. /\ PerClient' /\ Others(c) /\ Idle(c)
      /\ said'[c] = said[c] + 1 /\ said[c] < MaxStatements /\ wiping'[c] = wiping[c]
      /\ store'[c] = store[c] /\ current'[c] = [current[c] EXCEPT !.output = Terminal]
      /\ handles'[c] = handles[c]
      /\ ids'[c] = ids[c] /\ conn'[c] = NoConn /\ live'[c] = live[c]
      /\ socks' = socks
      /\ job'[c] = IF conn[c].sock = 0 THEN job[c] ELSE Part(conn[c].sock, Close(conn[c].win))
      /\ flags'[c] = flags[c] /\ pressed'[c] = pressed[c] /\ synced'[c] = Blank
      /\ UNCHANGED <<viewer, touched>>
  BY DEF ViewerOff, Statement, Quiet, Inv, PerClient, Others, Part
<1>2. /\ FiguresFit(store[c], current[c], handles[c], Outs(c, ids[c]), live[c].win)
      /\ ConnFits(conn[c], Outs(c, ids[c])) /\ LiveFits(live[c], Outs(c, ids[c]))
      /\ Outs(c, ids[c]) \ {Terminal} \subseteq Windows /\ Terminal \in Outs(c, ids[c])
  <2>1. ids[c] \in Int /\ ids[c] <= MaxStatements + 1
    BY <1>1, IdleScript
  <2> QED BY <1>1, <2>1, IdleScript, OutsAreOutputs, NoOutput
<1>3. FiguresFit(store'[c], current'[c], handles[c], Outs(c, ids[c]), live[c].win)
  BY <1>1, <1>2, OutputLost
<1>4. ConnFits(conn'[c], Outs(c, ids[c])) /\ conn'[c].sock = 0
  BY <1>1, <1>2, NoConnFits
<1>5. /\ JobFits(job'[c], conn'[c], live[c])
      /\ ~job'[c].waiting /\ job'[c].todo # <<Reset>> /\ job'[c].kind # "open"
      /\ job'[c].sock \in {0, conn[c].sock, live[c].sock}
  <2>1. CASE conn[c].sock = 0
    BY <1>1, <2>1, IdleScript, NoJobIs, NoJobFits
  <2>2. CASE conn[c].sock # 0
    <3>1. Close(conn[c].win) \in Frames /\ Close(conn[c].win) # Reset
      BY <1>2, <2>2, FrameOf, BlankType DEF ConnFits
    <3>2. PICK m \in Frames : m = Close(conn[c].win) /\ m # Reset
      BY <3>1
    <3>3. PICK s \in Nat \ {0} : s = conn[c].sock /\ s # live[c].sock
      BY <1>1, <2>2, IdleScript DEF Inv, LinkOK
    <3>4. JobFits(Part(s, m), conn'[c], live[c])
      BY <1>4, <3>2, <3>3, PartFits
    <3>5. job'[c] = Part(s, m)
      BY <1>1, <2>2, <3>2, <3>3
    <3>6. job'[c].sock = s /\ job'[c].kind = "part" /\ ~job'[c].waiting /\ job'[c].todo # <<Reset>>
      BY <3>2, <3>5, PartIs
    <3> QED BY <3>3, <3>4, <3>5, <3>6
  <2> QED BY <2>1, <2>2
<1>6. TalkStatement(c)
  BY <1>1, <1>2, <1>3, <1>4, <1>5, IdleScript, BlankType DEF TalkStatement
<1> QED BY <1>6, TalkStatementStep

(***************************************************************************)
(* Statements on the live figure.                                          *)
(***************************************************************************)
LiveDial(kind, s, win) == Job(kind, TRUE, s, <<Open(win)>>)
LiveSay(kind, s, m) == Job(kind, FALSE, s, <<m>>)

LEMMA LiveJobIs ==
  ASSUME NEW kind, NEW s, NEW win, NEW m
  PROVE  /\ LiveDial(kind, s, win).sock = s /\ LiveDial(kind, s, win).kind = kind
         /\ ~LiveDial(kind, s, win).waiting /\ LiveDial(kind, s, win).todo # <<Reset>>
         /\ LiveSay(kind, s, m).sock = s /\ LiveSay(kind, s, m).kind = kind
         /\ ~LiveSay(kind, s, m).waiting
         /\ m # Reset => LiveSay(kind, s, m).todo # <<Reset>>
<1>1. Open(win) # Reset
  BY DEF Open, Reset, Message
<1>2. <<Open(win)>> # <<Reset>> /\ (m # Reset => <<m>> # <<Reset>>)
  BY <1>1
<1> QED BY <1>2 DEF LiveDial, LiveSay, Job

LEMMA LiveDialFits ==
  ASSUME NEW k, NEW l, NEW s \in Nat \ {0}, s \notin {k.sock, l.sock}, NEW win \in Windows,
         NEW kind \in {"open", "update", "draw"},
         IF kind = "open" THEN l = NoLive ELSE l.sock = 0 /\ l.win # Terminal
  PROVE  JobFits(LiveDial(kind, s, win), k, l)
<1>1. Open(win) \in Frames
  BY FrameOf, BlankType
<1>2. <<Open(win)>> \in Seq(Frames) /\ Len(<<Open(win)>>) = 1
  BY <1>1
<1> QED BY <1>2 DEF LiveDial, Job, NoJob, JobFits, JobType

LEMMA LiveSayFits ==
  ASSUME NEW k, NEW l, NEW s \in Nat \ {0}, s = l.sock, l.win # Terminal, NEW m \in Frames,
         NEW kind \in {"update", "draw"}
  PROVE  JobFits(LiveSay(kind, s, m), k, l)
<1>1. <<m>> \in Seq(Frames) /\ Len(<<m>>) = 1
  OBVIOUS
<1> QED BY <1>1 DEF LiveSay, Job, NoJob, JobFits, JobType

(* The frame of a statement on a live figure.                              *)
LiveFrame(kind, win, n) ==
  IF kind = "draw" THEN Redraw(win) ELSE Update(win, [made |-> n, kind |-> "line"])

LEMMA LiveFrameIs ==
  ASSUME NEW win \in Windows, NEW n \in 0..MaxStatements, NEW kind
  PROVE  LiveFrame(kind, win, n) \in Frames /\ LiveFrame(kind, win, n) # Reset
<1>1. [made |-> n, kind |-> "line"] \in Contents
  BY DEF Contents
<1> QED BY <1>1, FrameOf, BlankType DEF LiveFrame

LEMMA LiveOpenStep ==
  ASSUME Inv, NEW c \in Clients, LiveOpen(c)
  PROVE  ClientStep(c)
<1>1. /\ PerClient' /\ Others(c) /\ Idle(c)
      /\ said'[c] = said[c] + 1 /\ said[c] < MaxStatements /\ wiping'[c] = wiping[c]
      /\ store'[c] = store[c] /\ current'[c] = current[c] /\ handles'[c] = handles[c]
      /\ ids'[c] = ids[c] + 1 /\ conn'[c] = conn[c] /\ live[c] = NoLive /\ live'[c] = live[c]
      /\ socks' = Append(socks, NewSock(c))
      /\ job'[c] = LiveDial("open", Len(socks'), Window(c, ids[c]))
      /\ flags'[c] = flags[c] /\ pressed'[c] = pressed[c] /\ synced'[c] = synced[c]
      /\ UNCHANGED <<viewer, touched>>
  BY DEF LiveOpen, LiveStatement, Statement, Inv, PerClient, Others, LiveDial
<1>2. PICK s \in Nat \ {0} : s = Len(socks') /\ s = Len(socks) + 1
                             /\ s \notin {conn[c].sock, live[c].sock}
  BY <1>1, NewNumber
<1>3. PICK win \in Windows : win = Window(c, ids[c])
  BY <1>1, IdleScript DEF Window, Windows
<1>4. JobFits(LiveDial("open", s, win), conn[c], live[c])
  BY <1>1, <1>2, <1>3, LiveDialFits
<1>5. job'[c] = LiveDial("open", s, win)
  BY <1>1, <1>2, <1>3
<1>6. job'[c].sock = s /\ job'[c].kind = "open" /\ ~job'[c].waiting /\ job'[c].todo # <<Reset>>
  BY <1>5, LiveJobIs
<1>7. job'[c].kind # "tell"
  BY <1>6
<1>8. TalkStatement(c)
  BY <1>1, <1>2, <1>4, <1>5, <1>6, <1>7, IdleScript DEF TalkStatement
<1> QED BY <1>8, TalkStatementStep

LEMMA LiveSendStep ==
  ASSUME Inv, NEW c \in Clients, NEW kind \in {"update", "draw"}, LiveSend(c, kind)
  PROVE  ClientStep(c)
<1>1. /\ PerClient' /\ Others(c) /\ Idle(c)
      /\ said'[c] = said[c] + 1 /\ said[c] < MaxStatements /\ wiping'[c] = wiping[c]
      /\ store'[c] = store[c] /\ current'[c] = current[c] /\ handles'[c] = handles[c]
      /\ ids'[c] = ids[c] /\ conn'[c] = conn[c] /\ live[c] # NoLive /\ live'[c] = live[c]
      /\ flags'[c] = flags[c] /\ pressed'[c] = pressed[c] /\ synced'[c] = synced[c]
      /\ UNCHANGED <<viewer, touched>>
      /\ \/ /\ live[c].sock # 0 /\ socks' = socks
            /\ job'[c] = LiveSay(kind, live[c].sock, LiveFrame(kind, live[c].win, said[c] + 1))
         \/ /\ live[c].sock = 0 /\ socks' = Append(socks, NewSock(c))
            /\ job'[c] = LiveDial(kind, Len(socks'), live[c].win)
         \/ job'[c] = job[c] /\ socks' = socks
  <2>1. PerClient /\ LiveStatement(c) /\ live[c] # NoLive /\ UNCHANGED <<ids, live>>
    BY DEF Inv, LiveSend
  <2>2. \/ /\ live[c].sock # 0 /\ socks' = socks
           /\ job' = [job EXCEPT ![c] =
                LiveSay(kind, live[c].sock, LiveFrame(kind, live[c].win, said[c] + 1))]
        \/ /\ live[c].sock = 0 /\ socks' = Append(socks, NewSock(c))
           /\ job' = [job EXCEPT ![c] = LiveDial(kind, Len(socks'), live[c].win)]
        \/ job' = job /\ socks' = socks
    BY DEF LiveSend, LiveSay, LiveFrame, LiveDial
  <2>3. /\ job' = [d \in Clients |-> job'[d]]
        /\ \A d \in Clients \ {c} : job'[d] = job[d]
        /\ \/ /\ live[c].sock # 0 /\ socks' = socks
              /\ job'[c] = LiveSay(kind, live[c].sock, LiveFrame(kind, live[c].win, said[c] + 1))
           \/ /\ live[c].sock = 0 /\ socks' = Append(socks, NewSock(c))
              /\ job'[c] = LiveDial(kind, Len(socks'), live[c].win)
           \/ job'[c] = job[c] /\ socks' = socks
    BY <2>1, <2>2 DEF PerClient
  <2> QED BY <2>1, <2>3 DEF LiveStatement, Statement, PerClient, Others
<1>2. LiveFits(live[c], Outs(c, ids[c])) /\ live[c].win # Terminal /\ live[c].win \in Windows
  <2>1. ids[c] \in Int /\ ids[c] <= MaxStatements + 1 /\ LiveFits(live[c], Outs(c, ids[c]))
    BY <1>1, IdleScript
  <2>2. live[c].win # Terminal /\ live[c].win \in Outs(c, ids[c])
    BY <1>1, <2>1 DEF LiveFits
  <2> QED BY <2>1, <2>2, OutsAreOutputs
<1>3. /\ JobFits(job'[c], conn[c], live[c])
      /\ ~job'[c].waiting /\ job'[c].todo # <<Reset>> /\ job'[c].kind # "open"
      /\ \/ socks' = socks /\ job'[c].sock \in {0, conn[c].sock, live[c].sock}
         \/ /\ socks' = Append(socks, NewSock(c)) /\ job'[c].sock = Len(socks) + 1
            /\ job'[c].kind # "tell"
  <2>1. CASE job'[c] = job[c] /\ socks' = socks
    BY <1>1, <2>1, IdleScript, NoJobIs, NoJobFits
  <2>2. CASE /\ live[c].sock # 0 /\ socks' = socks
             /\ job'[c] = LiveSay(kind, live[c].sock, LiveFrame(kind, live[c].win, said[c] + 1))
    <3>1. said[c] + 1 \in 0..MaxStatements
      BY <1>1, IdleScript
    <3>2. PICK m \in Frames : m = LiveFrame(kind, live[c].win, said[c] + 1) /\ m # Reset
      BY <1>2, <3>1, LiveFrameIs
    <3>3. PICK s \in Nat \ {0} : s = live[c].sock
      BY <1>2, <2>2 DEF LiveFits
    <3>4. JobFits(LiveSay(kind, s, m), conn[c], live[c])
      BY <1>2, <3>2, <3>3, LiveSayFits
    <3>5. job'[c] = LiveSay(kind, s, m)
      BY <2>2, <3>2, <3>3
    <3>6. job'[c].sock = s /\ job'[c].kind = kind /\ ~job'[c].waiting /\ job'[c].todo # <<Reset>>
      BY <3>2, <3>5, LiveJobIs
    <3>7. job'[c].kind # "open"
      BY <3>6
    <3> QED BY <2>2, <3>3, <3>4, <3>5, <3>6, <3>7
  <2>3. CASE /\ live[c].sock = 0 /\ socks' = Append(socks, NewSock(c))
             /\ job'[c] = LiveDial(kind, Len(socks'), live[c].win)
    <3>1. PICK s \in Nat \ {0} : s = Len(socks') /\ s = Len(socks) + 1
                                 /\ s \notin {conn[c].sock, live[c].sock}
      BY <2>3, NewNumber
    <3>2. kind \in {"open", "update", "draw"} /\ kind # "open" /\ kind # "tell"
      OBVIOUS
    <3>3. JobFits(LiveDial(kind, s, live[c].win), conn[c], live[c])
      BY <1>2, <2>3, <3>1, <3>2, LiveDialFits
    <3>4. job'[c] = LiveDial(kind, s, live[c].win)
      BY <2>3, <3>1
    <3>5. job'[c].sock = s /\ job'[c].kind = kind /\ ~job'[c].waiting /\ job'[c].todo # <<Reset>>
      BY <3>4, LiveJobIs
    <3> QED BY <2>3, <3>1, <3>2, <3>3, <3>4, <3>5
  <2> QED BY <1>1, <2>1, <2>2, <2>3
<1>4. TalkStatement(c)
  BY <1>1, <1>2, <1>3, IdleScript DEF TalkStatement
<1> QED BY <1>4, TalkStatementStep

LEMMA LiveLabelStep ==
  ASSUME Inv, NEW c \in Clients, LiveLabel(c)
  PROVE  ClientStep(c)
<1>1. /\ PerClient' /\ Others(c) /\ Idle(c)
      /\ said'[c] = said[c] + 1 /\ said[c] < MaxStatements /\ wiping'[c] = wiping[c]
      /\ store'[c] = store[c] /\ current'[c] = current[c] /\ handles'[c] = handles[c]
      /\ ids'[c] = ids[c] /\ conn'[c] = conn[c] /\ live[c].sock # 0 /\ live'[c] = live[c]
      /\ socks' = socks /\ job'[c] = Tell(live[c].sock, Label(live[c].win))
      /\ flags'[c] = flags[c] /\ pressed'[c] = pressed[c] /\ synced'[c] = synced[c]
      /\ UNCHANGED <<viewer, touched>>
  BY DEF LiveLabel, LiveStatement, Statement, Inv, PerClient, Others, Tell
<1>2. LiveFits(live[c], Outs(c, ids[c])) /\ live[c].win \in Windows
  <2>1. ids[c] \in Int /\ ids[c] <= MaxStatements + 1 /\ LiveFits(live[c], Outs(c, ids[c]))
    BY <1>1, IdleScript
  <2>2. live[c].win # Terminal /\ live[c].win \in Outs(c, ids[c])
    BY <1>1, <2>1 DEF LiveFits, NoLive
  <2> QED BY <2>1, <2>2, OutsAreOutputs
<1>3. PICK m \in Frames : m = Label(live[c].win) /\ m # Reset
  BY <1>2, FrameOf, BlankType
<1>4. PICK s \in Nat \ {0} : s = live[c].sock
  BY <1>1, <1>2 DEF LiveFits
<1>5. JobFits(Tell(s, m), conn[c], live[c])
  BY <1>3, <1>4, TellFits
<1>6. job'[c] = Tell(s, m)
  BY <1>1, <1>3, <1>4
<1>7. job'[c].sock = s /\ job'[c].kind = "tell" /\ ~job'[c].waiting
  BY <1>6, TellIs
<1>8. job'[c].todo # <<Reset>> /\ job'[c].kind # "open"
  <2>1. <<m>> # <<Reset>>
    BY <1>3
  <2> QED BY <1>6, <1>7, <2>1 DEF Tell, Job
<1>9. TalkStatement(c)
  BY <1>1, <1>2, <1>4, <1>5, <1>6, <1>7, <1>8, IdleScript DEF TalkStatement
<1> QED BY <1>9, TalkStatementStep

LEMMA LiveCloseStep ==
  ASSUME Inv, NEW c \in Clients, LiveClose(c)
  PROVE  ClientStep(c)
<1>1. /\ PerClient' /\ Others(c) /\ Idle(c)
      /\ said'[c] = said[c] + 1 /\ said[c] < MaxStatements /\ wiping'[c] = wiping[c]
      /\ store'[c] = store[c] /\ current'[c] = current[c] /\ handles'[c] = handles[c]
      /\ ids'[c] = ids[c] /\ conn'[c] = conn[c] /\ live[c] # NoLive /\ live'[c] = NoLive
      /\ socks' = socks
      /\ job'[c] = IF live[c].sock = 0 THEN job[c] ELSE Part(live[c].sock, Close(live[c].win))
      /\ flags'[c] = flags[c] /\ pressed'[c] = pressed[c] /\ synced'[c] = synced[c]
      /\ UNCHANGED <<viewer, touched>>
  BY DEF LiveClose, LiveStatement, Statement, Inv, PerClient, Others, Part
<1>2. /\ LiveFits(live[c], Outs(c, ids[c])) /\ live[c].win \in Windows
      /\ Terminal \in Outs(c, ids[c])
  <2>1. ids[c] \in Int /\ ids[c] <= MaxStatements + 1 /\ LiveFits(live[c], Outs(c, ids[c]))
    BY <1>1, IdleScript
  <2>2. live[c].win # Terminal /\ live[c].win \in Outs(c, ids[c])
    BY <1>1, <2>1 DEF LiveFits
  <2> QED BY <1>1, <2>1, <2>2, OutsAreOutputs, NoOutput
<1>3. /\ FiguresFit(store'[c], current'[c], handles[c], Outs(c, ids[c]), live'[c].win)
      /\ LiveFits(live'[c], Outs(c, ids[c])) /\ live'[c].sock = 0
  <2>1. NoLive.win = Terminal /\ NoLive.sock = 0 /\ LiveFits(NoLive, Outs(c, ids[c]))
    BY <1>2 DEF NoLive, Terminal, LiveFits
  <2> QED BY <1>1, <2>1, IdleScript, LiveApart
<1>4. /\ JobFits(job'[c], conn[c], live'[c])
      /\ ~job'[c].waiting /\ job'[c].todo # <<Reset>> /\ job'[c].kind # "open"
      /\ job'[c].sock \in {0, conn[c].sock, live[c].sock}
  <2>1. CASE live[c].sock = 0
    BY <1>1, <2>1, IdleScript, NoJobIs, NoJobFits
  <2>2. CASE live[c].sock # 0
    <3>1. PICK m \in Frames : m = Close(live[c].win) /\ m # Reset
      BY <1>2, FrameOf, BlankType
    <3>2. PICK s \in Nat \ {0} : s = live[c].sock /\ s # conn[c].sock
      BY <1>2, <2>2 DEF Inv, LinkOK, LiveFits
    <3>3. JobFits(Part(s, m), conn[c], live'[c])
      BY <1>3, <3>1, <3>2, PartFits
    <3>4. job'[c] = Part(s, m)
      BY <1>1, <2>2, <3>1, <3>2
    <3>5. job'[c].sock = s /\ job'[c].kind = "part" /\ ~job'[c].waiting /\ job'[c].todo # <<Reset>>
      BY <3>1, <3>4, PartIs
    <3> QED BY <3>2, <3>3, <3>4, <3>5
  <2> QED BY <2>1, <2>2
<1>5. TalkStatement(c)
  BY <1>1, <1>3, <1>4, IdleScript DEF TalkStatement
<1> QED BY <1>5, TalkStatementStep

(***************************************************************************)
(* The prompt, and Ctrl+C.                                                 *)
(***************************************************************************)
LEMMA FlagsOnly ==
  ASSUME Inv, NEW c \in Clients,
         UNCHANGED <<script, conn, live, job, socks, viewer, synced, touched>>,
         NEW fl \in FlagType, flags' = [flags EXCEPT ![c] = fl],
         NEW n \in 0..MaxAborts, pressed' = [pressed EXCEPT ![c] = n]
  PROVE  ClientStep(c)
<1>1. /\ PerClient' /\ Others(c) /\ flags'[c] = fl /\ pressed'[c] = n
  BY DEF Inv, PerClient, Others, script
<1>2. ScriptOK(c)'
  BY <1>1 DEF Inv, ScriptOK, Taken, script
<1>3. LinkOK(c)'
  BY DEF Inv, LinkOK, script, Holds
<1>4. SocksMove(c)
  BY DEF Inv, SocksMove
<1>5. \A s \in DOMAIN socks' : SockOK(s)'
  BY DEF Inv, SockOK, script
<1> QED BY <1>1, <1>2, <1>3, <1>4, <1>5 DEF ClientStep

LEMMA NextLineStep ==
  ASSUME Inv, NEW c \in Clients, NextLine(c)
  PROVE  ClientStep(c)
<1>1. PerClient /\ pressed[c] \in 0..MaxAborts /\ NoFlags \in FlagType
  BY DEF Inv, ScriptOK, NoFlags, FlagType
<1>2. pressed' = [pressed EXCEPT ![c] = pressed[c]]
  BY <1>1 DEF NextLine, PerClient
<1>3. /\ UNCHANGED <<script, conn, live, job, socks, viewer, synced, touched>>
      /\ flags' = [flags EXCEPT ![c] = NoFlags]
  BY DEF NextLine
<1> QED BY <1>1, <1>2, <1>3, FlagsOnly

LEMMA PressStep ==
  ASSUME Inv, NEW c \in Clients, Press(c)
  PROVE  ClientStep(c)
<1>1. PerClient /\ flags[c] \in FlagType /\ pressed[c] \in 0..MaxAborts
  BY DEF Inv, ScriptOK
<1>2. MaxAborts \in Nat
  BY SessionAssumption DEF SessionAssumption
<1> DEFINE fl == [flags[c] EXCEPT !.signal = TRUE]
<1>3. fl \in FlagType /\ pressed[c] + 1 \in 0..MaxAborts
  <2>1. fl \in FlagType
    BY <1>1 DEF FlagType
  <2>2. pressed[c] < MaxAborts
    BY DEF Press
  <2> QED BY <1>1, <1>2, <2>1, <2>2
<1>4. /\ UNCHANGED <<script, conn, live, job, socks, viewer, synced, touched>>
      /\ flags' = [flags EXCEPT ![c] = fl] /\ pressed' = [pressed EXCEPT ![c] = pressed[c] + 1]
  BY <1>1 DEF Press, PerClient
<1> HIDE DEF fl
<1> QED BY <1>3, <1>4, FlagsOnly

-----------------------------------------------------------------------------
(***************************************************************************)
(* The work of a job.                                                      *)
(***************************************************************************)
LEMMA WorkIs ==
  ASSUME Inv, NEW c \in Clients, ~Idle(c)
  PROVE  /\ job[c] \in JobType /\ job[c].kind # "none" /\ JobFits(job[c], conn[c], live[c])
         /\ job[c].sock \in DOMAIN socks /\ job[c].sock # 0
         /\ socks[job[c].sock] \in SockType /\ socks[job[c].sock].owner = c
         /\ socks[job[c].sock].held
         /\ WireFits(socks[job[c].sock])
         /\ InStep(socks[job[c].sock], job[c].sock, job[c], wiping[c])
         /\ socks \in Seq(SockType) /\ DOMAIN socks = 1..Len(socks) /\ Len(socks) \in Nat
         /\ wiping[c] \in Nat /\ ids[c] \in Nat
<1>1. LinkOK(c) /\ ScriptOK(c) /\ socks \in Seq(SockType) /\ \A s \in DOMAIN socks : SockOK(s)
  BY DEF Inv
<1>2. /\ JobFits(job[c], conn[c], live[c])
      /\ job[c].sock # 0 => Holds(c, job[c].sock, socks)
  BY <1>1 DEF LinkOK
<1>3. job[c] \in JobType /\ job[c].kind # "none" /\ job[c].sock # 0
  BY <1>2 DEF JobFits, Idle
<1>4. Holds(c, job[c].sock, socks) /\ SockOK(job[c].sock)
  BY <1>1, <1>2, <1>3 DEF Holds
<1>5. /\ job[c].sock \in DOMAIN socks /\ socks[job[c].sock].owner = c /\ socks[job[c].sock].held
      /\ WireFits(socks[job[c].sock])
      /\ InStep(socks[job[c].sock], job[c].sock, job[c], wiping[c])
  BY <1>4 DEF Holds, SockOK
<1>6. MaxStatements \in Nat /\ MaxCloseAlls \in Nat
  BY SessionAssumption DEF SessionAssumption
<1>7. wiping[c] \in Nat /\ ids[c] \in Nat
  BY <1>1, <1>6 DEF ScriptOK
<1> QED BY <1>1, <1>2, <1>3, <1>5, <1>7

(* Connections of the script that its job does not use.                    *)
LEMMA OtherSocks ==
  ASSUME Inv, NEW c \in Clients, ~Idle(c),
         job'[c].sock \in {0, job[c].sock}, wiping'[c] = wiping[c],
         socks' \in Seq(SockType), Len(socks') = Len(socks),
         \A t \in DOMAIN socks : /\ socks'[t].owner = socks[t].owner
                                 /\ t # job[c].sock => socks'[t] = socks[t] \/ ~socks'[t].held,
         \A t \in DOMAIN socks : socks[t].owner # c => socks'[t] = socks[t],
         \A t \in DOMAIN socks : ~socks'[t].held => WireFits(socks'[t]),
         NEW s, s = job[c].sock,
         socks'[s].held => WireFits(socks'[s]) /\ InStep(socks'[s], s, job'[c], wiping[c])
  PROVE  /\ SocksMove(c)
         /\ \A t \in DOMAIN socks' : socks'[t].owner = c => SockOK(t)'
<1>1. /\ DOMAIN socks = 1..Len(socks) /\ DOMAIN socks' = DOMAIN socks /\ Len(socks) \in Nat
      /\ wiping[c] \in Nat
  BY WorkIs
<1>2. SocksMove(c)
  BY <1>1 DEF SocksMove
<1>3. ASSUME NEW t \in DOMAIN socks', socks'[t].owner = c, ~socks'[t].held PROVE SockOK(t)'
  BY <1>1, <1>3 DEF SockOK, InStep
<1>4. ASSUME NEW t \in DOMAIN socks', socks'[t].owner = c, socks'[t].held, t = s PROVE SockOK(t)'
  BY <1>1, <1>4 DEF SockOK
<1>5. ASSUME NEW t \in DOMAIN socks', socks'[t].owner = c, socks'[t].held, t # s PROVE SockOK(t)'
  <2>1. socks'[t] = socks[t] /\ SockOK(t) /\ t # 0
    BY <1>1, <1>5 DEF Inv
  <2>2. /\ Awaits(job[c], t) = 0 /\ Slack(job[c], t) = 0
        /\ Awaits(job'[c], t) = 0 /\ Slack(job'[c], t) = 0
    BY <1>5, <2>1 DEF Awaits, Slack
  <2> QED BY <1>5, <2>1, <2>2 DEF SockOK, InStep
<1> QED BY <1>2, <1>3, <1>4, <1>5

(* The job ends, and its connection is left as it is or let go.            *)
EndingSocks(c) ==
  /\ socks' \in Seq(SockType) /\ Len(socks') = Len(socks)
  /\ \A t \in DOMAIN socks : t # job[c].sock => socks'[t] = socks[t]
  /\ \/ /\ socks'[job[c].sock] = socks[job[c].sock]
        /\ socks[job[c].sock].served => ~job[c].waiting /\ Slack(job[c], job[c].sock) = 0
     \/ /\ socks'[job[c].sock].owner = c
        /\ ~socks'[job[c].sock].held /\ WireFits(socks'[job[c].sock])
        /\ job[c].sock \notin {conn'[c].sock, live'[c].sock}

Ending(c) ==
  /\ PerClient' /\ Others(c) /\ ~Idle(c)
  /\ said'[c] = said[c] /\ wiping'[c] = wiping[c] /\ store'[c] = store[c]
  /\ handles'[c] = handles[c] /\ pressed'[c] = pressed[c] /\ ids'[c] = ids[c]
  /\ current'[c] \in {current[c], [current[c] EXCEPT !.output = Terminal]}
  /\ job'[c] = NoJob /\ flags'[c] \in FlagType /\ synced'[c] \in Contents
  /\ conn'[c] \in {conn[c], NoConn}
  /\ live'[c] = live[c]
       \/ (live'[c] = [live[c] EXCEPT !.sock = 0] /\ live[c].win # Terminal)
  /\ EndingSocks(c)
  /\ UNCHANGED <<viewer, touched>>

LEMMA FiguresWider ==
  ASSUME Inv, NEW c \in Clients
  PROVE  /\ FiguresFit(store[c], current[c], handles[c], Outs(c, ids[c]), live[c].win)
         /\ Terminal \in Outs(c, ids[c]) /\ ids[c] \in Nat /\ handles[c] \in Nat
<1>1. MaxStatements \in Nat /\ MaxHandles \in Nat
  BY SessionAssumption DEF SessionAssumption
<1>2. ScriptOK(c)
  BY DEF Inv
<1>3. said[c] \in Nat /\ ids[c] \in Nat /\ handles[c] \in Nat /\ handles[c] <= handles[c]
  BY <1>1, <1>2 DEF ScriptOK
<1>4. Taken(c) \in Int /\ Taken(c) <= ids[c]
  BY <1>3 DEF Taken
<1>5. FiguresFit(store[c], current[c], handles[c], Outs(c, Taken(c)), live[c].win)
  BY <1>2 DEF ScriptOK
<1>6. Outs(c, Taken(c)) \subseteq Outs(c, ids[c])
  BY <1>3, <1>4, OutsGrow
<1>7. /\ StoreFits(store[c], handles[c], Outs(c, ids[c]), live[c].win)
      /\ CurrentFits(store[c], current[c], handles[c], Outs(c, ids[c]), live[c].win)
  BY <1>3, <1>5, <1>6, StoreWider, CurrentWider DEF FiguresFit
<1> QED BY <1>3, <1>7, FreshWindow DEF FiguresFit

LEMMA EndingStep ==
  ASSUME Inv, NEW c \in Clients, Ending(c)
  PROVE  ClientStep(c)
<1> DEFINE s == job[c].sock
<1>1. /\ ~Idle(c) /\ EndingSocks(c) /\ job'[c] = NoJob /\ wiping'[c] = wiping[c]
      /\ NoJob.sock = 0 /\ ~NoJob.waiting /\ NoJob.kind = "none"
  BY NoJobIs DEF Ending
<1>2. /\ s \in DOMAIN socks /\ s # 0 /\ socks[s] \in SockType /\ socks[s].owner = c /\ socks[s].held
      /\ WireFits(socks[s]) /\ InStep(socks[s], s, job[c], wiping[c])
      /\ socks \in Seq(SockType) /\ DOMAIN socks = 1..Len(socks) /\ wiping[c] \in Nat
  BY <1>1, WorkIs
<1> HIDE DEF s
<1>3. /\ SocksMove(c)
      /\ \A t \in DOMAIN socks' : socks'[t].owner = c => SockOK(t)'
  <2>1. \A t \in DOMAIN socks : WireFits(socks[t])
    BY DEF Inv, SockOK
  <2>2. /\ socks' \in Seq(SockType) /\ Len(socks') = Len(socks)
        /\ \A t \in DOMAIN socks : t # s => socks'[t] = socks[t]
        /\ \/ socks'[s] = socks[s] /\ (socks[s].served => ~job[c].waiting /\ Slack(job[c], s) = 0)
           \/ socks'[s].owner = c /\ ~socks'[s].held /\ WireFits(socks'[s])
    BY <1>1 DEF EndingSocks, s
  <2>3. \A t \in DOMAIN socks : /\ socks'[t].owner = socks[t].owner
                                /\ t # s => socks'[t] = socks[t] \/ ~socks'[t].held
    BY <1>2, <2>2
  <2>4. \A t \in DOMAIN socks : socks[t].owner # c => socks'[t] = socks[t]
    BY <1>2, <2>2
  <2>5. \A t \in DOMAIN socks : ~socks'[t].held => WireFits(socks'[t])
    BY <1>2, <2>1, <2>2
  <2>6. socks'[s].held => WireFits(socks'[s]) /\ InStep(socks'[s], s, job'[c], wiping[c])
    <3>1. Awaits(job'[c], s) = 0 /\ Slack(job'[c], s) = 0
      BY <1>1, <1>2 DEF Awaits, Slack
    <3>2. ~job[c].waiting => Awaits(job[c], s) = 0
      BY DEF Awaits
    <3> QED BY <1>2, <2>2, <3>1, <3>2 DEF InStep
  <2>7. s = job[c].sock /\ job'[c].sock \in {0, job[c].sock}
    BY <1>1 DEF s
  <2> QED BY <1>1, <2>2, <2>3, <2>4, <2>5, <2>6, <2>7, OtherSocks
<1>4. live'[c].win = live[c].win
  BY DEF Ending, Inv, LinkOK, LiveFits
<1>5. ScriptOK(c)'
  <2>1. /\ ScriptOK(c) /\ Taken(c)' = ids'[c]
    BY <1>1 DEF Inv, Taken
  <2>2. FiguresFit(store[c], current'[c], handles[c], Outs(c, ids[c]), live[c].win)
    BY FiguresWider, OutputLost DEF Ending
  <2> QED BY <1>1, <1>4, <2>1, <2>2 DEF ScriptOK, Ending
<1>6. LinkOK(c)'
  <2>1. /\ ConnFits(conn[c], Outs(c, ids[c])) /\ LiveFits(live[c], Outs(c, ids[c]))
        /\ \A t \in {conn[c].sock, live[c].sock} : t # 0 => Holds(c, t, socks)
        /\ conn[c].sock # 0 => conn[c].sock # live[c].sock
    BY DEF Inv, LinkOK
  <2>2. ConnFits(conn'[c], Outs(c, ids'[c])) /\ conn'[c].sock \in {0, conn[c].sock}
    BY <2>1, FiguresWider, NoConnFits DEF Ending
  <2>3. LiveFits(live'[c], Outs(c, ids'[c])) /\ live'[c].sock \in {0, live[c].sock}
    BY <2>1 DEF Ending, LiveFits
  <2>4. JobFits(job'[c], conn'[c], live'[c])
    BY <1>1, NoJobFits
  <2>5. ASSUME NEW t \in {conn'[c].sock, live'[c].sock}, t # 0 PROVE Holds(c, t, socks')
    <3>1. Holds(c, t, socks)
      BY <2>1, <2>2, <2>3, <2>5
    <3>2. socks'[t] = socks[t]
      BY <1>1, <2>5, <3>1 DEF EndingSocks, Holds
    <3>3. DOMAIN socks' = DOMAIN socks
      BY <1>1, <1>2 DEF EndingSocks
    <3> QED BY <3>1, <3>2, <3>3 DEF Holds
  <2> QED BY <1>1, <2>1, <2>2, <2>3, <2>4, <2>5 DEF LinkOK
<1> QED BY <1>3, <1>5, <1>6 DEF ClientStep, Ending

LEMMA DroppedEnds ==
  ASSUME Inv, NEW c \in Clients, ~Idle(c),
         NEW s, s = job[c].sock, NEW ss \in Seq(SockType), Len(ss) = Len(socks),
         \A t \in DOMAIN socks : t # s => ss[t] = socks[t], ss[s].owner = c,
         \A i \in DOMAIN ss[s].wire : ss[s].wire[i] = Cut => i = Len(ss[s].wire),
         socks' = Drop(ss, s), s \notin {conn'[c].sock, live'[c].sock}
  PROVE  EndingSocks(c)
<1>1. s \in DOMAIN socks /\ s # 0 /\ DOMAIN socks = 1..Len(socks)
  BY WorkIs
<1>2. s \in DOMAIN ss /\ DOMAIN ss = DOMAIN socks
  BY <1>1
<1>3. /\ socks' \in Seq(SockType) /\ Len(socks') = Len(ss)
      /\ \A t \in DOMAIN ss : t # s => socks'[t] = ss[t]
      /\ socks'[s].owner = ss[s].owner /\ ~socks'[s].held /\ WireFits(socks'[s])
  <2>1. s \in DOMAIN ss \cup {0}
    BY <1>2
  <2>2. /\ Drop(ss, s) \in Seq(SockType) /\ Len(Drop(ss, s)) = Len(ss)
        /\ \A t \in DOMAIN ss : /\ Drop(ss, s)[t].owner = ss[t].owner
                                /\ t # s => Drop(ss, s)[t] = ss[t]
        /\ ~Drop(ss, s)[s].held /\ WireFits(Drop(ss, s)[s])
    BY <1>1, <2>1, DropEffect
  <2> QED BY <1>2, <2>2
<1> QED BY <1>2, <1>3 DEF EndingSocks

LEMMA LetGoEnds ==
  ASSUME Inv, NEW c \in Clients, ~Idle(c),
         socks' = Drop(socks, job[c].sock), job[c].sock \notin {conn'[c].sock, live'[c].sock}
  PROVE  EndingSocks(c)
<1>1. PICK s : s = job[c].sock
  OBVIOUS
<1>2. /\ socks \in Seq(SockType) /\ socks[s].owner = c
      /\ \A i \in DOMAIN socks[s].wire : socks[s].wire[i] = Cut => i = Len(socks[s].wire)
  BY <1>1, WorkIs DEF WireFits
<1> QED BY <1>1, <1>2, DroppedEnds

(* Part of a frame goes out first.                                         *)
CutShort(s) == [socks EXCEPT ![s].wire = Append(@, Cut)]

LEMMA CutShortIs ==
  ASSUME Inv, NEW c \in Clients, ~Idle(c), NEW s, s = job[c].sock
  PROVE  /\ CutShort(s) \in Seq(SockType) /\ Len(CutShort(s)) = Len(socks)
         /\ \A t \in DOMAIN socks : t # s => CutShort(s)[t] = socks[t]
         /\ CutShort(s)[s].owner = c
         /\ \A i \in DOMAIN CutShort(s)[s].wire :
              CutShort(s)[s].wire[i] = Cut => i = Len(CutShort(s)[s].wire)
<1>1. /\ s \in DOMAIN socks /\ socks \in Seq(SockType) /\ socks[s] \in SockType
      /\ socks[s].owner = c /\ \A i \in DOMAIN socks[s].wire : socks[s].wire[i] # Cut
  BY WorkIs DEF WireFits
<1> DEFINE w == socks[s].wire
           new == [socks[s] EXCEPT !.wire = Append(w, Cut)]
<1>2. w \in Seq(Frames \cup {Cut}) /\ Cut \in Frames \cup {Cut}
  BY <1>1 DEF SockType
<1>3. /\ Append(w, Cut) \in Seq(Frames \cup {Cut})
      /\ \A i \in DOMAIN Append(w, Cut) : Append(w, Cut)[i] = Cut => i = Len(Append(w, Cut))
  <2>0. PICK T : T = Frames \cup {Cut}
    OBVIOUS
  <2>1. PICK x \in T, q \in Seq(T) : T = Frames \cup {Cut} /\ x = Cut /\ q = w
    BY <1>2, <2>0
  <2>2. /\ Append(q, x) \in Seq(T) /\ Len(Append(q, x)) = Len(q) + 1 /\ Len(q) \in Nat
        /\ DOMAIN q = 1..Len(q) /\ DOMAIN Append(q, x) = 1..(Len(q) + 1)
        /\ Append(q, x)[Len(q) + 1] = x
        /\ \A i \in DOMAIN q : Append(q, x)[i] = q[i]
    BY Appended
  <2>3. \A i \in DOMAIN q : q[i] # x
    BY <1>1, <2>1
  <2>4. \A i \in DOMAIN Append(q, x) : Append(q, x)[i] = x => i = Len(Append(q, x))
    BY <2>2, <2>3
  <2> QED BY <2>1, <2>2, <2>4
<1>4. new \in SockType /\ new.owner = c /\ new.wire = Append(w, Cut)
  BY <1>1, <1>3 DEF SockType
<1>5. CutShort(s) = [socks EXCEPT ![s] = new]
  BY <1>1 DEF CutShort
<1> HIDE DEF new
<1>6. /\ CutShort(s) \in Seq(SockType) /\ Len(CutShort(s)) = Len(socks)
      /\ CutShort(s)[s] = new /\ \A t \in DOMAIN socks : t # s => CutShort(s)[t] = socks[t]
  BY <1>1, <1>4, <1>5
<1> QED BY ZenonT(60), <1>3, <1>4, <1>6

LEMMA KeptEnds ==
  ASSUME Inv, NEW c \in Clients, ~Idle(c), socks' = socks,
         socks[job[c].sock].served => ~job[c].waiting /\ Slack(job[c], job[c].sock) = 0
  PROVE  EndingSocks(c)
BY WorkIs DEF EndingSocks

(* Where the job of a guard writes to.                                     *)
LEMMA GuardedIs ==
  ASSUME Inv, NEW c \in Clients, ~Idle(c), Guarded(job[c])
  PROVE  /\ job[c].kind = "sync" =>
              /\ conn[c].sock = IF job[c].dialling THEN 0 ELSE job[c].sock
              /\ job[c].sock # live[c].sock
         /\ job[c].kind # "sync" =>
              /\ live[c].sock = IF job[c].dialling THEN 0 ELSE job[c].sock
              /\ job[c].sock # conn[c].sock /\ live[c].win # Terminal
         /\ Slack(job[c], job[c].sock) = 0
<1>1. JobFits(job[c], conn[c], live[c]) /\ job[c].sock # 0
  BY WorkIs
<1>2. conn[c].sock # 0 => conn[c].sock # live[c].sock
  BY DEF Inv, LinkOK
<1>3. Slack(job[c], job[c].sock) = 0
  BY DEF Slack, Guarded
<1> QED BY <1>1, <1>2, <1>3 DEF JobFits, Guarded

LEMMA EndFlags ==
  ASSUME NEW fl \in FlagType, NEW f \in BOOLEAN, NEW g \in BOOLEAN, NEW h \in BOOLEAN
  PROVE  [[fl EXCEPT !.sticky = g, !.partial = h] EXCEPT !.signal = f] \in FlagType
BY DEF FlagType

LEMMA StopsEnds ==
  ASSUME Inv, NEW c \in Clients, ~Idle(c), Guarded(job[c]), NEW ss, NEW partial \in BOOLEAN,
         Stops(c, ss, partial),
         \/ ss = socks /\ (socks[job[c].sock].served => partial \/ ~job[c].waiting)
         \/ ss = CutShort(job[c].sock) /\ partial
  PROVE  Ending(c)
<1> DEFINE j == job[c]
           gone == j.dialling \/ partial
<1>0. PerClient /\ j \in JobType /\ flags[c] \in FlagType /\ synced[c] \in Contents
  BY WorkIs DEF Inv, ScriptOK
<1>1. /\ socks' = IF gone THEN Drop(ss, j.sock) ELSE ss
      /\ conn' = IF gone /\ j.kind = "sync" THEN [conn EXCEPT ![c] = NoConn] ELSE conn
      /\ live' = IF gone /\ j.kind # "sync" THEN [live EXCEPT ![c].sock = 0] ELSE live
      /\ job' = [job EXCEPT ![c] = NoJob]
      /\ synced' = [synced EXCEPT ![c] = IF j.kind = "sync" THEN Blank ELSE synced[c]]
      /\ UNCHANGED <<said, wiping, store, handles, pressed, viewer, touched, current, ids>>
  BY <1>0 DEF Stops, Ends, JobStep, PerClient
<1>2. \E fl \in FlagType : flags' = [flags EXCEPT ![c] = fl]
  <2>1. flags' = [flags EXCEPT ![c] =
                    [[flags[c] EXCEPT !.sticky = TRUE, !.partial = FALSE] EXCEPT !.signal = FALSE]]
    BY DEF Stops, Ends
  <2> QED BY <1>0, <2>1, EndFlags
<1>3. PICK fl \in FlagType : flags' = [flags EXCEPT ![c] = fl]
  BY <1>2
<1> HIDE DEF gone
<1>4. /\ PerClient' /\ Others(c)
      /\ conn'[c] = IF gone /\ j.kind = "sync" THEN NoConn ELSE conn[c]
      /\ live'[c] = IF gone /\ j.kind # "sync" THEN [live[c] EXCEPT !.sock = 0] ELSE live[c]
      /\ job'[c] = NoJob /\ flags'[c] = fl /\ synced'[c] \in Contents
  BY <1>0, <1>1, <1>3, BlankType DEF PerClient, Others
<1>5. live[c] \in [sock : Nat, win : Outs(c, ids[c])]
  BY DEF Inv, LinkOK, LiveFits
<1>6. EndingSocks(c)
  <2>1. CASE ~gone
    <3>1. ~partial
      BY <2>1 DEF gone
    <3>2. socks' = socks /\ (socks[j.sock].served => ~j.waiting)
      BY <1>1, <2>1, <3>1
    <3> QED BY <3>2, GuardedIs, KeptEnds
  <2>2. CASE gone
    <3>1. j.sock \notin {conn'[c].sock, live'[c].sock}
      <4>1. j.sock # 0
        BY WorkIs
      <4>2. CASE j.kind = "sync"
        BY <1>4, <2>2, <4>1, <4>2, GuardedIs DEF NoConn
      <4>3. CASE j.kind # "sync"
        BY <1>4, <1>5, <2>2, <4>1, <4>3, GuardedIs
      <4> QED BY <4>2, <4>3
    <3>2. CASE ss = socks
      BY <1>1, <2>2, <3>1, <3>2, LetGoEnds
    <3>3. CASE ss = CutShort(j.sock)
      <4>1. PICK s : s = j.sock
        OBVIOUS
      <4> QED BY <1>1, <2>2, <3>1, <3>3, <4>1, CutShortIs, DroppedEnds
    <3> QED BY <3>2, <3>3
  <2> QED BY <2>1, <2>2
<1>7. /\ conn'[c] \in {conn[c], NoConn}
      /\ live'[c] = live[c]
           \/ (live'[c] = [live[c] EXCEPT !.sock = 0] /\ live[c].win # Terminal)
  BY <1>4, GuardedIs
<1> QED BY <1>1, <1>4, <1>6, <1>7 DEF Ending

LEMMA InterruptedEnds ==
  ASSUME Inv, NEW c \in Clients, StopBetween(c) \/ StopInFrame(c) \/ StopWaiting(c)
  PROVE  Ending(c)
<1>1. flags[c] \in FlagType
  BY DEF Inv, ScriptOK
<1>2. flags[c].partial \in BOOLEAN
  BY <1>1 DEF FlagType
<1>3. ~Idle(c) /\ Guarded(job[c])
  BY DEF StopBetween, StopInFrame, StopWaiting, Working, Requested
<1>4. CASE StopBetween(c)
  <2>1. Stops(c, socks, flags[c].partial) /\ ~job[c].waiting
    BY <1>4 DEF StopBetween
  <2> QED BY <1>2, <1>3, <2>1, StopsEnds
<1>5. CASE StopInFrame(c)
  <2>1. Stops(c, CutShort(job[c].sock), TRUE)
    BY <1>5 DEF StopInFrame, CutShort
  <2> QED BY <1>3, <2>1, StopsEnds
<1>6. CASE StopWaiting(c)
  <2>1. Stops(c, socks, TRUE)
    BY <1>6 DEF StopWaiting
  <2> QED BY <1>3, <2>1, StopsEnds
<1> QED BY <1>4, <1>5, <1>6

(* The end of a job, with whatever mark.                                   *)
LEMMA EndsIs ==
  ASSUME Inv, NEW c \in Clients, NEW fl \in FlagType, Ends(c, fl)
  PROVE  /\ job' = [job EXCEPT ![c] = NoJob]
         /\ \E g \in FlagType : flags' = [flags EXCEPT ![c] = g]
<1>1. [fl EXCEPT !.signal = FALSE] \in FlagType
  BY DEF FlagType
<1> QED BY <1>1 DEF Ends

LEMMA MarkedIs ==
  ASSUME Inv, NEW c \in Clients, MarkedOrNot(c)
  PROVE  /\ job' = [job EXCEPT ![c] = NoJob]
         /\ \E g \in FlagType : flags' = [flags EXCEPT ![c] = g]
<1>1. flags[c] \in FlagType
  BY DEF Inv, ScriptOK
<1>2. PICK mark \in BOOLEAN : Ends(c, [flags[c] EXCEPT !.partial = flags[c].partial \/ mark])
  BY DEF MarkedOrNot
<1>3. [flags[c] EXCEPT !.partial = flags[c].partial \/ mark] \in FlagType
  BY <1>1 DEF FlagType
<1> QED BY <1>2, <1>3, EndsIs

(* A job that ends and leaves the script's plots and live figure.          *)
PlainEnd(c) ==
  /\ ~Idle(c)
  /\ job' = [job EXCEPT ![c] = NoJob]
  /\ \E g \in FlagType : flags' = [flags EXCEPT ![c] = g]
  /\ JobStep(c) /\ UNCHANGED ids

LEMMA PlainEndIs ==
  ASSUME Inv, NEW c \in Clients, PlainEnd(c)
  PROVE  /\ UNCHANGED <<said, wiping, store, handles, ids, pressed, viewer, touched>>
         /\ job' = [d \in Clients |-> job'[d]] /\ job'[c] = NoJob
         /\ flags' = [d \in Clients |-> flags'[d]] /\ flags'[c] \in FlagType
         /\ \A d \in Clients \ {c} : job'[d] = job[d] /\ flags'[d] = flags[d]
         /\ ~Idle(c)
<1>1. PerClient
  BY DEF Inv
<1>2. PICK g \in FlagType : flags' = [flags EXCEPT ![c] = g]
  BY DEF PlainEnd
<1> QED BY <1>1, <1>2 DEF PlainEnd, PerClient, JobStep

LEMMA LoseSyncEnds ==
  ASSUME Inv, NEW c \in Clients, LoseSync(c)
  PROVE  Ending(c)
<1>1. PlainEnd(c) /\ Guarded(job[c]) /\ job[c].kind = "sync"
  BY MarkedIs DEF LoseSync, PlainEnd, Failed, Working, Guarded
<1>2. PerClient /\ synced[c] \in Contents
  BY DEF Inv, ScriptOK
<1>3. /\ socks' = Drop(socks, job[c].sock)
      /\ conn' = [conn EXCEPT ![c] = NoConn]
      /\ current' = [current EXCEPT ![c] = [current[c] EXCEPT !.output = Terminal]]
      /\ synced' = [synced EXCEPT ![c] = Blank]
      /\ live' = live
  BY <1>2 DEF LoseSync, PerClient
<1>4. PerClient' /\ Others(c)
  BY <1>1, <1>2, <1>3, PlainEndIs DEF PerClient, Others
<1>5. /\ conn'[c] = NoConn /\ live'[c] = live[c] /\ synced'[c] = Blank
      /\ current'[c] = [current[c] EXCEPT !.output = Terminal]
  BY <1>2, <1>3 DEF PerClient
<1>6. job[c].sock \notin {conn'[c].sock, live'[c].sock}
  BY <1>1, <1>5, PlainEndIs, GuardedIs, WorkIs DEF NoConn
<1>7. EndingSocks(c)
  BY <1>1, <1>3, <1>6, PlainEndIs, LetGoEnds
<1> QED BY <1>1, <1>4, <1>5, <1>7, PlainEndIs, BlankType DEF Ending

LEMMA LoseLiveEnds ==
  ASSUME Inv, NEW c \in Clients, LoseLive(c)
  PROVE  Ending(c)
<1>1. PlainEnd(c) /\ Guarded(job[c]) /\ job[c].kind # "sync"
  BY MarkedIs DEF LoseLive, PlainEnd, Failed, Working, Guarded
<1>2. PerClient /\ synced[c] \in Contents /\ live[c] \in [sock : Nat, win : Outs(c, ids[c])]
  BY DEF Inv, ScriptOK, LinkOK, LiveFits
<1>3. /\ socks' = Drop(socks, job[c].sock)
      /\ live' = [live EXCEPT ![c] = [live[c] EXCEPT !.sock = 0]]
      /\ UNCHANGED <<current, conn, synced>>
  BY <1>2 DEF LoseLive, PerClient
<1>4. PerClient' /\ Others(c)
  BY <1>1, <1>2, <1>3, PlainEndIs DEF PerClient, Others
<1>5. conn'[c] = conn[c] /\ live'[c] = [live[c] EXCEPT !.sock = 0] /\ live[c].win # Terminal
  BY <1>1, <1>2, <1>3, PlainEndIs, GuardedIs DEF PerClient
<1>6. job[c].sock \notin {conn'[c].sock, live'[c].sock}
  BY <1>1, <1>2, <1>5, PlainEndIs, GuardedIs, WorkIs
<1>7. EndingSocks(c)
  BY <1>1, <1>3, <1>6, PlainEndIs, LetGoEnds
<1> QED BY <1>1, <1>2, <1>3, <1>4, <1>5, <1>7, PlainEndIs DEF Ending

(* A job that ends and leaves everything but its connection.               *)
LEMMA QuietEnd ==
  ASSUME Inv, NEW c \in Clients, PlainEnd(c),
         UNCHANGED <<current, conn, live>>,
         NEW sy \in Contents, synced' = [synced EXCEPT ![c] = sy],
         \/ /\ socks' = socks
            /\ socks[job[c].sock].served => ~job[c].waiting /\ Slack(job[c], job[c].sock) = 0
         \/ /\ socks' = Drop(socks, job[c].sock)
            /\ job[c].sock \notin {conn[c].sock, live[c].sock}
  PROVE  Ending(c)
<1>1. PerClient
  BY DEF Inv
<1>2. PerClient' /\ Others(c) /\ synced'[c] = sy
  BY <1>1, PlainEndIs DEF PerClient, Others
<1>3. EndingSocks(c)
  BY PlainEndIs, KeptEnds, LetGoEnds
<1> QED BY <1>2, <1>3, PlainEndIs DEF Ending

LEMMA SyncedStays ==
  ASSUME Inv, NEW c \in Clients, synced' = synced
  PROVE  synced' = [synced EXCEPT ![c] = synced[c]] /\ synced[c] \in Contents
BY DEF Inv, PerClient, ScriptOK

LEMMA LoseDialEnds ==
  ASSUME Inv, NEW c \in Clients, LoseDial(c)
  PROVE  Ending(c)
<1>1. flags[c] \in FlagType
  BY DEF Inv, ScriptOK
<1>2. [flags[c] EXCEPT !.sticky = TRUE, !.partial = FALSE] \in FlagType
  BY <1>1 DEF FlagType
<1>3. /\ job' = [job EXCEPT ![c] = NoJob]
      /\ \E g \in FlagType : flags' = [flags EXCEPT ![c] = g]
  <2>1. \/ Ends(c, [flags[c] EXCEPT !.sticky = TRUE, !.partial = FALSE])
        \/ MarkedOrNot(c)
    BY DEF LoseDial
  <2> QED BY <1>2, <2>1, EndsIs, MarkedIs
<1>4. PlainEnd(c) /\ job[c].dialling /\ ~Idle(c)
  BY <1>3 DEF LoseDial, PlainEnd, Failed, Working
<1>5. socks' = Drop(socks, job[c].sock) /\ UNCHANGED <<current, conn, live, synced>>
  BY DEF LoseDial
<1>6. job[c].sock \notin {conn[c].sock, live[c].sock}
  BY <1>4, WorkIs DEF JobFits
<1> QED BY <1>4, <1>5, <1>6, SyncedStays, QuietEnd

LEMMA LoseTellEnds ==
  ASSUME Inv, NEW c \in Clients, LoseTell(c)
  PROVE  Ending(c)
<1>1. PlainEnd(c) /\ ~Idle(c) /\ ~socks[job[c].sock].served
  BY MarkedIs DEF LoseTell, PlainEnd, Failed, Working, Wire
<1>2. /\ socks' = IF job[c].kind = "part" THEN Drop(socks, job[c].sock) ELSE socks
      /\ UNCHANGED <<current, conn, live, synced>>
  BY DEF LoseTell
<1>3. job[c].kind = "part" => job[c].sock \notin {conn[c].sock, live[c].sock}
  BY <1>1, WorkIs DEF JobFits
<1> QED BY <1>1, <1>2, <1>3, SyncedStays, QuietEnd

(* All messages of a job are out.                                          *)
LEMMA FinishedIs ==
  ASSUME Inv, NEW c \in Clients, NEW kinds, NEW dialling, Finished(c, kinds, dialling)
  PROVE  /\ ~Idle(c) /\ job[c].todo = <<>> /\ job[c].kind \in kinds /\ job[c].dialling = dialling
         /\ ~job[c].waiting /\ Slack(job[c], job[c].sock) = 0
<1>1. ~Idle(c) /\ job[c].todo = <<>> /\ job[c].kind \in kinds /\ job[c].dialling = dialling
  BY DEF Finished
<1>2. ~job[c].waiting
  BY <1>1, WorkIs DEF JobFits
<1>3. job[c].todo # <<Reset>>
  BY <1>1
<1> QED BY <1>1, <1>2, <1>3 DEF Slack

LEMMA SyncedEnds ==
  ASSUME Inv, NEW c \in Clients, Synced(c)
  PROVE  Ending(c)
<1>1. ~Idle(c) /\ ~job[c].waiting /\ Slack(job[c], job[c].sock) = 0
  BY FinishedIs DEF Synced
<1>2. flags[c] \in FlagType /\ Ends(c, flags[c])
  BY DEF Inv, ScriptOK, Synced
<1>3. PlainEnd(c)
  BY <1>1, <1>2, EndsIs DEF Synced, PlainEnd
<1>4. current[c].content \in Contents
  BY FiguresWider DEF FiguresFit, CurrentFits
<1>5. socks' = socks /\ UNCHANGED <<current, conn, live>>
      /\ synced' = [synced EXCEPT ![c] = current[c].content]
  BY DEF Synced
<1> QED BY <1>1, <1>3, <1>4, <1>5, QuietEnd

LEMMA LiveSentEnds ==
  ASSUME Inv, NEW c \in Clients, LiveSent(c)
  PROVE  Ending(c)
<1>1. /\ ~Idle(c) /\ ~job[c].waiting /\ Slack(job[c], job[c].sock) = 0
      /\ job[c].kind \in {"update", "draw"}
  BY FinishedIs DEF LiveSent
<1>2. flags[c] \in FlagType
  BY DEF Inv, ScriptOK
<1>3. CASE Stops(c, socks, flags[c].partial)
  <2>1. flags[c].partial \in BOOLEAN
    BY <1>2 DEF FlagType
  <2> QED BY <1>1, <1>3, <2>1, StopsEnds DEF Guarded
<1>4. CASE Ends(c, flags[c]) /\ JobStep(c) /\ UNCHANGED <<current, ids, conn, live, socks, synced>>
  <2>1. PlainEnd(c)
    BY <1>1, <1>2, <1>4, EndsIs DEF PlainEnd
  <2> QED BY <1>1, <1>4, <2>1, SyncedStays, QuietEnd
<1> QED BY <1>3, <1>4 DEF LiveSent

LEMMA ToldEnds ==
  ASSUME Inv, NEW c \in Clients, Told(c)
  PROVE  Ending(c)
<1>1. ~Idle(c) /\ ~job[c].waiting /\ Slack(job[c], job[c].sock) = 0
  BY FinishedIs DEF Told
<1>2. flags[c] \in FlagType /\ Ends(c, flags[c])
  BY DEF Inv, ScriptOK, Told
<1>3. PlainEnd(c)
  BY <1>1, <1>2, EndsIs DEF Told, PlainEnd
<1>4. /\ socks' = IF job[c].kind = "part" THEN Drop(socks, job[c].sock) ELSE socks
      /\ UNCHANGED <<current, conn, live, synced>>
  BY DEF Told
<1>5. job[c].kind = "part" => job[c].sock \notin {conn[c].sock, live[c].sock}
  BY <1>1, WorkIs DEF JobFits
<1> QED BY <1>1, <1>3, <1>4, <1>5, SyncedStays, QuietEnd

(* A job goes on, on its connection.                                       *)
WorkStep(c) ==
  /\ PerClient' /\ Others(c) /\ ~Idle(c)
  /\ said'[c] = said[c] /\ wiping'[c] = wiping[c] /\ store'[c] = store[c]
  /\ current'[c] = current[c] /\ handles'[c] = handles[c] /\ ids'[c] = ids[c]
  /\ live'[c] = live[c] /\ pressed'[c] = pressed[c] /\ synced'[c] = synced[c]
  /\ flags'[c] \in FlagType
  /\ ConnFits(conn'[c], Outs(c, ids[c])) /\ conn'[c].sock = conn[c].sock
  /\ JobFits(job'[c], conn'[c], live[c])
  /\ job'[c].sock = job[c].sock /\ job'[c].kind = job[c].kind
  /\ job'[c].dialling = job[c].dialling
  /\ \E new \in SockType :
       /\ socks' = [socks EXCEPT ![job[c].sock] = new]
       /\ new.owner = c /\ new.held /\ WireFits(new)
       /\ InStep(new, job[c].sock, job'[c], wiping[c])
  /\ UNCHANGED <<viewer, touched>>

LEMMA WorkStepStep ==
  ASSUME Inv, NEW c \in Clients, WorkStep(c)
  PROVE  ClientStep(c)
<1>1. PICK s : s = job[c].sock
  OBVIOUS
<1>2. /\ ~Idle(c) /\ wiping'[c] = wiping[c] /\ job'[c].sock = s
  BY <1>1 DEF WorkStep
<1>3. /\ s \in DOMAIN socks /\ s # 0 /\ socks[s].owner = c /\ socks[s].held
      /\ socks \in Seq(SockType) /\ DOMAIN socks = 1..Len(socks)
  BY <1>1, <1>2, WorkIs
<1>4. PICK new \in SockType :
        /\ socks' = [socks EXCEPT ![s] = new]
        /\ new.owner = c /\ new.held /\ WireFits(new) /\ InStep(new, s, job'[c], wiping[c])
  BY <1>1 DEF WorkStep
<1>5. /\ socks' \in Seq(SockType) /\ Len(socks') = Len(socks) /\ DOMAIN socks' = DOMAIN socks
      /\ socks'[s] = new /\ \A t \in DOMAIN socks : t # s => socks'[t] = socks[t]
  BY <1>3, <1>4
<1>6. /\ SocksMove(c) /\ \A t \in DOMAIN socks' : socks'[t].owner = c => SockOK(t)'
  <2>1. /\ \A t \in DOMAIN socks : /\ socks'[t].owner = socks[t].owner
                                   /\ t # s => socks'[t] = socks[t] \/ ~socks'[t].held
        /\ \A t \in DOMAIN socks : socks[t].owner # c => socks'[t] = socks[t]
    BY <1>3, <1>4, <1>5
  <2>2. \A t \in DOMAIN socks : ~socks'[t].held => WireFits(socks'[t])
    BY <1>4, <1>5 DEF Inv, SockOK
  <2>3. WireFits(socks'[s]) /\ InStep(socks'[s], s, job'[c], wiping[c])
    BY <1>4, <1>5
  <2> QED BY <1>1, <1>2, <1>5, <2>1, <2>2, <2>3, OtherSocks
<1>7. ScriptOK(c)'
  BY DEF Inv, ScriptOK, Taken, WorkStep
<1>8. LinkOK(c)'
  <2>1. LinkOK(c)
    BY DEF Inv
  <2>2. ASSUME NEW t, Holds(c, t, socks) PROVE Holds(c, t, socks')
    BY <1>4, <1>5, <2>2 DEF Holds
  <2>3. /\ job'[c].sock = job[c].sock /\ conn'[c].sock = conn[c].sock /\ live'[c] = live[c]
        /\ ids'[c] = ids[c] /\ ConnFits(conn'[c], Outs(c, ids[c]))
        /\ JobFits(job'[c], conn'[c], live[c])
    BY DEF WorkStep
  <2>4. \A t \in {job'[c].sock, conn'[c].sock, live'[c].sock} : t # 0 => Holds(c, t, socks')
    BY <2>1, <2>2, <2>3 DEF LinkOK
  <2> QED BY <2>1, <2>3, <2>4 DEF LinkOK
<1> QED BY <1>6, <1>7, <1>8 DEF ClientStep, WorkStep

LEMMA PoppedFits ==
  ASSUME NEW j, NEW k, NEW l, JobFits(j, k, l), j.todo # <<>>, NEW k2, k2.sock = k.sock
  PROVE  /\ JobFits(Popped(j), k2, l) /\ Popped(j).sock = j.sock /\ Popped(j).kind = j.kind
         /\ Popped(j).dialling = j.dialling /\ ~Popped(j).waiting
         /\ j.kind = "tell" => Popped(j).todo # <<Reset>>
<1>1. j \in JobType /\ j.todo \in Seq(Frames)
  BY DEF JobFits, JobType
<1>2. /\ Tail(j.todo) \in Seq(Frames)
      /\ Len(j.todo) <= 1 => Tail(j.todo) = <<>>
      /\ \A i \in DOMAIN Tail(j.todo) : i + 1 \in DOMAIN j.todo /\ Tail(j.todo)[i] = j.todo[i + 1]
  BY <1>1
<1>3. /\ Popped(j) \in JobType /\ Popped(j).sock = j.sock /\ Popped(j).kind = j.kind
      /\ Popped(j).dialling = j.dialling /\ ~Popped(j).waiting /\ Popped(j).todo = Tail(j.todo)
  <2>1. ASSUME NEW v \in Seq(Frames), NEW p, p = [j EXCEPT !.todo = v, !.waiting = FALSE]
        PROVE  /\ p \in JobType /\ p.sock = j.sock /\ p.kind = j.kind
               /\ p.dialling = j.dialling /\ ~p.waiting /\ p.todo = v
    BY <1>1, <2>1 DEF JobType
  <2>2. Popped(j) = [j EXCEPT !.todo = Tail(j.todo), !.waiting = FALSE]
    BY DEF Popped
  <2> QED BY <1>2, <2>1, <2>2
<1>4. j.kind = "tell" => Tail(j.todo) = <<>> /\ <<>> # <<Reset>> /\ Len(<<>>) <= 1
  BY <1>1, <1>2 DEF JobFits
<1>5. j.kind = "part" => \A i \in DOMAIN Tail(j.todo) : Tail(j.todo)[i] # Reset
  BY <1>2 DEF JobFits
<1>6. Popped(j).kind # "none"
  <2>1. NoJob.todo = <<>>
    BY DEF NoJob
  <2> QED BY <1>3, <2>1 DEF JobFits
<1> QED BY <1>1, <1>3, <1>4, <1>5, <1>6 DEF JobFits

LEMMA WaitingFits ==
  ASSUME NEW j, NEW k, NEW l, JobFits(j, k, l), j.todo # <<>>
  PROVE  LET w == [j EXCEPT !.waiting = TRUE] IN
         /\ JobFits(w, k, l) /\ w.sock = j.sock /\ w.kind = j.kind
         /\ w.dialling = j.dialling /\ w.waiting /\ w.todo = j.todo
<1> DEFINE w == [j EXCEPT !.waiting = TRUE]
<1>1. j \in JobType
  BY DEF JobFits
<1>2. /\ w \in JobType /\ w.sock = j.sock /\ w.kind = j.kind
      /\ w.dialling = j.dialling /\ w.waiting /\ w.todo = j.todo
  BY <1>1 DEF JobType
<1> HIDE DEF w
<1>3. w.kind # "none"
  <2>1. NoJob.todo = <<>>
    BY DEF NoJob
  <2> QED BY <1>2, <2>1 DEF JobFits
<1>4. JobFits(w, k, l)
  BY <1>2, <1>3 DEF JobFits
<1> QED BY <1>2, <1>4 DEF w

(* The frame at the head of a job, and its answer.                         *)
LEMMA HeadIs ==
  ASSUME Inv, NEW c \in Clients, Working(c), ~job[c].waiting,
         NEW m, m = Head(job[c].todo), NEW s, s = job[c].sock
  PROVE  /\ m \in Frames
         /\ Awaited(job[c], m) => Answered(m) /\ Slack(job[c], s) = 0
         /\ ~Awaited(job[c], m) /\ Answered(m) => Slack(job[c], s) = 1
<1>1. /\ JobFits(job[c], conn[c], live[c]) /\ job[c].todo \in Seq(Frames) /\ job[c].todo # <<>>
  BY WorkIs DEF Working, JobType
<1>2. m \in Frames /\ (Len(job[c].todo) <= 1 => job[c].todo = <<m>>)
  BY <1>1
<1>3. m.type = "Reset" <=> m = Reset
  BY <1>2, FramesAre
<1>4. CASE Awaited(job[c], m)
  <2>1. Answered(m)
    BY <1>4 DEF Awaited, Answered
  <2>2. job[c].kind = "tell" => m # Reset
    BY <1>3, <1>4 DEF Awaited, Reset, Message
  <2>3. job[c].kind = "tell" => job[c].todo # <<Reset>>
    BY <1>1, <2>2
  <2> QED BY <1>2, <1>4, <2>1, <2>3 DEF Slack
<1>5. CASE ~Awaited(job[c], m) /\ Answered(m)
  <2>1. m = Reset /\ job[c].kind = "tell"
    BY <1>3, <1>5 DEF Awaited, Answered
  <2>2. job[c].todo = <<Reset>>
    BY <1>1, <1>2, <2>1 DEF JobFits
  <2> QED BY <1>2, <1>5, <2>1, <2>2 DEF Slack
<1> QED BY <1>2, <1>4, <1>5

LEMMA SendWorks ==
  ASSUME Inv, NEW c \in Clients, Send(c)
  PROVE  WorkStep(c)
<1> DEFINE m == Head(job[c].todo)
           s == job[c].sock
           sk == socks[s]
           new == [sk EXCEPT !.wire = Append(sk.wire, m)]
           j == IF Awaited(job[c], m) THEN [job[c] EXCEPT !.waiting = TRUE] ELSE Popped(job[c])
<1>1. /\ Working(c) /\ ~job[c].waiting /\ ~Idle(c) /\ job[c].todo # <<>>
      /\ PerClient
  BY DEF Send, Working, Inv
<1>2. /\ JobFits(job[c], conn[c], live[c]) /\ s \in DOMAIN socks /\ sk \in SockType
      /\ sk.owner = c /\ sk.held /\ WireFits(sk) /\ InStep(sk, s, job[c], wiping[c])
      /\ socks \in Seq(SockType) /\ wiping[c] \in Nat
  BY <1>1, WorkIs
<1>3. /\ socks' = [socks EXCEPT ![s] = new] /\ job' = [job EXCEPT ![c] = j]
      /\ UNCHANGED <<said, wiping, store, handles, pressed, viewer, touched, current, ids,
                     conn, live, flags, synced>>
  BY <1>1, <1>2 DEF Send, JobStep, PerClient
<1>4. /\ m \in Frames
      /\ Awaited(job[c], m) => Answered(m) /\ Slack(job[c], s) = 0
      /\ ~Awaited(job[c], m) /\ Answered(m) => Slack(job[c], s) = 1
  BY <1>1, HeadIs
<1>5. /\ JobFits(j, conn[c], live[c]) /\ j.sock = s /\ j.kind = job[c].kind
      /\ j.dialling = job[c].dialling
      /\ Awaited(job[c], m) => j.waiting /\ j.todo = job[c].todo
      /\ ~Awaited(job[c], m) => ~j.waiting /\ (j.kind = "tell" => j.todo # <<Reset>>)
  BY <1>1, <1>2, WaitingFits, PoppedFits
<1> HIDE DEF j
<1>6. /\ new \in SockType /\ new.owner = c /\ new.held /\ new.wire = Append(sk.wire, m)
      /\ new.replies = sk.replies /\ new.owed = sk.owed /\ new.served = sk.served
      /\ sk.wire \in Seq(Frames \cup {Cut})
  <2>1. sk.wire \in Seq(Frames \cup {Cut})
    BY <1>2 DEF SockType
  <2>2. Append(sk.wire, m) \in Seq(Frames \cup {Cut})
    BY <1>4, <2>1
  <2> QED BY <1>2, <2>1, <2>2 DEF SockType
<1> HIDE DEF new, m
<1>7. WireFits(new)
  <2>1. \A i \in DOMAIN sk.wire : sk.wire[i] # Cut
    BY <1>2 DEF WireFits
  <2>2. m # Cut
    BY <1>4, FramesAre
  <2>3. \A i \in DOMAIN new.wire : new.wire[i] # Cut
    BY <1>6, <2>1, <2>2
  <2> QED BY <2>3 DEF WireFits
<1>8. InStep(new, s, j, wiping[c])
  <2>1. Due(new) = Due(sk) + (IF Answered(m) THEN 1 ELSE 0) /\ Due(sk) \in Nat
    <3>1. Answers(new.wire) = Answers(sk.wire) + (IF Answered(m) THEN 1 ELSE 0)
      BY <1>4, <1>6, AnswersAppend
    <3>2. Len(sk.replies) \in Nat /\ Answers(sk.wire) \in Nat /\ Due(sk) \in Nat
      BY <1>2, DueIsNat
    <3> DEFINE owed == IF sk.owed = "" THEN 0 ELSE 1
    <3>3. /\ Due(sk) = Len(sk.replies) + owed + Answers(sk.wire) /\ owed \in Nat
          /\ Due(new) = Len(sk.replies) + owed + Answers(new.wire)
      BY <1>6 DEF Due
    <3> HIDE DEF owed
    <3>4. PICK r \in Nat, o \in Nat, a \in Nat :
            r = Len(sk.replies) /\ o = owed /\ a = Answers(sk.wire)
      BY <3>2, <3>3
    <3>5. Due(sk) = r + o + a /\ Due(new) = r + o + Answers(new.wire)
      BY <3>3, <3>4
    <3>6. CASE Answered(m)
      <4>1. Answers(new.wire) = a + 1
        BY <3>1, <3>4, <3>6
      <4> QED BY <3>5, <3>6, <4>1
    <3>7. CASE ~Answered(m)
      <4>1. Answers(new.wire) = a
        BY <3>1, <3>4, <3>7
      <4> QED BY <3>5, <3>7, <4>1
    <3> QED BY <3>6, <3>7
  <2>2. Awaits(job[c], s) = 0
    BY <1>1 DEF Awaits
  <2>3. Slack(job[c], s) \in 0..1
    BY DEF Slack
  <2>4. CASE Awaited(job[c], m)
    <3>1. Awaits(j, s) = 1 /\ Slack(j, s) = 0
      BY <1>4, <1>5, <2>4 DEF Awaits, Slack
    <3> QED BY <1>2, <1>4, <2>1, <2>2, <2>4, <3>1, <1>6 DEF InStep
  <2>5. CASE ~Awaited(job[c], m)
    <3>1. Awaits(j, s) = 0 /\ Slack(j, s) = 0
      BY <1>5, <2>5 DEF Awaits, Slack
    <3> QED BY <1>2, <1>4, <2>1, <2>2, <2>3, <2>5, <3>1, <1>6 DEF InStep
  <2> QED BY <2>4, <2>5
<1>9. /\ PerClient' /\ Others(c) /\ job'[c] = j /\ conn'[c] = conn[c] /\ flags'[c] = flags[c]
  BY <1>1, <1>3 DEF PerClient, Others
<1>10. ConnFits(conn[c], Outs(c, ids[c])) /\ flags[c] \in FlagType
  BY DEF Inv, LinkOK, ScriptOK
<1> QED BY <1>1, <1>3, <1>5, <1>6, <1>7, <1>8, <1>9, <1>10 DEF WorkStep

LEMMA ReadReplyWorks ==
  ASSUME Inv, NEW c \in Clients, ReadReply(c)
  PROVE  WorkStep(c)
<1> DEFINE s == job[c].sock
           sk == socks[s]
           new == [sk EXCEPT !.replies = Tail(sk.replies)]
           j == Popped(job[c])
           k == [conn[c] EXCEPT !.opened =
                  conn[c].opened \/ (job[c].kind = "sync" /\ Head(job[c].todo).type = "FigureOpen")]
<1>1. /\ job[c].waiting /\ ~Idle(c) /\ job[c].todo # <<>> /\ sk.replies # <<>> /\ PerClient
  BY DEF ReadReply, Working, Wire, Inv
<1>2. /\ JobFits(job[c], conn[c], live[c]) /\ s \in DOMAIN socks /\ sk \in SockType
      /\ sk.owner = c /\ sk.held /\ WireFits(sk) /\ InStep(sk, s, job[c], wiping[c])
      /\ socks \in Seq(SockType) /\ wiping[c] \in Nat
  BY <1>1, WorkIs
<1>3. /\ socks' = [socks EXCEPT ![s] = new] /\ job' = [job EXCEPT ![c] = j]
      /\ conn' = [conn EXCEPT ![c] = k]
      /\ UNCHANGED <<said, wiping, store, handles, pressed, viewer, touched, current, ids,
                     live, flags, synced>>
  BY <1>1, <1>2 DEF ReadReply, JobStep, PerClient
<1>4. /\ ConnFits(conn[c], Outs(c, ids[c])) /\ flags[c] \in FlagType
  BY DEF Inv, LinkOK, ScriptOK
<1>5. ConnFits(k, Outs(c, ids[c])) /\ k.sock = conn[c].sock
  BY <1>4 DEF ConnFits
<1> HIDE DEF k
<1>6. /\ JobFits(j, k, live[c]) /\ j.sock = s /\ j.kind = job[c].kind
      /\ j.dialling = job[c].dialling /\ ~j.waiting /\ (j.kind = "tell" => j.todo # <<Reset>>)
  BY <1>1, <1>2, <1>5, PoppedFits
<1> HIDE DEF j
<1>7. /\ new \in SockType /\ new.owner = c /\ new.held /\ new.wire = sk.wire
      /\ new.owed = sk.owed /\ new.served = sk.served
      /\ Len(new.replies) = Len(sk.replies) - 1
  <2>1. sk.replies \in Seq(Types)
    BY <1>2 DEF SockType
  <2>2. Tail(sk.replies) \in Seq(Types) /\ Len(Tail(sk.replies)) = Len(sk.replies) - 1
    BY <1>1, <2>1
  <2> QED BY <1>2, <2>2 DEF SockType
<1> HIDE DEF new
<1>8. WireFits(new)
  BY <1>2, <1>7 DEF WireFits
<1>9. InStep(new, s, j, wiping[c])
  <2>1. Due(new) = Due(sk) - 1 /\ Due(sk) \in Nat
    <3> DEFINE owed == IF sk.owed = "" THEN 0 ELSE 1
    <3>1. /\ Due(sk) = Len(sk.replies) + owed + Answers(sk.wire) /\ owed \in Nat
          /\ Due(new) = Len(new.replies) + owed + Answers(sk.wire)
      BY <1>7 DEF Due
    <3>2. Due(sk) \in Nat /\ Len(sk.replies) \in Nat /\ Answers(sk.wire) \in Nat
      BY <1>2, DueIsNat
    <3>3. Len(new.replies) = Len(sk.replies) - 1
      BY <1>7
    <3> HIDE DEF owed
    <3> QED BY <3>1, <3>2, <3>3
  <2>2. Awaits(job[c], s) = 1 /\ Awaits(j, s) = 0 /\ Slack(j, s) = 0 /\ Slack(job[c], s) \in 0..1
    BY <1>1, <1>6 DEF Awaits, Slack
  <2> QED BY <1>2, <1>7, <2>1, <2>2 DEF InStep
<1>10. /\ PerClient' /\ Others(c) /\ job'[c] = j /\ conn'[c] = k /\ flags'[c] = flags[c]
  BY <1>1, <1>3 DEF PerClient, Others
<1> QED BY <1>1, <1>3, <1>4, <1>5, <1>6, <1>7, <1>8, <1>9, <1>10 DEF WorkStep

LEMMA LoseResetWorks ==
  ASSUME Inv, NEW c \in Clients, LoseReset(c)
  PROVE  WorkStep(c)
<1> DEFINE s == job[c].sock
           j == Popped(job[c])
<1>1. /\ ~Idle(c) /\ job[c].todo # <<>> /\ ~socks[s].served /\ PerClient
  BY DEF LoseReset, Failed, Working, Wire, Inv
<1>2. /\ JobFits(job[c], conn[c], live[c]) /\ s \in DOMAIN socks /\ socks[s] \in SockType
      /\ socks[s].owner = c /\ socks[s].held /\ WireFits(socks[s]) /\ socks \in Seq(SockType)
  BY <1>1, WorkIs
<1>3. /\ job' = [job EXCEPT ![c] = j]
      /\ UNCHANGED <<said, wiping, store, handles, pressed, viewer, touched, current, ids,
                     conn, live, socks, synced>>
  BY <1>1 DEF LoseReset, JobStep, PerClient
<1>4. PICK mark \in BOOLEAN :
        flags' = [flags EXCEPT ![c] = [flags[c] EXCEPT !.partial = flags[c].partial \/ mark]]
  BY <1>1 DEF LoseReset, PerClient
<1>5. /\ ConnFits(conn[c], Outs(c, ids[c])) /\ flags[c] \in FlagType
  BY DEF Inv, LinkOK, ScriptOK
<1>6. [flags[c] EXCEPT !.partial = flags[c].partial \/ mark] \in FlagType
  BY <1>5 DEF FlagType
<1>7. /\ JobFits(j, conn[c], live[c]) /\ j.sock = s /\ j.kind = job[c].kind
      /\ j.dialling = job[c].dialling
  BY <1>1, <1>2, PoppedFits
<1> HIDE DEF j
<1>8. socks' = [socks EXCEPT ![s] = socks[s]] /\ InStep(socks[s], s, j, wiping[c])
  BY <1>1, <1>2, <1>3 DEF InStep
<1>9. /\ PerClient' /\ Others(c) /\ job'[c] = j /\ conn'[c] = conn[c]
      /\ flags'[c] \in FlagType
  BY <1>1, <1>3, <1>4, <1>6 DEF PerClient, Others
<1> QED BY <1>1, <1>2, <1>3, <1>5, <1>7, <1>8, <1>9 DEF WorkStep

(***************************************************************************)
(* A dialled connection is taken over.                                     *)
(***************************************************************************)
LEMMA CurrentMoves ==
  ASSUME NEW st, NEW cur, NEW top \in Nat, NEW outs, NEW lw, FiguresFit(st, cur, top, outs, lw),
         NEW more, outs \subseteq more, NEW out \in more, out \notin outs, out # lw
  PROVE  FiguresFit(st, [cur EXCEPT !.output = out], top, more, lw)
<1> DEFINE new == [cur EXCEPT !.output = out]
<1>1. cur \in [handle : 0..(top - 1), content : Contents, output : outs]
  BY DEF FiguresFit, CurrentFits
<1>2. /\ new \in [handle : 0..(top - 1), content : Contents, output : more]
      /\ new.handle = cur.handle /\ new.output = out
  BY <1>1
<1> HIDE DEF new
<1>3. StoreFits(st, top, more, lw)
  BY StoreWider DEF FiguresFit
<1>4. CurrentFits(st, new, top, more, lw)
  BY <1>2 DEF FiguresFit, StoreFits, CurrentFits
<1> QED BY <1>3, <1>4 DEF FiguresFit, new

LEMMA ConnectedStep ==
  ASSUME Inv, NEW c \in Clients, Connected(c)
  PROVE  ClientStep(c)
<1> DEFINE s == job[c].sock
           win == Window(c, ids[c])
           k == [sock |-> s, win |-> win, opened |-> FALSE]
           old == conn[c].sock
<1>1. /\ ~Idle(c) /\ job[c].todo = <<>> /\ job[c].kind \in {"sync", "on"} /\ job[c].dialling
      /\ ~job[c].waiting
  BY FinishedIs DEF Connected
<1>2. /\ JobFits(job[c], conn[c], live[c]) /\ s \in DOMAIN socks /\ s # 0 /\ socks[s] \in SockType
      /\ socks[s].owner = c /\ socks[s].held /\ WireFits(socks[s])
      /\ InStep(socks[s], s, job[c], wiping[c])
      /\ socks \in Seq(SockType) /\ DOMAIN socks = 1..Len(socks)
      /\ wiping[c] \in Nat /\ ids[c] \in Nat
  BY <1>1, WorkIs
<1>3. PerClient /\ ScriptOK(c) /\ LinkOK(c)
  BY DEF Inv
<1>4. /\ ids' = [ids EXCEPT ![c] = ids[c] + 1] /\ conn' = [conn EXCEPT ![c] = k]
      /\ socks' = Drop(socks, old) /\ synced' = [synced EXCEPT ![c] = Blank]
      /\ UNCHANGED <<said, wiping, store, handles, pressed, viewer, touched, live>>
      /\ \/ /\ job[c].kind = "sync"
            /\ job' = [job EXCEPT ![c] =
                         Job("sync", FALSE, s, SyncMessages(k, current[c].content))]
            /\ current' = current /\ flags' = flags
         \/ /\ job[c].kind = "on"
            /\ current' = [current EXCEPT ![c] = [current[c] EXCEPT !.output = win]]
            /\ job' = [job EXCEPT ![c] = NoJob]
            /\ \E g \in FlagType : flags' = [flags EXCEPT ![c] = g]
  <2>1. flags[c] \in FlagType
    BY <1>3 DEF ScriptOK
  <2>2. Ends(c, flags[c]) => /\ job' = [job EXCEPT ![c] = NoJob]
                             /\ \E g \in FlagType : flags' = [flags EXCEPT ![c] = g]
    BY <2>1, EndsIs
  <2> QED BY <1>3, <2>2 DEF Connected, JobStep, PerClient
<1>5. /\ FiguresFit(store[c], current[c], handles[c], Outs(c, ids[c]), live[c].win)
      /\ ids[c] \in 0..said[c] /\ ids[c] < said[c] /\ said[c] \in 0..MaxStatements
      /\ handles[c] \in Nat /\ flags[c] \in FlagType
      /\ live[c] \in [sock : Nat, win : Outs(c, ids[c])]
      /\ MaxStatements \in Nat
  BY <1>1, <1>3, FiguresWider, SessionAssumption DEF ScriptOK, LinkOK, LiveFits, SessionAssumption
<1>6. /\ win \notin Outs(c, ids[c]) /\ win # Terminal /\ win # live[c].win
      /\ Outs(c, ids[c]) \subseteq Outs(c, ids[c] + 1) /\ win \in Outs(c, ids[c] + 1)
      /\ win \in Windows
  BY SMTT(40), <1>2, <1>5, FreshWindow DEF Window, Windows
<1> HIDE DEF win
<1>7. /\ k.sock = s /\ k.win = win /\ ConnFits(k, Outs(c, ids[c] + 1))
  BY <1>2, <1>6 DEF ConnFits
<1> HIDE DEF k
<1>8. current[c].content \in Contents
  BY <1>5 DEF FiguresFit, CurrentFits
<1>9. /\ JobFits(job'[c], k, live[c]) /\ job'[c].sock \in {0, s} /\ ~job'[c].waiting
      /\ Slack(job'[c], s) = 0 /\ job'[c].kind # "open" /\ ~job'[c].dialling
      /\ flags'[c] \in FlagType
      /\ current'[c] \in {current[c], [current[c] EXCEPT !.output = win]}
  <2>1. CASE /\ job[c].kind = "sync"
             /\ job' = [job EXCEPT ![c] =
                          Job("sync", FALSE, s, SyncMessages(k, current[c].content))]
             /\ current' = current /\ flags' = flags
    <3>1. job'[c] = Job("sync", FALSE, k.sock, SyncMessages(k, current[c].content))
      BY <1>3, <1>7, <2>1 DEF PerClient
    <3>2. Outs(c, ids[c] + 1) \ {Terminal} \subseteq Windows
      BY <1>5, OutsAreOutputs
    <3>3. k.sock # 0
      BY <1>2, <1>7
    <3>4. /\ JobFits(job'[c], k, live[c])
          /\ job'[c].sock = s /\ job'[c].kind = "sync" /\ ~job'[c].waiting
      BY <1>7, <1>8, <3>1, <3>2, <3>3, SyncFits
    <3>5. ~job'[c].dialling
      BY <3>1 DEF Job
    <3> QED BY <1>5, <2>1, <3>4, <3>5 DEF Slack
  <2>2. CASE /\ job[c].kind = "on"
             /\ current' = [current EXCEPT ![c] = [current[c] EXCEPT !.output = win]]
             /\ job' = [job EXCEPT ![c] = NoJob]
             /\ \E g \in FlagType : flags' = [flags EXCEPT ![c] = g]
    <3>1. job'[c] = NoJob /\ current'[c] = [current[c] EXCEPT !.output = win]
          /\ flags'[c] \in FlagType
      BY <1>3, <2>2 DEF PerClient
    <3> QED BY <3>1, NoJobIs, NoJobFits DEF Slack
  <2> QED BY <1>4, <2>1, <2>2 DEF k, win
<1>10. /\ PerClient' /\ Others(c) /\ conn'[c] = k /\ live'[c] = live[c] /\ ids'[c] = ids[c] + 1
       /\ synced'[c] = Blank
  <2>1. PerClient' /\ Others(c)
    <3>1. /\ job' = [d \in Clients |-> job'[d]] /\ current' = [d \in Clients |-> current'[d]]
          /\ flags' = [d \in Clients |-> flags'[d]]
          /\ \A d \in Clients \ {c} : /\ job'[d] = job[d] /\ current'[d] = current[d]
                                      /\ flags'[d] = flags[d]
      BY <1>3, <1>4 DEF PerClient
    <3> QED BY <1>3, <1>4, <3>1 DEF PerClient, Others
  <2> QED BY <1>3, <1>4, <2>1 DEF PerClient
<1>11. ScriptOK(c)'
  <2>1. /\ said'[c] = said[c] /\ wiping'[c] = wiping[c] /\ store'[c] = store[c]
        /\ handles'[c] = handles[c] /\ pressed'[c] = pressed[c]
    BY <1>4
  <2>2. Taken(c)' = ids'[c]
    BY <1>9 DEF Taken
  <2>3. FiguresFit(store[c], current'[c], handles[c], Outs(c, ids[c] + 1), live[c].win)
    <3>1. FiguresFit(store[c], current[c], handles[c], Outs(c, ids[c] + 1), live[c].win)
      <4>1. handles[c] <= handles[c]
        BY <1>5
      <4> QED BY <1>5, <1>6, <4>1, StoreWider, CurrentWider DEF FiguresFit
    <3>2. FiguresFit(store[c], [current[c] EXCEPT !.output = win], handles[c],
                     Outs(c, ids[c] + 1), live[c].win)
      BY <1>5, <1>6, CurrentMoves
    <3> QED BY <1>9, <3>1, <3>2
  <2>4. ids'[c] \in 0..said'[c]
    BY <1>5, <1>10, <2>1
  <2> QED BY <1>3, <1>9, <1>10, <2>1, <2>2, <2>3, <2>4, BlankType DEF ScriptOK
<1>12. /\ old \in DOMAIN socks \cup {0} /\ old # s
       /\ old # 0 => old # live[c].sock /\ s # live[c].sock
       /\ live[c].sock # 0 => Holds(c, live[c].sock, socks) /\ s # live[c].sock
       /\ old # 0 => socks[old].owner = c
  BY <1>1, <1>2, <1>3 DEF LinkOK, JobFits, Holds
<1>13. /\ socks' \in Seq(SockType) /\ Len(socks') = Len(socks) /\ DOMAIN socks' = DOMAIN socks
       /\ \A t \in DOMAIN socks : /\ socks'[t].owner = socks[t].owner
                                  /\ t # old => socks'[t] = socks[t]
       /\ old # 0 => ~socks'[old].held /\ WireFits(socks'[old])
  <2>1. old # 0 => \A i \in DOMAIN socks[old].wire :
                     socks[old].wire[i] = Cut => i = Len(socks[old].wire)
    BY <1>12 DEF Inv, SockOK, WireFits
  <2>2. old \in DOMAIN socks \cup {0}
    BY <1>12
  <2>3. /\ Drop(socks, old) \in Seq(SockType) /\ Len(Drop(socks, old)) = Len(socks)
        /\ DOMAIN Drop(socks, old) = DOMAIN socks
        /\ \A t \in DOMAIN socks : /\ Drop(socks, old)[t].owner = socks[t].owner
                                   /\ t # old => Drop(socks, old)[t] = socks[t]
        /\ old # 0 => ~Drop(socks, old)[old].held /\ WireFits(Drop(socks, old)[old])
    <3> HIDE DEF old
    <3> QED BY <1>2, <2>1, <2>2, DropEffect
  <2>4. socks' = Drop(socks, old)
    BY <1>4
  <2> HIDE DEF old
  <2> QED BY <2>3, <2>4
<1>14. LinkOK(c)'
  <2>1. LiveFits(live'[c], Outs(c, ids'[c]))
    BY <1>3, <1>6, <1>10 DEF LinkOK, LiveFits
  <2>2. Holds(c, s, socks')
    BY <1>2, <1>12, <1>13 DEF Holds
  <2>3. live[c].sock # 0 => Holds(c, live[c].sock, socks')
    BY <1>12, <1>13 DEF Holds
  <2>4. s # live[c].sock
    BY <1>2, <1>12
  <2> QED BY <1>7, <1>9, <1>10, <2>1, <2>2, <2>3, <2>4 DEF LinkOK
<1>15. SocksMove(c) /\ \A t \in DOMAIN socks' : socks'[t].owner = c => SockOK(t)'
  <2>1. \A t \in DOMAIN socks : WireFits(socks[t])
    BY DEF Inv, SockOK
  <2>2. \A t \in DOMAIN socks : socks[t].owner # c => socks'[t] = socks[t]
    BY <1>12, <1>13
  <2>3. \A t \in DOMAIN socks : ~socks'[t].held => WireFits(socks'[t])
    BY <1>13, <2>1
  <2>4. /\ \A t \in DOMAIN socks : /\ socks'[t].owner = socks[t].owner
                                   /\ t # s => socks'[t] = socks[t] \/ ~socks'[t].held
        /\ socks'[s] = socks[s]
    BY <1>2, <1>12, <1>13
  <2>5. InStep(socks'[s], s, job'[c], wiping[c])
    <3>1. Awaits(job[c], s) = 0 /\ Awaits(job'[c], s) = 0 /\ Slack(job[c], s) = 0
      BY <1>1, <1>9 DEF Awaits, Slack
    <3> QED BY <1>2, <1>9, <2>4, <3>1 DEF InStep
  <2>6. /\ job'[c].sock \in {0, job[c].sock} /\ wiping'[c] = wiping[c] /\ s = job[c].sock
    BY <1>4, <1>9
  <2> HIDE DEF s
  <2> QED BY <1>1, <1>2, <1>13, <2>2, <2>3, <2>4, <2>5, <2>6, OtherSocks
<1> QED BY <1>4, <1>10, <1>11, <1>14, <1>15 DEF ClientStep

(* A live figure takes its connection over.                                *)
LiveTakes(c) ==
  /\ PerClient' /\ Others(c) /\ ~Idle(c)
  /\ ~job[c].waiting /\ Slack(job[c], job[c].sock) = 0
  /\ job[c].sock \notin {conn[c].sock, live[c].sock}
  /\ said'[c] = said[c] /\ wiping'[c] = wiping[c] /\ store'[c] = store[c]
  /\ current'[c] = current[c] /\ handles'[c] = handles[c] /\ ids'[c] = ids[c]
  /\ conn'[c] = conn[c] /\ pressed'[c] = pressed[c] /\ synced'[c] = synced[c]
  /\ flags'[c] \in FlagType
  /\ live'[c].sock = job[c].sock /\ LiveFits(live'[c], Outs(c, ids[c]))
  /\ FiguresFit(store[c], current[c], handles[c], Outs(c, ids[c]), live'[c].win)
  /\ JobFits(job'[c], conn[c], live'[c])
  /\ job'[c].sock \in {0, job[c].sock} /\ ~job'[c].waiting /\ Slack(job'[c], job[c].sock) = 0
  /\ job'[c].kind \notin {"open", "sync", "on"}
  /\ UNCHANGED <<socks, viewer, touched>>

LEMMA LiveTakesStep ==
  ASSUME Inv, NEW c \in Clients, LiveTakes(c)
  PROVE  ClientStep(c)
<1>1. PICK s : s = job[c].sock
  OBVIOUS
<1>2. /\ ~Idle(c) /\ socks' = socks /\ wiping'[c] = wiping[c] /\ ids'[c] = ids[c]
      /\ job'[c].sock \in {0, s} /\ live'[c].sock = s /\ conn'[c] = conn[c]
      /\ s \notin {conn[c].sock, live[c].sock}
  BY <1>1 DEF LiveTakes
<1>3. /\ s \in DOMAIN socks /\ s # 0 /\ socks[s] \in SockType /\ socks[s].owner = c /\ socks[s].held
      /\ WireFits(socks[s]) /\ InStep(socks[s], s, job[c], wiping[c])
      /\ socks \in Seq(SockType) /\ DOMAIN socks = 1..Len(socks) /\ Len(socks) \in Nat
      /\ wiping[c] \in Nat
  BY <1>1, <1>2, WorkIs
<1>4. ScriptOK(c) /\ LinkOK(c)
  BY DEF Inv
<1>5. ScriptOK(c)'
  <2>1. Taken(c)' = ids'[c]
    BY DEF LiveTakes, Taken
  <2> QED BY <1>4, <2>1 DEF ScriptOK, LiveTakes
<1>6. LinkOK(c)'
  <2>1. /\ LiveFits(live'[c], Outs(c, ids'[c])) /\ ConnFits(conn'[c], Outs(c, ids'[c]))
        /\ JobFits(job'[c], conn'[c], live'[c])
    BY <1>4 DEF LiveTakes, LinkOK
  <2>2. \A t \in {conn[c].sock, s} : t # 0 => Holds(c, t, socks')
    BY <1>2, <1>3, <1>4 DEF LinkOK, Holds
  <2>3. \A t \in {job'[c].sock, conn'[c].sock, live'[c].sock} : t # 0 => Holds(c, t, socks')
    BY <1>2, <2>2
  <2> QED BY <1>2, <2>1, <2>3 DEF LinkOK
<1>7. SocksMove(c) /\ \A t \in DOMAIN socks' : socks'[t].owner = c => SockOK(t)'
  <2>1. InStep(socks'[s], s, job'[c], wiping[c])
    <3>1. /\ Awaits(job[c], s) = 0 /\ Awaits(job'[c], s) = 0
          /\ Slack(job[c], s) = 0 /\ Slack(job'[c], s) = 0
      BY <1>1 DEF LiveTakes, Awaits
    <3> QED BY <1>2, <1>3, <3>1 DEF InStep
  <2>2. \A t \in DOMAIN socks : WireFits(socks[t])
    BY DEF Inv, SockOK
  <2>3. /\ \A t \in DOMAIN socks : /\ socks'[t].owner = socks[t].owner
                                   /\ t # s => socks'[t] = socks[t] \/ ~socks'[t].held
        /\ \A t \in DOMAIN socks : socks[t].owner # c => socks'[t] = socks[t]
        /\ \A t \in DOMAIN socks : ~socks'[t].held => WireFits(socks'[t])
        /\ socks'[s].held => WireFits(socks'[s]) /\ InStep(socks'[s], s, job'[c], wiping[c])
    BY <1>2, <1>3, <2>1, <2>2
  <2>4. socks' \in Seq(SockType) /\ Len(socks') = Len(socks)
    BY <1>2, <1>3
  <2> QED BY <1>1, <1>2, <2>3, <2>4, OtherSocks
<1> QED BY <1>5, <1>6, <1>7 DEF ClientStep, LiveTakes

LEMMA LiveConnectedStep ==
  ASSUME Inv, NEW c \in Clients, LiveConnected(c)
  PROVE  ClientStep(c)
<1>1. /\ ~Idle(c) /\ job[c].todo = <<>> /\ job[c].kind \in {"open", "update", "draw"}
      /\ job[c].dialling /\ ~job[c].waiting /\ Slack(job[c], job[c].sock) = 0
  BY FinishedIs DEF LiveConnected
<1>2. PICK s : s = job[c].sock
  OBVIOUS
<1>3. /\ JobFits(job[c], conn[c], live[c]) /\ s \in DOMAIN socks /\ s # 0 /\ ids[c] \in Nat
      /\ DOMAIN socks = 1..Len(socks) /\ Len(socks) \in Nat
  BY <1>1, <1>2, WorkIs
<1>4. PerClient /\ ScriptOK(c) /\ LinkOK(c) /\ flags[c] \in FlagType
  BY DEF Inv, ScriptOK
<1>5. /\ FiguresFit(store[c], current[c], handles[c], Outs(c, ids[c]), live[c].win)
      /\ handles[c] \in Nat /\ MaxStatements \in Nat
      /\ ids[c] \in 0..said[c] /\ said[c] \in 0..MaxStatements
      /\ LiveFits(live[c], Outs(c, ids[c]))
  BY <1>4, FiguresWider, SessionAssumption DEF ScriptOK, LinkOK, SessionAssumption
<1>6. s \notin {conn[c].sock, live[c].sock} /\ s \in Nat \ {0}
  BY <1>1, <1>2, <1>3 DEF JobFits
<1>7. UNCHANGED <<said, wiping, store, handles, pressed, viewer, touched, current, ids, conn,
                  socks, synced>>
  BY DEF LiveConnected, JobStep
<1>8. CASE /\ job[c].kind = "open"
           /\ live' = [live EXCEPT ![c] = [sock |-> job[c].sock, win |-> Window(c, ids[c] - 1)]]
           /\ Ends(c, flags[c])
  <2>1. job' = [job EXCEPT ![c] = NoJob] /\ \E g \in FlagType : flags' = [flags EXCEPT ![c] = g]
    BY <1>4, <1>8, EndsIs
  <2>2. PICK n \in Nat : n = ids[c] - 1 /\ n + 1 = ids[c]
    BY <1>1, <1>3, <1>4, <1>8 DEF ScriptOK
  <2>3. PICK l : l = [sock |-> s, win |-> Window(c, n)]
    OBVIOUS
  <2>4. /\ PerClient' /\ Others(c) /\ job'[c] = NoJob /\ flags'[c] \in FlagType
        /\ live'[c] = l
    <3>1. live' = [live EXCEPT ![c] = l]
      BY <1>2, <1>8, <2>2, <2>3
    <3> QED BY <1>4, <1>7, <2>1, <3>1 DEF PerClient, Others
  <2>5. FiguresFit(store[c], current[c], handles[c], Outs(c, n), live[c].win)
    <3>1. Taken(c) = n
      BY <1>8, <2>2 DEF Taken
    <3> QED BY <1>4, <3>1 DEF ScriptOK
  <2>6. /\ Window(c, n) \notin Outs(c, n) /\ Window(c, n) # Terminal
        /\ Outs(c, n) \subseteq Outs(c, ids[c]) /\ Window(c, n) \in Outs(c, ids[c])
    BY <2>2, FreshWindow
  <2>7. l.sock = s /\ l.win = Window(c, n) /\ LiveFits(l, Outs(c, ids[c]))
    BY <1>6, <2>3, <2>6 DEF LiveFits
  <2>8. FiguresFit(store[c], current[c], handles[c], Outs(c, ids[c]), l.win)
    <3>1. FiguresFit(store[c], current[c], handles[c], Outs(c, n), l.win)
      BY <2>5, <2>6, <2>7, LiveApart
    <3>2. handles[c] <= handles[c]
      BY <1>5
    <3> QED BY <1>5, <2>6, <3>1, <3>2, StoreWider, CurrentWider DEF FiguresFit
  <2>9. LiveTakes(c)
    <3>1. /\ NoJob.sock = 0 /\ NoJob.kind = "none" /\ ~NoJob.waiting /\ Slack(NoJob, s) = 0
      BY <1>6, NoJobIs DEF Slack
    <3> QED BY <1>1, <1>2, <1>6, <1>7, <2>4, <2>7, <2>8, <3>1, NoJobFits DEF LiveTakes
  <2> QED BY <2>9, LiveTakesStep
<1>9. CASE /\ job[c].kind # "open"
           /\ live' = [live EXCEPT ![c] = [live[c] EXCEPT !.sock = job[c].sock]]
           /\ job' = [job EXCEPT ![c] = LiveSay(job[c].kind, job[c].sock,
                                          LiveFrame(job[c].kind, live[c].win, said[c]))]
           /\ flags' = flags
  <2>1. PICK kind \in {"update", "draw"} : kind = job[c].kind
    BY <1>1, <1>9
  <2>2. live[c].win # Terminal /\ live[c].win \in Outs(c, ids[c]) /\ live[c].win \in Windows
    <3>1. live[c].win # Terminal /\ live[c].win \in Outs(c, ids[c])
      BY <1>3, <1>5, <2>1 DEF JobFits, LiveFits
    <3>2. ids[c] \in Int /\ ids[c] <= MaxStatements + 1
      BY <1>5
    <3> QED BY <3>1, <3>2, OutsAreOutputs
  <2>3. PICK m \in Frames : m = LiveFrame(kind, live[c].win, said[c]) /\ m # Reset
    BY <1>5, <2>2, LiveFrameIs
  <2>4. PICK l : l = [live[c] EXCEPT !.sock = s]
    OBVIOUS
  <2>5. l.sock = s /\ l.win = live[c].win /\ LiveFits(l, Outs(c, ids[c]))
    BY <1>5, <1>6, <2>2, <2>4 DEF LiveFits
  <2>6. PICK j : j = LiveSay(kind, s, m)
    OBVIOUS
  <2>7. /\ PerClient' /\ Others(c) /\ job'[c] = j /\ flags'[c] = flags[c] /\ live'[c] = l
    <3>1. live' = [live EXCEPT ![c] = l] /\ job' = [job EXCEPT ![c] = j] /\ flags' = flags
      BY <1>2, <1>9, <2>1, <2>3, <2>4, <2>6
    <3> QED BY <1>4, <1>7, <3>1 DEF PerClient, Others
  <2>8. j.sock = s /\ j.kind = kind /\ ~j.waiting /\ j.todo # <<Reset>> /\ JobFits(j, conn[c], l)
    <3>1. JobFits(LiveSay(kind, s, m), conn[c], l)
      BY <1>6, <2>2, <2>3, <2>5, LiveSayFits
    <3> QED BY <2>3, <2>6, <3>1, LiveJobIs
  <2>9. LiveTakes(c)
    <3>1. Slack(j, s) = 0 /\ kind \notin {"open", "sync", "on"}
      BY <2>8 DEF Slack
    <3> QED BY <1>1, <1>2, <1>4, <1>5, <1>6, <1>7, <2>5, <2>7, <2>8, <3>1 DEF LiveTakes
  <2> QED BY <2>9, LiveTakesStep
<1>10. \/ /\ job[c].kind = "open"
          /\ live' = [live EXCEPT ![c] = [sock |-> job[c].sock, win |-> Window(c, ids[c] - 1)]]
          /\ Ends(c, flags[c])
       \/ /\ job[c].kind # "open"
          /\ live' = [live EXCEPT ![c] = [live[c] EXCEPT !.sock = job[c].sock]]
          /\ job' = [job EXCEPT ![c] = LiveSay(job[c].kind, job[c].sock,
                                         LiveFrame(job[c].kind, live[c].win, said[c]))]
          /\ flags' = flags
  BY <1>4 DEF LiveConnected, LiveSay, LiveFrame, PerClient
<1> QED BY <1>8, <1>9, <1>10

-----------------------------------------------------------------------------
(***************************************************************************)
(* Steps of the viewer.  What a script waits for and has been promised     *)
(* does not change, and a connection it holds stays.                       *)
(***************************************************************************)
LEMMA ViewerKeeps ==
  ASSUME Inv, UNCHANGED <<script, conn, live, job, flags, pressed, synced>>,
         socks' \in Seq(SockType), Len(socks') = Len(socks),
         \A s \in DOMAIN socks : /\ socks'[s].owner = socks[s].owner
                                 /\ socks[s].held => socks'[s].held,
         \A s \in DOMAIN socks : WireFits(socks'[s]),
         \A s \in DOMAIN socks : socks'[s].served /\ socks'[s].held =>
           socks[s].served /\ socks[s].held /\ Due(socks'[s]) = Due(socks[s]),
         ViewerOK'
  PROVE  Inv'
<1>1. DOMAIN socks' = DOMAIN socks
  BY DEF Inv
<1>2. PerClient'
  BY DEF Inv, PerClient, script
<1>3. ASSUME NEW c \in Clients PROVE ScriptOK(c)' /\ LinkOK(c)'
  <2>1. ScriptOK(c) /\ LinkOK(c)
    BY DEF Inv
  <2>2. ScriptOK(c)'
    BY <2>1 DEF ScriptOK, Taken, script
  <2>3. ASSUME NEW t, Holds(c, t, socks) PROVE Holds(c, t, socks')
    BY <1>1, <2>3 DEF Holds
  <2>4. LinkOK(c)'
    BY <2>1, <2>3 DEF LinkOK, script
  <2> QED BY <2>2, <2>4
<1>4. ASSUME NEW s \in DOMAIN socks' PROVE SockOK(s)'
  <2>1. SockOK(s) /\ WireFits(socks'[s]) /\ socks'[s].owner = socks[s].owner
    BY <1>1 DEF Inv
  <2>2. InStep(socks'[s], s, job[socks[s].owner], wiping[socks[s].owner])
    BY <1>1, <2>1 DEF SockOK, InStep
  <2> QED BY <2>1, <2>2 DEF SockOK, script
<1> QED BY <1>2, <1>3, <1>4 DEF Inv

(* A step of the thread of connection s.                                   *)
Served(s) ==
  /\ s \in DOMAIN socks
  /\ UNCHANGED <<script, conn, live, job, flags, pressed, synced>>
  /\ \E new \in SockType :
       /\ socks' = [socks EXCEPT ![s] = new]
       /\ new.owner = socks[s].owner /\ (socks[s].held => new.held) /\ WireFits(new)
       /\ new.served /\ new.held =>
            socks[s].served /\ socks[s].held /\ Due(new) = Due(socks[s])
  /\ UNCHANGED <<up, crashes, windows, touched>>
  /\ \/ queue' = queue
     \/ \E m \in Frames \ {Ping} : queue' = Append(queue, [from |-> s, msg |-> m])

LEMMA ServedKeeps ==
  ASSUME Inv, NEW s, Served(s)
  PROVE  Inv'
<1>1. /\ s \in DOMAIN socks /\ socks \in Seq(SockType) /\ DOMAIN socks = 1..Len(socks)
      /\ Len(socks) \in Nat
  BY DEF Inv, Served
<1>2. PICK new \in SockType :
        /\ socks' = [socks EXCEPT ![s] = new]
        /\ new.owner = socks[s].owner /\ (socks[s].held => new.held) /\ WireFits(new)
        /\ new.served /\ new.held =>
             socks[s].served /\ socks[s].held /\ Due(new) = Due(socks[s])
  BY DEF Served
<1>3. /\ socks' \in Seq(SockType) /\ Len(socks') = Len(socks) /\ DOMAIN socks' = DOMAIN socks
      /\ socks'[s] = new /\ \A t \in DOMAIN socks : t # s => socks'[t] = socks[t]
  BY <1>1, <1>2
<1>4. \A t \in DOMAIN socks : /\ socks'[t].owner = socks[t].owner
                              /\ socks[t].held => socks'[t].held
  BY <1>2, <1>3
<1>5. \A t \in DOMAIN socks : WireFits(socks'[t])
  <2>1. \A t \in DOMAIN socks : WireFits(socks[t])
    BY DEF Inv, SockOK
  <2> QED BY <1>2, <1>3, <2>1
<1>6. \A t \in DOMAIN socks : socks'[t].served /\ socks'[t].held =>
        socks[t].served /\ socks[t].held /\ Due(socks'[t]) = Due(socks[t])
  BY <1>2, <1>3
<1>7. ViewerOK'
  <2>1. ViewerOK
    BY DEF Inv
  <2>2. CASE queue' = queue
    BY <1>3, <2>1, <2>2 DEF ViewerOK, Served
  <2>3. CASE \E m \in Frames \ {Ping} : queue' = Append(queue, [from |-> s, msg |-> m])
    <3>1. PICK m \in Frames \ {Ping} : queue' = Append(queue, [from |-> s, msg |-> m])
      BY <2>3
    <3>2. PICK x \in [from : Nat, msg : Frames \ {Ping}] : x = [from |-> s, msg |-> m] /\ x.from = s
      <4>1. s \in Nat /\ m \in Frames \ {Ping}
        BY <1>1
      <4>2. [from |-> s, msg |-> m] \in [from : Nat, msg : Frames \ {Ping}]
        BY <4>1
      <4> QED BY <4>2
    <3>3. queue \in Seq([from : Nat, msg : Frames \ {Ping}]) /\ queue' = Append(queue, x)
      BY <2>1, <3>1, <3>2 DEF ViewerOK
    <3>4. /\ queue' \in Seq([from : Nat, msg : Frames \ {Ping}])
          /\ \A i \in DOMAIN queue' : (i \in DOMAIN queue /\ queue'[i] = queue[i]) \/ queue'[i] = x
      BY <3>3
    <3>5. \A i \in DOMAIN queue' : queue'[i].from \in DOMAIN socks'
      BY <1>1, <1>3, <2>1, <3>2, <3>4 DEF ViewerOK
    <3> QED BY <2>1, <3>4, <3>5 DEF ViewerOK, Served
  <2> QED BY <2>2, <2>3 DEF Served
<1>8. UNCHANGED <<script, conn, live, job, flags, pressed, synced>>
  BY DEF Served
<1> QED BY <1>3, <1>4, <1>5, <1>6, <1>7, <1>8, ViewerKeeps

LEMMA TakeStep ==
  ASSUME Inv, NEW s \in DOMAIN socks, Take(s)
  PROVE  Served(s)
<1> DEFINE sk == socks[s]
           m == Head(sk.wire)
           owed == IF Answered(m) THEN m.type ELSE ""
           new == [sk EXCEPT !.wire = Tail(sk.wire), !.owed = owed]
<1>1. sk \in SockType /\ WireFits(sk) /\ socks \in Seq(SockType)
  BY DEF Inv, SockOK
<1>2. sk.wire \in Seq(Frames \cup {Cut}) /\ sk.wire # <<>> /\ sk.served /\ sk.owed = "" /\ m # Cut
  BY <1>1 DEF SockType, Take
<1>3. /\ Tail(sk.wire) \in Seq(Frames \cup {Cut}) /\ m \in Frames /\ Len(sk.wire) \in Nat \ {0}
      /\ Len(Tail(sk.wire)) = Len(sk.wire) - 1
      /\ \A i \in DOMAIN Tail(sk.wire) : i \in Nat /\ i + 1 \in DOMAIN sk.wire
                                         /\ Tail(sk.wire)[i] = sk.wire[i + 1]
  <2>1. PICK T : T = Frames \cup {Cut}
    OBVIOUS
  <2>2. PICK w \in Seq(T) : w = sk.wire /\ w # <<>>
    BY <1>2, <2>1
  <2>3. /\ Tail(w) \in Seq(T) /\ Head(w) \in T /\ Len(w) \in Nat \ {0}
        /\ Len(Tail(w)) = Len(w) - 1
        /\ \A i \in DOMAIN Tail(w) : i \in Nat /\ i + 1 \in DOMAIN w /\ Tail(w)[i] = w[i + 1]
    BY <2>2
  <2> HIDE DEF sk
  <2> QED BY <1>2, <2>1, <2>2, <2>3
<1>4. owed \in Types \cup {""} /\ (owed = "" <=> ~Answered(m))
  <2>1. m.type \in Types
    BY <1>3, FramesAre
  <2>2. Answered(m) => m.type # ""
    BY DEF Answered
  <2> QED BY <2>1, <2>2
<1>5. Answers(Tail(sk.wire)) = Answers(sk.wire) - (IF Answered(m) THEN 1 ELSE 0)
      /\ Answers(sk.wire) \in Nat
  BY <1>2, AnswersTail, AnswersAre
<1> HIDE DEF m, owed
<1>6. /\ new \in SockType /\ new.owner = sk.owner /\ new.held = sk.held /\ new.served = sk.served
      /\ new.wire = Tail(sk.wire) /\ new.replies = sk.replies /\ new.owed = owed
  BY <1>1, <1>3, <1>4 DEF SockType
<1>7. socks' = [socks EXCEPT ![s] = new]
  BY DEF Take, m, owed
<1> HIDE DEF new
<1>8. WireFits(new)
  BY <1>1, <1>3, <1>6 DEF WireFits
<1>9. Due(new) = Due(sk)
  <2>1. Len(sk.replies) \in Nat
    BY <1>1, DueIsNat
  <2>2. /\ Due(sk) = Len(sk.replies) + 0 + Answers(sk.wire)
        /\ Due(new) = Len(sk.replies) + (IF Answered(m) THEN 1 ELSE 0) + Answers(Tail(sk.wire))
    BY <1>2, <1>4, <1>6 DEF Due
  <2>3. CASE Answered(m)
    BY <1>5, <2>1, <2>2, <2>3
  <2>4. CASE ~Answered(m)
    BY <1>5, <2>1, <2>2, <2>4
  <2> QED BY <2>3, <2>4
<1>10. \/ queue' = queue
       \/ m \in Frames \ {Ping} /\ queue' = Append(queue, [from |-> s, msg |-> m])
  BY <1>3 DEF Take, m
<1>11. UNCHANGED <<script, conn, live, job, flags, pressed, synced, up, crashes, windows, touched>>
  BY DEF Take, ViewerStep
<1> QED BY <1>6, <1>7, <1>8, <1>9, <1>10, <1>11 DEF Served

(* A connection that is not held is over.                                  *)
LEMMA OverStep ==
  ASSUME Inv, NEW s \in DOMAIN socks, ~socks[s].held, ViewerStep,
         UNCHANGED <<queue, windows, touched>>,
         socks' = [socks EXCEPT ![s] = Closed(socks[s].owner)]
  PROVE  Served(s)
<1>1. socks[s].owner \in Clients
  <2>1. socks[s] \in SockType
    BY DEF Inv
  <2> QED BY <2>1 DEF SockType
<1>2. /\ Closed(socks[s].owner) \in SockType /\ Closed(socks[s].owner).owner = socks[s].owner
      /\ ~Closed(socks[s].owner).held /\ WireFits(Closed(socks[s].owner))
  BY <1>1, SockTypes
<1> QED BY <1>2 DEF Served, ViewerStep

LEMMA ReplyStep ==
  ASSUME Inv, NEW s \in DOMAIN socks, Reply(s)
  PROVE  Served(s)
<1> DEFINE sk == socks[s]
           new == [sk EXCEPT !.replies = Append(sk.replies, sk.owed), !.owed = ""]
<1>1. CASE ~sk.held /\ socks' = [socks EXCEPT ![s] = Closed(sk.owner)]
  BY <1>1, OverStep DEF Reply
<1>2. CASE sk.held /\ socks' = [socks EXCEPT ![s] = new]
  <2>1. sk \in SockType /\ WireFits(sk)
    BY DEF Inv, SockOK
  <2>2. sk.replies \in Seq(Types) /\ sk.owed \in Types /\ sk.owed # ""
    BY <2>1 DEF SockType, Reply
  <2>3. /\ Append(sk.replies, sk.owed) \in Seq(Types)
        /\ Len(Append(sk.replies, sk.owed)) = Len(sk.replies) + 1
    <3>1. PICK q \in Seq(Types), x \in Types : q = sk.replies /\ x = sk.owed
      BY <2>2
    <3>2. Append(q, x) \in Seq(Types) /\ Len(Append(q, x)) = Len(q) + 1
      BY Appended
    <3> HIDE DEF sk
    <3> QED BY <3>1, <3>2
  <2>4. /\ new \in SockType /\ new.owner = sk.owner /\ new.held = sk.held /\ new.served = sk.served
        /\ new.wire = sk.wire /\ new.owed = "" /\ new.replies = Append(sk.replies, sk.owed)
    BY <2>1, <2>3 DEF SockType
  <2> HIDE DEF new
  <2>5. WireFits(new)
    BY <2>1, <2>4 DEF WireFits
  <2>6. Due(new) = Due(sk)
    <3>1. Len(sk.replies) \in Nat /\ Answers(sk.wire) \in Nat
      BY <2>1, DueIsNat
    <3>2. /\ Due(sk) = Len(sk.replies) + 1 + Answers(sk.wire)
          /\ Due(new) = Len(sk.replies) + 1 + 0 + Answers(sk.wire)
      BY <2>2, <2>3, <2>4 DEF Due
    <3> QED BY <3>1, <3>2
  <2>7. /\ queue' = queue /\ sk.served
        /\ UNCHANGED <<script, conn, live, job, flags, pressed, synced, up, crashes, windows,
                       touched>>
    BY DEF Reply, ViewerStep
  <2> QED BY <1>2, <2>4, <2>5, <2>6, <2>7 DEF Served
<1> QED BY <1>1, <1>2 DEF Reply

LEMMA HangupStep ==
  ASSUME Inv, NEW s \in DOMAIN socks, Hangup(s)
  PROVE  Served(s)
BY OverStep DEF Hangup

(* The table of windows.                                                   *)
Shown(ws) ==
  /\ DOMAIN ws \subseteq Windows
  /\ \A w \in DOMAIN ws : ws[w] \in [series : Contents, surface : Contents]

LEMMA ApplyFits ==
  ASSUME NEW ws, Shown(ws), NEW m \in Frames
  PROVE  Shown(Apply(ws, m))
<1>1. /\ m.content \in Contents
      /\ m.type = "FigureOpen" => m.win \in Windows
      /\ Panel \in [series : Contents, surface : Contents]
  BY FramesAre, BlankType DEF Panel, Ping, Reset, Message
<1>2. CASE m.type = "FigureOpen"
  <2>1. CASE m.win \in DOMAIN ws
    BY <1>2, <2>1 DEF Apply
  <2>2. CASE m.win \notin DOMAIN ws
    <3>1. Apply(ws, m) = Put(ws, m.win, Panel)
      BY <1>2, <2>2 DEF Apply
    <3>2. Shown(Put(ws, m.win, Panel))
      BY <1>1, <1>2 DEF Put, Shown
    <3> QED BY <3>1, <3>2
  <2> QED BY <2>1, <2>2
<1>3. CASE m.type = "PanelUpdate" /\ m.win \in DOMAIN ws
  <2>1. ws[m.win] \in [series : Contents, surface : Contents]
    BY <1>3 DEF Shown
  <2> DEFINE x == [series |-> Blank, surface |-> m.content]
             y == [ws[m.win] EXCEPT !.series = m.content]
  <2>2. /\ x \in [series : Contents, surface : Contents]
        /\ y \in [series : Contents, surface : Contents]
    BY <1>1, <2>1, BlankType
  <2>3. Apply(ws, m) = [ws EXCEPT ![m.win] = IF m.content.kind = "surface" THEN x ELSE y]
    BY <1>3 DEF Apply
  <2> HIDE DEF x, y
  <2> QED BY <2>2, <2>3 DEF Shown
<1>4. CASE m.type = "Close"
  <2>1. Apply(ws, m) = Restrict(ws, DOMAIN ws \ {m.win})
    BY <1>4 DEF Apply
  <2> QED BY <2>1 DEF Shown, Restrict
<1>5. CASE m.type = "Reset"
  <2>1. Apply(ws, m) = <<>>
    BY <1>5 DEF Apply
  <2> QED BY <2>1 DEF Shown
<1>6. CASE /\ m.type \notin {"FigureOpen", "Close", "Reset"}
           /\ ~(m.type = "PanelUpdate" /\ m.win \in DOMAIN ws)
  BY <1>6 DEF Apply
<1> QED BY <1>2, <1>3, <1>4, <1>5, <1>6

LEMMA BehindIs ==
  ASSUME Inv, NEW s, NEW m \in Frames \ {Ping}
  PROVE  Behind(s, m) \subseteq Windows
<1>1. MaxStatements \in Nat
  BY SessionAssumption DEF SessionAssumption
<1>2. \A c \in Clients : ids[c] \in 0..said[c] /\ said[c] \in 0..MaxStatements
  BY DEF Inv, ScriptOK
<1>3. ASSUME NEW c \in Clients, NEW n \in 0..(ids[c] - 1) PROVE Window(c, n) \in Windows
  BY <1>1, <1>2 DEF Window, Windows
<1>4. Known \subseteq Windows
  BY <1>3 DEF Known
<1>5. m.type # "Reset" => m.win \in Windows
  BY FramesAre
<1> QED BY <1>4, <1>5 DEF Behind

LEMMA ProcessMessageStep ==
  ASSUME Inv, ProcessMessage
  PROVE  Inv'
<1> DEFINE item == Head(queue)
<1>1. ViewerOK
  BY DEF Inv
<1>2. /\ queue # <<>> /\ queue' = Tail(queue) /\ windows' = Apply(windows, item.msg)
      /\ touched' = touched \cup Behind(item.from, item.msg)
      /\ UNCHANGED <<script, conn, live, job, flags, pressed, up, crashes, synced, socks>>
  BY DEF ProcessMessage, ViewerStep
<1>3. queue \in Seq([from : Nat, msg : Frames \ {Ping}])
  BY <1>1 DEF ViewerOK
<1>4. /\ item \in [from : Nat, msg : Frames \ {Ping}]
      /\ Tail(queue) \in Seq([from : Nat, msg : Frames \ {Ping}])
      /\ \A i \in DOMAIN Tail(queue) : i + 1 \in DOMAIN queue /\ Tail(queue)[i] = queue[i + 1]
  <2>1. PICK T : T = [from : Nat, msg : Frames \ {Ping}]
    OBVIOUS
  <2>2. PICK q \in Seq(T) : q = queue /\ q # <<>>
    BY <1>2, <1>3, <2>1
  <2>3. /\ Tail(q) \in Seq(T) /\ Head(q) \in T
        /\ \A i \in DOMAIN Tail(q) : i + 1 \in DOMAIN q /\ Tail(q)[i] = q[i + 1]
    BY <2>2
  <2> QED BY <2>1, <2>2, <2>3
<1> HIDE DEF item
<1>5. PICK m \in Frames \ {Ping} : m = item.msg
  BY <1>4
<1>6. Shown(windows) => Shown(Apply(windows, m))
  BY ApplyFits
<1>7. Behind(item.from, m) \subseteq Windows
  BY BehindIs
<1>8. ViewerOK'
  <2>1. \A i \in DOMAIN queue' : queue'[i].from \in DOMAIN socks'
    BY <1>1, <1>2, <1>4 DEF ViewerOK
  <2>2. /\ DOMAIN windows' \subseteq Windows
        /\ \A w \in DOMAIN windows' : windows'[w] \in [series : Contents, surface : Contents]
    BY <1>1, <1>2, <1>5, <1>6 DEF ViewerOK, Shown
  <2>3. touched' \subseteq Windows
    BY <1>1, <1>2, <1>5, <1>7 DEF ViewerOK
  <2> QED BY <1>1, <1>2, <1>4, <2>1, <2>2, <2>3 DEF ViewerOK
<1>9. /\ \A s \in DOMAIN socks : WireFits(socks[s])
      /\ socks \in Seq(SockType)
  BY DEF Inv, SockOK
<1> QED BY <1>2, <1>8, <1>9, ViewerKeeps

LEMMA CrashStep ==
  ASSUME Inv, Crash
  PROVE  Inv'
<1>1. /\ socks \in Seq(SockType) /\ DOMAIN socks = 1..Len(socks) /\ Len(socks) \in Nat /\ ViewerOK
  BY DEF Inv
<1>2. ASSUME NEW s \in DOMAIN socks
      PROVE  /\ socks'[s] \in SockType /\ socks'[s].owner = socks[s].owner
             /\ socks[s].held => socks'[s].held
             /\ WireFits(socks'[s])
             /\ ~(socks'[s].served /\ socks'[s].held)
  <2> DEFINE dead == [socks[s] EXCEPT !.served = FALSE, !.wire = <<>>, !.owed = ""]
  <2>1. socks[s] \in SockType /\ socks[s].owner \in Clients
    <3>1. socks[s] \in SockType
      BY <1>1
    <3> QED BY <3>1 DEF SockType
  <2>2. <<>> \in Seq(Frames \cup {Cut})
    OBVIOUS
  <2>3. dead \in SockType /\ dead.owner = socks[s].owner /\ ~dead.served /\ dead.wire = <<>>
        /\ dead.held = socks[s].held
    BY <2>1, <2>2 DEF SockType
  <2>4. socks'[s] = IF socks[s].held THEN dead ELSE Closed(socks[s].owner)
    BY DEF Crash
  <2> HIDE DEF dead
  <2>5. WireFits(dead)
    BY <2>3 DEF WireFits
  <2>6. /\ Closed(socks[s].owner) \in SockType /\ WireFits(Closed(socks[s].owner))
        /\ Closed(socks[s].owner).owner = socks[s].owner /\ ~Closed(socks[s].owner).held
    BY <2>1, SockTypes
  <2>7. CASE socks[s].held
    BY <2>3, <2>4, <2>5, <2>7
  <2>8. CASE ~socks[s].held
    BY <2>4, <2>6, <2>8
  <2> QED BY <2>7, <2>8
<1>3. socks' \in Seq(SockType) /\ Len(socks') = Len(socks) /\ DOMAIN socks' = DOMAIN socks
  <2>1. socks' = [s \in 1..Len(socks) |-> socks'[s]]
    BY <1>1 DEF Crash
  <2>2. socks' \in [1..Len(socks) -> SockType]
    BY <1>1, <1>2, <2>1
  <2> QED BY <1>1, <2>2
<1>4. ViewerOK'
  <2>1. MaxCrashes \in Nat
    BY SessionAssumption DEF SessionAssumption
  <2>2. <<>> \in Seq([from : Nat, msg : Frames \ {Ping}])
    OBVIOUS
  <2>3. /\ up' = FALSE /\ crashes' = crashes + 1 /\ crashes < MaxCrashes
        /\ queue' = <<>> /\ windows' = <<>> /\ touched' = touched
    BY DEF Crash
  <2>4. crashes \in 0..MaxCrashes /\ touched \subseteq Windows
    BY <1>1 DEF ViewerOK
  <2>5. crashes' \in 0..MaxCrashes
    BY <2>1, <2>3, <2>4
  <2>6. DOMAIN windows' = {} /\ DOMAIN queue' = {}
    BY <2>3
  <2> QED BY <2>2, <2>3, <2>4, <2>5, <2>6 DEF ViewerOK
<1>5. UNCHANGED <<script, conn, live, job, flags, pressed, synced>>
  BY DEF Crash
<1> QED BY <1>2, <1>3, <1>4, <1>5, ViewerKeeps

LEMMA RestartStep ==
  ASSUME Inv, Restart
  PROVE  Inv'
<1>1. /\ \A s \in DOMAIN socks : WireFits(socks[s])
      /\ socks \in Seq(SockType) /\ ViewerOK
  BY DEF Inv, SockOK
<1>2. ViewerOK'
  BY <1>1 DEF Restart, ViewerOK
<1>3. UNCHANGED <<script, conn, live, job, flags, pressed, synced, socks>>
  BY DEF Restart
<1> QED BY <1>1, <1>2, <1>3, ViewerKeeps

-----------------------------------------------------------------------------
(***************************************************************************)
(* The invariant holds of every behaviour.                                 *)
(***************************************************************************)
LEMMA InitInv == Init => Inv
<1> SUFFICES ASSUME Init PROVE Inv
  OBVIOUS
<1>1. \A n \in {MaxStatements, MaxHandles, MaxCloseAlls, MaxAborts, MaxCrashes} : n \in Nat
  BY SessionAssumption DEF SessionAssumption
<1>2. PerClient
  BY DEF Init, PerClient
<1>3. ASSUME NEW c \in Clients PROVE ScriptOK(c) /\ LinkOK(c)
  <2>1. /\ said[c] = 0 /\ wiping[c] = 0 /\ store[c] = <<>>
        /\ current[c] = [handle |-> 0, content |-> Blank, output |-> Terminal]
        /\ handles[c] = 1 /\ ids[c] = 0 /\ conn[c] = NoConn /\ live[c] = NoLive
        /\ job[c] = NoJob /\ flags[c] = NoFlags /\ pressed[c] = 0 /\ synced[c] = Blank
        /\ socks = <<>>
    BY DEF Init
  <2>2. NoFlags \in FlagType
    BY DEF NoFlags, FlagType
  <2>3. Taken(c) = 0
    BY <2>1, NoJobIs DEF Taken
  <2>4. DOMAIN store[c] = {}
    BY <2>1
  <2>5. Terminal \in Outs(c, 0)
    BY FreshWindow
  <2>6. FiguresFit(store[c], current[c], handles[c], Outs(c, 0), live[c].win)
    <3>1. current[c] \in [handle : 0..(handles[c] - 1), content : Contents, output : Outs(c, 0)]
      BY <2>1, <2>5, BlankType
    <3>2. current[c].output = Terminal
      BY <2>1
    <3> QED BY <2>4, <3>1, <3>2 DEF FiguresFit, StoreFits, CurrentFits
  <2>7. ScriptOK(c)
    <3>1. job[c].kind = "none"
      BY <2>1, NoJobIs
    <3> QED BY <1>1, <2>1, <2>2, <2>3, <2>6, <3>1, BlankType DEF ScriptOK
  <2>8. ConnFits(NoConn, Outs(c, 0)) /\ LiveFits(NoLive, Outs(c, 0))
    BY <2>5 DEF ConnFits, LiveFits, NoConn, NoLive, Terminal
  <2>9. job[c].sock = 0 /\ conn[c].sock = 0 /\ live[c].sock = 0
    BY <2>1, NoJobIs DEF NoConn, NoLive
  <2>10. LinkOK(c)
    BY <2>1, <2>8, <2>9, NoJobFits DEF LinkOK
  <2> QED BY <2>7, <2>10
<1>4. socks \in Seq(SockType) /\ DOMAIN socks = {}
  BY DEF Init
<1>5. ViewerOK
  <2>1. <<>> \in Seq([from : Nat, msg : Frames \ {Ping}])
    OBVIOUS
  <2> QED BY <1>1, <2>1 DEF Init, ViewerOK
<1> QED BY <1>2, <1>3, <1>4, <1>5 DEF Inv

LEMMA StutterInv ==
  ASSUME Inv, UNCHANGED vars
  PROVE  Inv'
<1>1. /\ \A s \in DOMAIN socks : WireFits(socks[s])
      /\ socks \in Seq(SockType) /\ ViewerOK
  BY DEF Inv, SockOK
<1>2. UNCHANGED <<script, conn, live, job, flags, pressed, synced>> /\ UNCHANGED socks
      /\ UNCHANGED <<up, crashes, queue, windows, touched>>
  BY DEF vars, viewer
<1>3. ViewerOK'
  BY <1>1, <1>2 DEF ViewerOK
<1> QED BY <1>1, <1>2, <1>3, ViewerKeeps

LEMMA SaysStep ==
  ASSUME Inv, NEW c \in Clients, Says(c)
  PROVE  ClientStep(c)
<1>1. LiveUpdate(c) \/ LiveDraw(c) => ClientStep(c)
  BY LiveSendStep DEF LiveUpdate, LiveDraw
<1> QED BY <1>1, PlotStep, FigureNewStep, FigureSwitchStep, CloseStoredStep, CloseCurrentStep,
           CloseAllStep, ViewerOnStep, ViewerOffStep, LiveOpenStep, LiveLabelStep,
           LiveCloseStep, NextLineStep DEF Says

LEMMA WorksStep ==
  ASSUME Inv, NEW c \in Clients, Works(c)
  PROVE  ClientStep(c)
<1>1. Ending(c) \/ WorkStep(c) => ClientStep(c)
  BY EndingStep, WorkStepStep
<1> QED BY <1>1, SendWorks, ReadReplyWorks, InterruptedEnds, LoseSyncEnds, LoseLiveEnds,
           LoseDialEnds, LoseResetWorks, LoseTellEnds, ConnectedStep, LiveConnectedStep,
           SyncedEnds, LiveSentEnds, ToldEnds DEF Works

LEMMA NextInv == Inv /\ [Next]_vars => Inv'
<1> SUFFICES ASSUME Inv, [Next]_vars PROVE Inv'
  OBVIOUS
<1>1. CASE \E c \in Clients : Says(c) \/ Works(c) \/ Press(c)
  <2>1. PICK c \in Clients : Says(c) \/ Works(c) \/ Press(c)
    BY <1>1
  <2>2. ClientStep(c)
    BY <2>1, SaysStep, WorksStep, PressStep
  <2> QED BY <2>2, ClientStepKeeps
<1>2. CASE \E s \in DOMAIN socks : Serves(s)
  <2>1. PICK s \in DOMAIN socks : Serves(s)
    BY <1>2
  <2>2. Served(s)
    BY <2>1, TakeStep, ReplyStep, HangupStep DEF Serves
  <2> QED BY <2>2, ServedKeeps
<1>3. CASE UNCHANGED vars
  BY <1>3, StutterInv
<1> QED BY <1>1, <1>2, <1>3, ProcessMessageStep, CrashStep, RestartStep DEF Next

LEMMA InvHolds == Spec => []Inv
BY InitInv, NextInv, PTL DEF Spec

(* However scripts plot, dial, close, are interrupted and find the viewer  *)
(* dead, a frame that was cut short is the last thing on its connection,   *)
(* and no script still holds that connection: framing is never lost for a  *)
(* later message (plot_abort.rs, viewer_live.rs note_send, abort_sync).    *)
THEOREM FramesStayWhole == Spec => []CutIsLast
<1>1. Inv => CutIsLast
  BY DEF Inv, SockOK, WireFits, CutIsLast
<1> QED BY <1>1, InvHolds, PTL

(* On a connection that a script holds and the viewer serves, the replies  *)
(* read, under way, or owed for what is on the wire are the one answer the *)
(* script waits for and at most one for every "close all": no answer is    *)
(* ever missing, and none is taken for another beyond those.               *)
THEOREM RepliesStayInStep == Spec => []RepliesInStep
<1>1. ASSUME Inv, NEW s \in DOMAIN socks, socks[s].served, socks[s].held
      PROVE  Coming(s) \in Expected(s)..(Expected(s) + wiping[socks[s].owner])
  <2>1. socks[s] \in SockType /\ socks[s].owner \in Clients /\ s # 0
    <3>1. socks[s] \in SockType /\ s # 0
      BY <1>1 DEF Inv
    <3> QED BY <3>1 DEF SockType
  <2> DEFINE c == socks[s].owner
  <2>2. Expected(s) = Awaits(job[c], s)
    <3>1. ASSUME NEW d \in Clients, job[d].sock = s PROVE d = c
      BY <1>1, <2>1, <3>1 DEF Inv, LinkOK, Holds
    <3> QED BY <2>1, <3>1 DEF Expected, Awaits
  <2>3. Coming(s) = Due(socks[s])
    BY DEF Coming, Due, Answers
  <2>4. Due(socks[s]) \in Nat
    BY <2>1, DueIsNat
  <2>5. InStep(socks[s], s, job[c], wiping[c])
    BY <1>1 DEF Inv, SockOK
  <2>6. wiping[c] \in Nat /\ Slack(job[c], s) \in 0..1 /\ Awaits(job[c], s) \in 0..1
    <3>1. wiping[c] \in 0..MaxCloseAlls /\ MaxCloseAlls \in Nat
      BY <1>1, <2>1, SessionAssumption DEF Inv, ScriptOK, SessionAssumption
    <3> QED BY <3>1 DEF Slack, Awaits
  <2> HIDE DEF c
  <2>7. Due(socks[s]) \in Awaits(job[c], s)..(Awaits(job[c], s) + wiping[c])
    BY <1>1, <2>4, <2>5, <2>6 DEF InStep
  <2> QED BY <2>2, <2>3, <2>7 DEF c
<1>2. Inv => RepliesInStep
  BY <1>1 DEF RepliesInStep
<1> QED BY <1>2, InvHolds, PTL

(* A figure number names one figure, and no two figures of a script, the   *)
(* live one included, share a window, through any sequence of figure,      *)
(* close, "viewer on" and "viewer off", and lost connections.              *)
THEOREM FiguresStayApart == Spec => []FiguresApart
<1>1. ASSUME Inv, NEW c \in Clients
      PROVE  LET shared == { h \in DOMAIN store[c] : store[c][h].output # Terminal } IN
             /\ current[c].handle \notin DOMAIN store[c]
             /\ \A h \in DOMAIN store[c] \cup {current[c].handle} : h < handles[c]
             /\ \A h \in shared : store[c][h].output \notin {current[c].output, live[c].win}
             /\ \A g, h \in shared : store[c][g].output = store[c][h].output => g = h
  <2>1. FiguresFit(store[c], current[c], handles[c], Outs(c, ids[c]), live[c].win)
        /\ handles[c] \in Nat
    BY <1>1, FiguresWider
  <2> QED BY <2>1 DEF FiguresFit, StoreFits, CurrentFits
<1>2. Inv => FiguresApart
  BY <1>1 DEF FiguresApart
<1> QED BY <1>2, InvHolds, PTL

LEMMA SeqInto ==
  ASSUME NEW S, NEW T, NEW w \in Seq(S), \A i \in DOMAIN w : w[i] \in T
  PROVE  w \in Seq(T)
<1>1. Len(w) \in Nat /\ DOMAIN w = 1..Len(w)
  OBVIOUS
<1>2. w = [i \in 1..Len(w) |-> w[i]]
  BY <1>1
<1> QED BY <1>1, <1>2

LEMMA SeqWider ==
  ASSUME NEW S, NEW T, S \subseteq T, NEW w \in Seq(S)
  PROVE  w \in Seq(T)
<1>1. \A i \in DOMAIN w : w[i] \in T
  OBVIOUS
<1> QED BY <1>1, SeqInto

LEMMA FramesAreMessages == Frames \cup {Cut} \subseteq Messages
<1>1. Frames \subseteq Messages
  BY FramesAre DEF Messages
<1>2. Cut \in Messages
  BY BlankType DEF Cut, Message, Messages, Types, Outputs, NoWindow, Terminal
<1> QED BY <1>1, <1>2

(* Every variable keeps its type; what a script's job, its plots and its   *)
(* live figure write to is a connection of that script which it still      *)
(* holds, and plots and live figure never share one.                       *)
THEOREM TypeCorrect == Spec => []TypeOK
<1> SUFFICES Inv => TypeOK
  BY InvHolds, PTL
<1> SUFFICES ASSUME Inv PROVE TypeOK
  OBVIOUS
<1>1. \A n \in {MaxStatements, MaxHandles, MaxCloseAlls, MaxAborts, MaxCrashes} : n \in Nat
  BY SessionAssumption DEF SessionAssumption
<1>2. PerClient /\ ViewerOK /\ socks \in Seq(SockType) /\ DOMAIN socks = 1..Len(socks)
      /\ Len(socks) \in Nat
  BY DEF Inv
<1>3. ASSUME NEW c \in Clients
      PROVE  /\ said[c] \in 0..MaxStatements /\ wiping[c] \in 0..MaxCloseAlls
             /\ handles[c] \in Handles /\ ids[c] \in Nat
             /\ flags[c] \in FlagType /\ pressed[c] \in 0..MaxAborts /\ synced[c] \in Contents
             /\ DOMAIN store[c] \subseteq Handles
             /\ \A h \in DOMAIN store[c] : store[c][h] \in [content : Contents, output : Outputs]
             /\ current[c] \in [handle : Handles, content : Contents, output : Outputs]
  <2>1. ScriptOK(c)
    BY DEF Inv
  <2>2. /\ said[c] \in 0..MaxStatements /\ ids[c] \in 0..said[c]
        /\ handles[c] \in 1..(MaxHandles + 1 + said[c])
    BY <2>1 DEF ScriptOK
  <2>3. handles[c] \in Handles /\ ids[c] \in Nat /\ 0..(handles[c] - 1) \subseteq Handles
    BY <1>1, <2>2 DEF Handles
  <2>4. Outs(c, ids[c]) \subseteq Outputs
    <3>1. ids[c] \in Int /\ ids[c] <= MaxStatements + 1
      BY <1>1, <2>2
    <3> QED BY <3>1, OutsAreOutputs
  <2>5. FiguresFit(store[c], current[c], handles[c], Outs(c, ids[c]), live[c].win)
    BY FiguresWider
  <2>6. /\ DOMAIN store[c] \subseteq 1..(handles[c] - 1)
        /\ \A h \in DOMAIN store[c] :
             store[c][h] \in [content : Contents, output : Outs(c, ids[c])]
        /\ current[c] \in [handle : 0..(handles[c] - 1), content : Contents,
                           output : Outs(c, ids[c])]
    BY <2>5 DEF FiguresFit, StoreFits, CurrentFits
  <2>7. DOMAIN store[c] \subseteq Handles
    <3>1. 1..(handles[c] - 1) \subseteq 0..(handles[c] - 1)
      BY <1>1, <2>2
    <3> QED BY <2>3, <2>6, <3>1
  <2> QED BY <2>1, <2>3, <2>4, <2>6, <2>7 DEF ScriptOK
<1>4. ASSUME NEW c \in Clients
      PROVE  /\ conn[c] \in [sock : 0..Len(socks), win : Outputs, opened : BOOLEAN]
             /\ live[c] \in [sock : 0..Len(socks), win : Outputs]
             /\ job[c] \in Jobs /\ job[c].sock \in 0..Len(socks)
             /\ \A s \in {job[c].sock, conn[c].sock, live[c].sock} \ {0} :
                  socks[s].owner = c /\ socks[s].held
             /\ conn[c].sock = live[c].sock => conn[c].sock = 0
  <2>1. LinkOK(c)
    BY DEF Inv
  <2>2. Outs(c, ids[c]) \subseteq Outputs
    <3>1. said[c] \in 0..MaxStatements /\ ids[c] \in 0..said[c]
      BY DEF Inv, ScriptOK
    <3>2. ids[c] \in Int /\ ids[c] <= MaxStatements + 1
      BY <1>1, <3>1
    <3> QED BY <3>2, OutsAreOutputs
  <2>3. \A s \in {job[c].sock, conn[c].sock, live[c].sock} :
          s # 0 => s \in 1..Len(socks) /\ socks[s].owner = c /\ socks[s].held
    BY <1>2, <2>1 DEF LinkOK, Holds
  <2>4. \A s \in {job[c].sock, conn[c].sock, live[c].sock} : s \in 0..Len(socks)
    BY <1>2, <2>3
  <2>5. /\ conn[c] \in [sock : Nat, win : Outs(c, ids[c]), opened : BOOLEAN]
        /\ live[c] \in [sock : Nat, win : Outs(c, ids[c])]
        /\ job[c] \in JobType
        /\ conn[c].sock = live[c].sock => conn[c].sock = 0
    BY <2>1 DEF LinkOK, ConnFits, LiveFits, JobFits
  <2>6. job[c] \in Jobs
    <3>1. job[c].todo \in Seq(Messages)
      <4>1. job[c].todo \in Seq(Frames)
        BY <2>5 DEF JobType
      <4>2. Frames \subseteq Messages
        BY FramesAreMessages
      <4> QED BY <4>1, <4>2, SeqWider
    <3> QED BY <2>5, <3>1 DEF JobType, Jobs
  <2> QED BY <2>2, <2>3, <2>4, <2>5, <2>6
<1>5. socks \in Seq([owner : Clients, wire : Seq(Messages), replies : Seq(Types),
                     owed : Types \cup {""}, served : BOOLEAN, held : BOOLEAN])
  <2>1. PICK T : T = [owner : Clients, wire : Seq(Messages), replies : Seq(Types),
                      owed : Types \cup {""}, served : BOOLEAN, held : BOOLEAN]
    OBVIOUS
  <2>2. \A w \in Seq(Frames \cup {Cut}) : w \in Seq(Messages)
    BY FramesAreMessages, SeqWider
  <2>3. SockType \subseteq T
    BY <2>1, <2>2 DEF SockType
  <2>4. socks \in Seq(T)
    BY <1>2, <2>3, SeqWider
  <2> QED BY <2>1, <2>4
<1>6. /\ up \in BOOLEAN /\ crashes \in 0..MaxCrashes
      /\ DOMAIN windows \subseteq Windows
      /\ \A w \in DOMAIN windows : windows[w] \in [series : Contents, surface : Contents]
      /\ touched \subseteq Windows
  BY <1>2 DEF ViewerOK
<1>7. queue \in Seq([from : 1..Len(socks), msg : Messages])
  <2>1. queue \in Seq([from : Nat, msg : Frames \ {Ping}])
        /\ \A i \in DOMAIN queue : queue[i].from \in 1..Len(socks)
    BY <1>2 DEF ViewerOK
  <2>2. /\ DOMAIN queue = 1..Len(queue) /\ Len(queue) \in Nat
        /\ \A i \in DOMAIN queue : queue[i] \in [from : Nat, msg : Frames \ {Ping}]
    <3>1. PICK S : S = [from : Nat, msg : Frames \ {Ping}]
      OBVIOUS
    <3>2. PICK q \in Seq(S) : q = queue
      BY <2>1, <3>1
    <3>3. DOMAIN q = 1..Len(q) /\ Len(q) \in Nat /\ \A i \in DOMAIN q : q[i] \in S
      BY <3>2
    <3> QED BY <3>1, <3>2, <3>3
  <2>3. Frames \subseteq Messages
    BY FramesAreMessages
  <2>4. ASSUME NEW x, x \in [from : Nat, msg : Frames \ {Ping}], x.from \in 1..Len(socks)
        PROVE  x \in [from : 1..Len(socks), msg : Messages]
    BY <2>3, <2>4
  <2>5. \A i \in 1..Len(queue) : queue[i] \in [from : 1..Len(socks), msg : Messages]
    BY <2>1, <2>2, <2>4
  <2> QED BY <2>1, <2>2, <2>5, SeqInto
<1>8. /\ said \in [Clients -> 0..MaxStatements]
      /\ wiping \in [Clients -> 0..MaxCloseAlls]
      /\ current \in [Clients -> [handle : Handles, content : Contents, output : Outputs]]
      /\ handles \in [Clients -> Handles]
      /\ ids \in [Clients -> Nat]
      /\ flags \in [Clients -> [signal : BOOLEAN, sticky : BOOLEAN, partial : BOOLEAN]]
      /\ pressed \in [Clients -> 0..MaxAborts]
      /\ synced \in [Clients -> Contents]
  <2>1. \A c \in Clients : flags[c] \in [signal : BOOLEAN, sticky : BOOLEAN, partial : BOOLEAN]
    BY <1>3 DEF FlagType
  <2> QED BY <1>2, <1>3, <2>1 DEF PerClient
<1>9. /\ conn \in [Clients -> [sock : 0..Len(socks), win : Outputs, opened : BOOLEAN]]
      /\ live \in [Clients -> [sock : 0..Len(socks), win : Outputs]]
      /\ job \in [Clients -> Jobs]
  BY <1>2, <1>4 DEF PerClient
<1> QED BY <1>3, <1>4, <1>5, <1>6, <1>7, <1>8, <1>9 DEF TypeOK

-----------------------------------------------------------------------------
(***************************************************************************)
(* Plots arrive.  What will come of a window: what it shows, as a set that *)
(* is empty when the window is not there, and what is left of it when the  *)
(* messages on their way have been processed.                              *)
(***************************************************************************)
At(ws, w) == IF w \in DOMAIN ws THEN {ws[w]} ELSE {}

Drawn(p, content) ==
  IF content.kind = "surface" THEN [series |-> Blank, surface |-> content]
  ELSE [series |-> content, surface |-> p.surface]

Effect(w, v, m) ==
  IF m.type = "Reset" THEN {}
  ELSE IF m.win # w THEN v
  ELSE CASE m.type = "FigureOpen" -> IF v = {} THEN {Panel} ELSE v
         [] m.type = "PanelUpdate" -> {Drawn(p, m.content) : p \in v}
         [] m.type = "Close" -> {}
         [] OTHER -> v

(* The first n of messages ms take window w from v through the values of f. *)
Course(f, w, v, ms, n) ==
  f[0] = v /\ \A i \in 1..n : f[i] = Effect(w, f[i - 1], ms[i])

After(w, v, ms) == (CHOOSE f : Course(f, w, v, ms, Len(ms)))[Len(ms)]

LEMMA CourseExists ==
  ASSUME NEW w, NEW v, NEW ms, Len(ms) \in Nat
  PROVE  \E f : Course(f, w, v, ms, Len(ms))
<1> DEFINE S == {n \in 0..Len(ms) : \E f : Course(f, w, v, ms, n)}
<1>1. 0 \in S
  <2>1. Course([i \in {0} |-> v], w, v, ms, 0)
    BY DEF Course
  <2>2. \E f : Course(f, w, v, ms, 0)
    BY <2>1
  <2> QED BY <2>2
<1>2. S \in SUBSET Nat /\ IsFiniteSet(S) /\ S # {}
  <2>1. IsFiniteSet(0..Len(ms))
    BY FS_Interval
  <2>2. S \subseteq 0..Len(ms)
    OBVIOUS
  <2>3. IsFiniteSet(S)
    BY <2>1, <2>2, FS_Subset
  <2> QED BY <1>1, <2>2, <2>3
<1>3. PICK n \in S : \A k \in S : k <= n
  <2> HIDE DEF S
  <2> QED BY <1>2, LastExists
<1>4. PICK f : Course(f, w, v, ms, n)
  OBVIOUS
<1>5. ASSUME n < Len(ms) PROVE FALSE
  <2> DEFINE g == [i \in 0..(n + 1) |-> IF i = n + 1 THEN Effect(w, f[n], ms[n + 1]) ELSE f[i]]
  <2>1. n \in Nat
    OBVIOUS
  <2>2. g[0] = f[0]
    BY <2>1
  <2>3. ASSUME NEW i \in 1..(n + 1) PROVE g[i] = Effect(w, g[i - 1], ms[i])
    <3>1. g[i - 1] = f[i - 1]
      BY <2>1
    <3>2. CASE i = n + 1
      BY <2>1, <3>1, <3>2
    <3>3. CASE i \in 1..n
      <4>1. g[i] = f[i]
        BY <2>1, <3>3
      <4> QED BY <1>4, <3>1, <3>3, <4>1 DEF Course
    <3> QED BY <2>1, <3>2, <3>3
  <2>4. Course(g, w, v, ms, n + 1)
    <3> HIDE DEF g
    <3> QED BY <1>4, <2>2, <2>3 DEF Course
  <2>5. n + 1 \in 0..Len(ms) /\ \E h : Course(h, w, v, ms, n + 1)
    <3>1. n + 1 \in 0..Len(ms)
      BY <1>5, <2>1
    <3> HIDE DEF g
    <3> QED BY <2>4, <3>1
  <2>6. n + 1 \in S
    BY <2>5
  <2>7. n + 1 <= n
    <3> HIDE DEF S
    <3> QED BY <1>3, <2>6
  <2> QED BY <2>1, <2>7
<1>6. n = Len(ms)
  <2>1. n \in 0..Len(ms)
    OBVIOUS
  <2> HIDE DEF S
  <2>2. ~(n < Len(ms))
    BY <1>5
  <2> QED BY <2>1, <2>2
<1> QED BY <1>4, <1>6

LEMMA CoursesAgree ==
  ASSUME NEW w, NEW v, NEW ms, NEW n \in Nat, NEW f, NEW g,
         Course(f, w, v, ms, n), Course(g, w, v, ms, n)
  PROVE  f[n] = g[n]
<1> DEFINE T == {i \in 0..n : \A j \in 0..i : f[j] = g[j]}
<1>1. 0 \in T
  BY DEF Course
<1>2. T \in SUBSET Nat /\ IsFiniteSet(T) /\ T # {}
  <2>1. IsFiniteSet(0..n)
    BY FS_Interval
  <2>2. T \subseteq 0..n
    OBVIOUS
  <2>3. IsFiniteSet(T)
    BY <2>1, <2>2, FS_Subset
  <2> QED BY <1>1, <2>2, <2>3
<1>3. PICK k \in T : \A j \in T : j <= k
  <2> HIDE DEF T
  <2> QED BY <1>2, LastExists
<1>4. ASSUME k < n PROVE FALSE
  <2>1. k \in Nat /\ k + 1 \in 1..n /\ (k + 1) - 1 = k
    BY <1>4
  <2>2. f[k + 1] = Effect(w, f[k], ms[k + 1]) /\ g[k + 1] = Effect(w, g[k], ms[k + 1])
    BY <2>1 DEF Course
  <2>3. f[k + 1] = g[k + 1]
    BY <2>1, <2>2
  <2>4. \A j \in 0..(k + 1) : f[j] = g[j]
    BY <2>1, <2>3
  <2>5. k + 1 \in T
    BY <2>1, <2>4
  <2> QED BY <1>3, <2>1, <2>5
<1>5. k = n
  <2>1. k \in 0..n
    OBVIOUS
  <2> HIDE DEF T
  <2>2. ~(k < n)
    BY <1>4
  <2> QED BY <2>1, <2>2
<1> QED BY <1>5

LEMMA AfterCourse ==
  ASSUME NEW w, NEW v, NEW ms, Len(ms) \in Nat, NEW f, Course(f, w, v, ms, Len(ms))
  PROVE  After(w, v, ms) = f[Len(ms)]
<1>1. \E g : Course(g, w, v, ms, Len(ms))
  OBVIOUS
<1>2. PICK g : g = CHOOSE h : Course(h, w, v, ms, Len(ms))
  OBVIOUS
<1>3. Course(g, w, v, ms, Len(ms))
  BY <1>1, <1>2
<1>4. f[Len(ms)] = g[Len(ms)]
  BY <1>3, CoursesAgree
<1> QED BY <1>2, <1>4 DEF After

LEMMA AfterNone ==
  ASSUME NEW w, NEW v
  PROVE  After(w, v, <<>>) = v
<1>1. Len(<<>>) = 0
  OBVIOUS
<1>2. PICK f : Course(f, w, v, <<>>, 0)
  BY <1>1, CourseExists
<1>3. After(w, v, <<>>) = f[0]
  BY <1>1, <1>2, AfterCourse
<1> QED BY <1>2, <1>3 DEF Course

LEMMA AfterAppend ==
  ASSUME NEW w, NEW v, NEW T, NEW ms \in Seq(T), NEW m
  PROVE  After(w, v, Append(ms, m)) = Effect(w, After(w, v, ms), m)
<1> DEFINE n == Len(ms)
           more == Append(ms, m)
<1>1. n \in Nat /\ Len(more) = n + 1 /\ more[n + 1] = m /\ \A i \in 1..n : more[i] = ms[i]
  OBVIOUS
<1>2. PICK f : Course(f, w, v, more, n + 1)
  <2>1. Len(more) \in Nat
    BY <1>1
  <2> HIDE DEF more
  <2> QED BY <1>1, <2>1, CourseExists
<1> HIDE DEF n, more
<1>3. Course(f, w, v, ms, n)
  BY <1>1, <1>2 DEF Course
<1>4. f[n + 1] = Effect(w, f[n], m)
  <2>1. n + 1 \in 1..(n + 1) /\ (n + 1) - 1 = n
    BY <1>1
  <2> QED BY <1>1, <1>2, <2>1 DEF Course
<1>5. After(w, v, ms) = f[n]
  BY <1>1, <1>3, AfterCourse DEF n
<1>6. After(w, v, more) = f[n + 1]
  <2>1. Len(more) \in Nat
    BY <1>1
  <2> QED BY <1>1, <1>2, <2>1, AfterCourse
<1> QED BY <1>4, <1>5, <1>6 DEF more

LEMMA AfterTail ==
  ASSUME NEW w, NEW v, NEW T, NEW ms \in Seq(T), ms # <<>>
  PROVE  After(w, v, ms) = After(w, Effect(w, v, Head(ms)), Tail(ms))
<1> DEFINE n == Len(ms)
           rest == Tail(ms)
           u == Effect(w, v, Head(ms))
<1>1. n \in Nat \ {0} /\ Len(rest) = n - 1 /\ Head(ms) = ms[1]
      /\ \A i \in 1..(n - 1) : rest[i] = ms[i + 1]
  OBVIOUS
<1>2. PICK f : Course(f, w, v, ms, n)
  BY <1>1, CourseExists
<1> DEFINE g == [i \in 0..(n - 1) |-> f[i + 1]]
<1> HIDE DEF n, rest
<1>3. Course(g, w, u, rest, n - 1)
  <2>1. g[0] = u
    <3>1. 1 \in 1..n /\ 1 - 1 = 0 /\ g[0] = f[1] /\ f[0] = v
      BY <1>1, <1>2 DEF Course
    <3> QED BY <1>1, <1>2, <3>1 DEF Course
  <2>2. ASSUME NEW i \in 1..(n - 1) PROVE g[i] = Effect(w, g[i - 1], rest[i])
    <3>1. i + 1 \in 1..n /\ (i + 1) - 1 = i /\ g[i] = f[i + 1] /\ g[i - 1] = f[i]
      BY <1>1
    <3>2. f[i + 1] = Effect(w, f[(i + 1) - 1], ms[i + 1])
      BY <1>2, <3>1 DEF Course
    <3> QED BY <1>1, <3>1, <3>2
  <2> HIDE DEF g, u
  <2> QED BY <2>1, <2>2 DEF Course
<1>4. After(w, v, ms) = f[n]
  BY <1>1, <1>2, AfterCourse DEF n
<1>5. After(w, u, rest) = g[n - 1] /\ g[n - 1] = f[n]
  <2>1. n - 1 \in Nat /\ n - 1 \in 0..(n - 1) /\ (n - 1) + 1 = n
    BY <1>1
  <2>2. g[n - 1] = f[n]
    BY <2>1
  <2> HIDE DEF g, u
  <2> QED BY <1>1, <1>3, <2>1, <2>2, AfterCourse
<1> QED BY <1>4, <1>5 DEF rest

LEMMA AppendedAre ==
  ASSUME NEW T, NEW ms \in Seq(T), NEW m
  PROVE  \A i \in DOMAIN Append(ms, m) :
           Append(ms, m)[i] = m \/ (i \in DOMAIN ms /\ Append(ms, m)[i] = ms[i])
OBVIOUS

(* The messages of the app's queue, and what comes of window w when it has *)
(* them behind it, and wire after them.                                    *)
Msgs(q) == [i \in DOMAIN q |-> q[i].msg]
Pending(w) == After(w, At(windows, w), Msgs(queue))
Reaches(w, wire) == After(w, Pending(w), wire)

Shows(v, content) == v # {} /\ \A p \in v : content \in {p.series, p.surface}

(***************************************************************************)
(* The invariant behind it.  A script names windows of its own; aside are  *)
(* those it has numbered and does not plot to, which is where its live     *)
(* figures are.                                                            *)
(***************************************************************************)
Own(c) == {NoWindow} \cup {Window(c, n) : n \in Nat}
Plotted(c) ==
  {current[c].output, conn[c].win} \cup {store[c][h].output : h \in DOMAIN store[c]}
Apart(c) == {Window(c, n) : n \in 0..(ids[c] - 1)} \ Plotted(c)

(* A dialling job between its Ping and the end of its Reset.               *)
Wipes(j) == j.kind \in {"on", "sync"} /\ j.dialling /\ j.todo # <<Ping, Reset>>

(* On connections that are not that of the plots, frames are for windows   *)
(* aside, but for a Reset of a job that dials.  A connection on its way    *)
(* out, once "viewer off" has been said, is nothing to worry about.        *)
Aside(m, s, j, aside) ==
  \/ m = Ping
  \/ m = Reset /\ s = j.sock /\ Wipes(j)
  \/ m # Reset /\ m.win \in aside

FramesMean(c, s, sk, k, j, aside) ==
  /\ \A i \in DOMAIN sk.wire : sk.wire[i].win \in Own(c)
  /\ s # k.sock /\ ~(k.sock = 0 /\ j.kind = "part" /\ j.sock = s) =>
       \A i \in DOMAIN sk.wire : Aside(sk.wire[i], s, j, aside)

FramesOK(c) ==
  \A s \in DOMAIN socks : socks[s].owner = c /\ socks[s].held =>
    FramesMean(c, s, socks[s], conn[c], job[c], Apart(c))

(* What a job has still to say, to the plots' connection or another.       *)
Elsewhere(j, k) ==
  \/ j.kind \in {"open", "update", "draw"}
  \/ j.kind = "part" /\ k.sock # 0
  \/ j.kind = "tell" /\ j.sock # k.sock

Harmless(m, k, output, plot) ==
  \/ m = Reset /\ ~k.opened /\ plot = Blank
  \/ \E win \in Windows : m = Close(win) /\ (win = k.win => output = Terminal)

JobMeans(c, j, k, output, plot, aside) ==
  /\ \A i \in DOMAIN j.todo : j.todo[i].win \in Own(c)
  /\ j.kind \in {"on", "sync"} /\ j.dialling => j.todo \in {<<Ping, Reset>>, <<Reset>>, <<>>}
  /\ Elsewhere(j, k) =>
       \A i \in DOMAIN j.todo : j.todo[i] \notin {Ping, Reset} /\ j.todo[i].win \in aside
  /\ j.kind = "tell" /\ j.sock = k.sock =>
       \A i \in DOMAIN j.todo : Harmless(j.todo[i], k, output, plot)
  /\ j.kind = "sync" => output # Terminal

JobOK(c) ==
  /\ JobMeans(c, job[c], conn[c], current[c].output, synced[c], Apart(c))
  /\ job[c].kind = "open" => Window(c, ids[c] - 1) \in Apart(c)

PlotsOK(c) ==
  /\ synced[c] # Blank => current[c].output # Terminal
  /\ conn[c].sock # 0 /\ current[c].output # Terminal =>
       \A h \in DOMAIN store[c] : store[c][h].output # conn[c].win
  /\ live[c].win # NoWindow => live[c].win \in Apart(c)

(* The window of the plots was changed behind the script's back, or will   *)
(* be by a message that is in the queue.                                   *)
Excused(c) ==
  \/ conn[c].win \in touched
  \/ \E i \in DOMAIN queue : conn[c].win \in Behind(queue[i].from, queue[i].msg)

(* A plot on its way: v is what comes of its window.                       *)
Syncing(j, win, content, v) ==
  \/ j.todo = <<Open(win), Update(win, content), Redraw(win)>> /\ (j.waiting => v # {})
  \/ j.todo = <<Update(win, content), Redraw(win)>> /\ ~j.waiting /\ v # {}
  \/ j.todo \in {<<Redraw(win)>>, <<>>} /\ Shows(v, content)

Promised(k, j, figure, plot, v) ==
  /\ k.opened /\ figure.output # Terminal => v # {}
  /\ j.kind = "sync" => Syncing(j, k.win, figure.content, v)
  /\ j.kind # "sync" /\ plot # Blank => Shows(v, plot)

PromiseOK(c) ==
  conn[c].sock # 0 /\ socks[conn[c].sock].served /\ ~Excused(c)
    /\ ~(job[c].kind = "on" /\ Wipes(job[c])) =>
      Promised(conn[c], job[c], current[c], synced[c],
               Reaches(conn[c].win, socks[conn[c].sock].wire))

Windowed(c) == FramesOK(c) /\ JobOK(c) /\ PlotsOK(c) /\ PromiseOK(c)
WInv == \A c \in Clients : Windowed(c)

-----------------------------------------------------------------------------
(* What is behind a script's back stays so.                                *)
LEMMA BehindGrows ==
  ASSUME NEW s, NEW m, \A d \in Clients : ids[d] \in Nat /\ ids'[d] \in Nat /\ ids[d] <= ids'[d],
         socks'[s].owner = socks[s].owner, socks'[s].held => socks[s].held
  PROVE  Behind(s, m) \subseteq Behind(s, m)'
<1>1. Known \subseteq Known'
  <2>1. ASSUME NEW d \in Clients, NEW n \in 0..(ids[d] - 1) PROVE n \in 0..(ids'[d] - 1)
    <3>1. ids[d] \in Nat /\ ids'[d] \in Nat /\ ids[d] <= ids'[d]
      OBVIOUS
    <3> QED BY <3>1
  <2>2. ASSUME NEW w \in Known PROVE w \in Known'
    <3>1. PICK d \in Clients : w \in {Window(d, n) : n \in 0..(ids[d] - 1)}
      BY DEF Known
    <3>2. PICK n \in 0..(ids[d] - 1) : w = Window(d, n)
      BY <3>1
    <3>3. n \in 0..(ids'[d] - 1)
      BY <2>1, <3>2
    <3>4. w \in {Window(d, i) : i \in 0..(ids'[d] - 1)}
      BY <3>2, <3>3
    <3> QED BY <3>4 DEF Known
  <2> QED BY <2>2
<1>2. CASE m.type = "Reset"
  BY <1>1, <1>2 DEF Behind
<1>3. CASE m.type # "Reset"
  BY <1>3 DEF Behind
<1> QED BY <1>2, <1>3

LEMMA ExcusedStays ==
  ASSUME Inv, UNCHANGED <<queue, touched>>, NEW c \in Clients, conn'[c].win = conn[c].win,
         \A d \in Clients : ids[d] \in Nat /\ ids'[d] \in Nat /\ ids[d] <= ids'[d],
         \A s \in DOMAIN socks : socks'[s].owner = socks[s].owner
                                 /\ (socks'[s].held => socks[s].held),
         Excused(c)
  PROVE  Excused(c)'
<1>1. CASE conn[c].win \in touched
  BY <1>1 DEF Excused
<1>2. ASSUME NEW i \in DOMAIN queue, conn[c].win \in Behind(queue[i].from, queue[i].msg)
      PROVE  Excused(c)'
  <2>1. PICK s, m : s = queue[i].from /\ m = queue[i].msg
    OBVIOUS
  <2>2. s \in DOMAIN socks
    BY <2>1 DEF Inv, ViewerOK
  <2>3. Behind(s, m) \subseteq Behind(s, m)'
    BY <2>2, BehindGrows
  <2>4. queue'[i].from = s /\ queue'[i].msg = m /\ i \in DOMAIN queue'
    BY <2>1
  <2>5. conn'[c].win \in Behind(s, m)'
    BY <1>2, <2>1, <2>3
  <2>6. conn'[c].win \in Behind(queue[i].from, queue[i].msg)'
    BY <2>4, <2>5 DEF Behind, Known
  <2> QED BY <2>4, <2>6 DEF Excused
<1> QED BY <1>1, <1>2 DEF Excused

(* A script's step leaves the other scripts' windows alone.                *)
LEMMA WindowedStep ==
  ASSUME Inv, WInv, NEW c \in Clients, ClientStep(c), ids[c] <= ids'[c],
         \A s \in DOMAIN socks : socks'[s].held => socks[s].held,
         Windowed(c)'
  PROVE  WInv'
<1>1. Inv'
  BY ClientStepKeeps
<1>2. /\ UNCHANGED <<queue, windows, touched>>
      /\ Others(c) /\ SocksMove(c)
  BY DEF ClientStep, viewer
<1>3. /\ DOMAIN socks = 1..Len(socks) /\ DOMAIN socks' = 1..Len(socks')
      /\ DOMAIN socks \subseteq DOMAIN socks'
  BY <1>1, <1>2 DEF Inv, SocksMove
<1>4. \A d \in Clients : ids[d] \in Nat /\ ids'[d] \in Nat /\ ids[d] <= ids'[d]
  <2>1. ASSUME NEW d \in Clients PROVE ids[d] \in Nat /\ ids'[d] \in Nat
    BY <1>1, FiguresWider DEF Inv, ScriptOK, SessionAssumption
  <2> QED BY <1>2, <2>1 DEF Others
<1>5. \A s \in DOMAIN socks : socks'[s].owner = socks[s].owner
  BY <1>2, <1>3 DEF SocksMove
<1>6. ASSUME NEW d \in Clients, d # c PROVE Windowed(d)'
  <2>1. /\ store'[d] = store[d] /\ current'[d] = current[d] /\ ids'[d] = ids[d]
        /\ conn'[d] = conn[d] /\ live'[d] = live[d] /\ job'[d] = job[d] /\ synced'[d] = synced[d]
    BY <1>2, <1>6 DEF Others
  <2>2. Windowed(d)
    BY DEF WInv
  <2>3. Plotted(d)' = Plotted(d) /\ Apart(d)' = Apart(d)
    BY <2>1 DEF Apart, Plotted
  <2>4. JobOK(d)' /\ PlotsOK(d)'
    BY <2>1, <2>2, <2>3 DEF Windowed, JobOK, PlotsOK
  <2>5. ASSUME NEW s \in DOMAIN socks', socks'[s].owner = d
        PROVE  s \in DOMAIN socks /\ socks'[s] = socks[s]
    BY <1>2, <1>6, <2>5 DEF SocksMove
  <2>6. FramesOK(d)'
    BY <2>1, <2>2, <2>3, <2>5 DEF Windowed, FramesOK
  <2>7. conn[d].sock # 0 => socks'[conn[d].sock] = socks[conn[d].sock]
    BY <1>3, <1>5, <2>5 DEF Inv, LinkOK, Holds
  <2>8. Excused(d) => Excused(d)'
    BY <1>2, <1>4, <1>5, <2>1, ExcusedStays
  <2>9. \A w, wire : Reaches(w, wire)' = Reaches(w, wire)
    BY <1>2 DEF Reaches, Pending
  <2>10. PromiseOK(d)'
    BY <2>1, <2>2, <2>7, <2>8, <2>9 DEF Windowed, PromiseOK
  <2> QED BY <2>4, <2>6, <2>10 DEF Windowed
<1> QED BY <1>6 DEF WInv

(* The windows aside stay aside.                                           *)
LEMMA ApartGrows ==
  ASSUME NEW c \in Clients, ids[c] \in Nat, ids'[c] \in Nat, ids[c] <= ids'[c],
         \A x \in Plotted(c)' : x \in Plotted(c) \cup {Terminal}
                                \/ \E n \in Nat : x = Window(c, n) /\ ids[c] <= n
  PROVE  Apart(c) \subseteq Apart(c)'
<1> SUFFICES ASSUME NEW w \in Apart(c) PROVE w \in Apart(c)'
  OBVIOUS
<1>1. PICK n \in 0..(ids[c] - 1) : w = Window(c, n)
  BY DEF Apart
<1>2. n \in 0..(ids'[c] - 1) /\ n \in Nat
  OBVIOUS
<1>3. w \notin Plotted(c)'
  <2> SUFFICES ASSUME w \in Plotted(c)' PROVE FALSE
    OBVIOUS
  <2>1. w \notin Plotted(c)
    BY DEF Apart
  <2>2. w # Terminal
    BY <1>1, <1>2, FreshWindow
  <2>3. PICK k \in Nat : w = Window(c, k) /\ ids[c] <= k
    BY <2>1, <2>2
  <2>4. n = k
    BY <1>1, <2>3 DEF Window
  <2> QED BY <1>1, <2>3, <2>4
<1> QED BY <1>1, <1>2, <1>3 DEF Apart

(* Wider windows aside do not hurt.                                        *)
LEMMA AsideGrows ==
  ASSUME NEW c, NEW s, NEW sk, NEW k, NEW j, NEW aside, FramesMean(c, s, sk, k, j, aside),
         NEW more, aside \subseteq more, NEW k2, NEW j2, k2.sock = k.sock,
         k.sock = 0 /\ j.kind = "part" /\ j.sock = s => j2.kind = "part" /\ j2.sock = s,
         s = j.sock /\ Wipes(j) => s = j2.sock /\ Wipes(j2)
  PROVE  FramesMean(c, s, sk, k2, j2, more)
BY DEF FramesMean, Aside

LEMMA NothingPromised ==
  ASSUME NEW k, NEW j, j.kind # "sync", NEW figure, NEW v,
         k.opened => figure.output = Terminal
  PROVE  Promised(k, j, figure, Blank, v)
BY DEF Promised

(* A script that is idle has no job to worry about.                        *)
LEMMA NoJobMeans ==
  ASSUME NEW c, NEW k, NEW output, NEW plot, NEW aside
  PROVE  JobMeans(c, NoJob, k, output, plot, aside)
BY DEF NoJob, JobMeans, Elsewhere

LEMMA TellMeans ==
  ASSUME NEW c, NEW k, NEW output, NEW plot, NEW aside, NEW m,
         Harmless(m, k, output, plot), m.win \in Own(c)
  PROVE  JobMeans(c, Tell(k.sock, m), k, output, plot, aside)
<1>1. /\ Tell(k.sock, m).kind = "tell" /\ Tell(k.sock, m).sock = k.sock
      /\ Tell(k.sock, m).todo = <<m>>
  BY DEF Tell, Job
<1>2. DOMAIN <<m>> = {1} /\ <<m>>[1] = m
  OBVIOUS
<1> QED BY <1>1, <1>2 DEF JobMeans, Elsewhere

(* A statement on figures.                                                 *)
LEMMA FigureWindows ==
  ASSUME Inv, WInv, NEW c \in Clients, ClientStep(c), Idle(c), socks' = socks,
         live'[c] = live[c], conn'[c].sock = conn[c].sock, ids[c] <= ids'[c],
         \A x \in Plotted(c)' : x \in Plotted(c) \cup {Terminal, Window(c, ids[c])},
         \/ job'[c] = NoJob
         \/ \E m : /\ job'[c] = Tell(conn[c].sock, m) /\ m.win \in Own(c)
                   /\ Harmless(m, conn'[c], current'[c].output, synced'[c]),
         \/ /\ conn'[c] = conn[c] /\ current'[c] = current[c] /\ synced'[c] = synced[c]
            /\ \A h \in DOMAIN store'[c] : h \in DOMAIN store[c] /\ store'[c][h] = store[c][h]
         \/ /\ synced'[c] = Blank
            /\ conn'[c] = PointedAt(conn[c], current'[c].output)
  PROVE  WInv'
<1>1. Inv' /\ job[c] = NoJob
  BY ClientStepKeeps DEF Idle
<1>2. UNCHANGED <<queue, windows, touched>>
  BY DEF ClientStep, viewer
<1>3. ids[c] \in Nat /\ ids'[c] \in Nat /\ Windowed(c)
  BY <1>1, FiguresWider DEF Inv, ScriptOK, SessionAssumption, WInv
<1>4. Apart(c) \subseteq Apart(c)'
  BY <1>3, ApartGrows
<1>5. job'[c].kind # "sync" /\ job'[c].kind # "open" /\ job'[c].kind # "part" /\ ~Wipes(job'[c])
  <2>1. CASE job'[c] = NoJob
    BY <2>1 DEF NoJob, Wipes
  <2>2. ASSUME NEW m, job'[c] = Tell(conn[c].sock, m)
        PROVE  job'[c].kind = "tell"
    BY <2>2 DEF Tell, Job
  <2> QED BY <2>1, <2>2 DEF Wipes
<1>6. JobOK(c)'
  <2>1. CASE job'[c] = NoJob
    BY <1>5, <2>1, NoJobMeans DEF JobOK
  <2>2. ASSUME NEW m, job'[c] = Tell(conn[c].sock, m), m.win \in Own(c),
               Harmless(m, conn'[c], current'[c].output, synced'[c])
        PROVE  JobOK(c)'
    <3>1. JobMeans(c, Tell(conn'[c].sock, m), conn'[c], current'[c].output, synced'[c], Apart(c)')
      BY <2>2, TellMeans
    <3> QED BY <1>5, <2>2, <3>1 DEF JobOK
  <2> QED BY <2>1, <2>2
<1>7. FramesOK(c)'
  <2>1. ~Wipes(NoJob) /\ NoJob.kind # "part"
    BY DEF NoJob, Wipes
  <2> SUFFICES ASSUME NEW s \in DOMAIN socks, socks[s].owner = c /\ socks[s].held
               PROVE  FramesMean(c, s, socks[s], conn'[c], job'[c], Apart(c)')
    BY DEF FramesOK
  <2>2. FramesMean(c, s, socks[s], conn[c], job[c], Apart(c))
    BY <1>3 DEF Windowed, FramesOK
  <2> QED BY <1>1, <1>4, <2>1, <2>2, AsideGrows
<1>8. PlotsOK(c)'
  <2>1. live'[c].win # NoWindow => live'[c].win \in Apart(c)'
    BY <1>3, <1>4 DEF Windowed, PlotsOK
  <2>2. CASE /\ conn'[c] = conn[c] /\ current'[c] = current[c] /\ synced'[c] = synced[c]
             /\ \A h \in DOMAIN store'[c] : h \in DOMAIN store[c] /\ store'[c][h] = store[c][h]
    BY <1>3, <2>1, <2>2 DEF Windowed, PlotsOK
  <2>3. CASE synced'[c] = Blank /\ conn'[c] = PointedAt(conn[c], current'[c].output)
    <3>1. conn[c].sock # 0 /\ current'[c].output # Terminal => conn'[c].win = current'[c].output
      <4>1. conn[c] \in [sock : Nat, win : Outs(c, ids[c]), opened : BOOLEAN]
        BY DEF Inv, LinkOK, ConnFits
      <4> QED BY <2>3, <4>1 DEF PointedAt
    <3>2. ASSUME NEW h \in DOMAIN store'[c], current'[c].output # Terminal
          PROVE  store'[c][h].output # current'[c].output
      BY <1>1, <3>2 DEF Inv, ScriptOK, FiguresFit, CurrentFits
    <3> QED BY <2>1, <2>3, <3>1, <3>2 DEF PlotsOK
  <2> QED BY <2>2, <2>3
<1>9. PromiseOK(c)'
  <2>1. CASE conn'[c] = conn[c] /\ current'[c] = current[c] /\ synced'[c] = synced[c]
    <3>1. Excused(c) => Excused(c)'
      <4>1. \A d \in Clients : ids[d] \in Nat /\ ids'[d] \in Nat /\ ids[d] <= ids'[d]
        <5>1. ASSUME NEW d \in Clients PROVE ids[d] \in Nat /\ ids'[d] \in Nat
          BY <1>1, FiguresWider DEF Inv, ScriptOK, SessionAssumption
        <5> QED BY <5>1 DEF ClientStep, Others
      <4> QED BY <1>2, <2>1, <4>1, ExcusedStays
    <3>2. \A w, wire : Reaches(w, wire)' = Reaches(w, wire)
      BY <1>2 DEF Reaches, Pending
    <3>3. ~Wipes(NoJob) /\ NoJob.kind # "sync"
      BY DEF NoJob, Wipes
    <3>4. ASSUME NEW v, Promised(conn[c], job[c], current[c], synced[c], v)
          PROVE  Promised(conn[c], job'[c], current[c], synced[c], v)
      BY <1>1, <1>5, <3>3, <3>4 DEF Promised
    <3> QED BY <1>1, <1>3, <2>1, <3>1, <3>2, <3>3, <3>4 DEF Windowed, PromiseOK
  <2>2. CASE synced'[c] = Blank /\ conn'[c] = PointedAt(conn[c], current'[c].output)
    <3>1. conn[c].sock # 0 => (conn'[c].opened => current'[c].output = Terminal)
      <4>1. conn[c] \in [sock : Nat, win : Outs(c, ids[c]), opened : BOOLEAN]
        BY DEF Inv, LinkOK, ConnFits
      <4> QED BY <2>2, <4>1 DEF PointedAt
    <3>2. conn'[c].sock # 0 =>
            \A v : Promised(conn'[c], job'[c], current'[c], synced'[c], v)
      BY <1>5, <2>2, <3>1, NothingPromised
    <3> QED BY <3>2 DEF PromiseOK
  <2> QED BY <2>1, <2>2
<1>10. Windowed(c)'
  BY <1>6, <1>7, <1>8, <1>9 DEF Windowed
<1> QED BY <1>10, WindowedStep

LEMMA OutsAreOwn ==
  ASSUME NEW c, NEW n \in Int
  PROVE  Outs(c, n) \subseteq Own(c)
<1>1. \A i \in 0..(n - 1) : i \in Nat
  OBVIOUS
<1> QED BY <1>1 DEF Outs, Own, Terminal

LEMMA FrameWins ==
  ASSUME NEW win, NEW content
  PROVE  /\ Close(win).win = win /\ Open(win).win = win /\ Update(win, content).win = win
         /\ Redraw(win).win = win /\ Label(win).win = win
         /\ Ping.win = NoWindow /\ Reset.win = NoWindow /\ Cut.win = NoWindow
         /\ {Close(win), Open(win), Update(win, content), Redraw(win), Label(win)}
              \cap {Ping, Reset} = {}
BY DEF Close, Open, Update, Redraw, Label, Ping, Reset, Cut, Message

(* A Close for a window that is plotted to no more does no harm.           *)
LEMMA CloseHarms ==
  ASSUME Inv, NEW c \in Clients, Idle(c), NEW win \in Outs(c, ids[c]), win # Terminal,
         NEW k, NEW output, NEW plot, win = k.win => output = Terminal
  PROVE  Close(win).win \in Own(c) /\ Harmless(Close(win), k, output, plot)
<1>1. win \in Windows
  <2>1. ids[c] \in Int /\ ids[c] <= MaxStatements + 1
    BY IdleScript
  <2>2. Outs(c, ids[c]) \ {Terminal} \subseteq Windows
    BY <2>1, OutsAreOutputs
  <2> QED BY <2>2
<1>2. win \in Own(c)
  <2>1. ids[c] \in Int
    BY IdleScript
  <2> QED BY <2>1, OutsAreOwn
<1> QED BY <1>1, <1>2, FrameWins DEF Harmless

LEMMA ResetHarms ==
  ASSUME NEW c, NEW k, ~k.opened, NEW output
  PROVE  Reset.win \in Own(c) /\ Harmless(Reset, k, output, Blank)
BY FrameWins DEF Harmless, Own

LEMMA FreshNumbers ==
  ASSUME Inv, NEW c \in Clients
  PROVE  /\ ids[c] \in Nat /\ FreshIds(c) \in Nat /\ ids[c] <= FreshIds(c)
         /\ FreshOutput(c) \in {Terminal, Window(c, ids[c])}
<1>1. ids[c] \in Nat
  BY FiguresWider
<1> QED BY <1>1 DEF FreshIds, FreshOutput

LEMMA SavedOutputs ==
  ASSUME NEW c \in Clients, NEW h \in DOMAIN Saved(c)
  PROVE  Saved(c)[h].output \in Plotted(c)
BY DEF Saved, Put, Figure, Plotted

LEMMA FigureNewWindows ==
  ASSUME Inv, WInv, NEW c \in Clients, FigureNew(c)
  PROVE  WInv'
<1>1. /\ Idle(c) /\ job[c] = NoJob /\ store'[c] = Saved(c)
      /\ current'[c].output = FreshOutput(c) /\ ids'[c] = FreshIds(c)
      /\ conn'[c] = PointedAt(conn[c], FreshOutput(c))
      /\ live'[c] = live[c] /\ job'[c] = job[c] /\ synced'[c] = Blank /\ socks' = socks
  BY DEF FigureNew, Statement, Quiet, Inv, PerClient, Idle
<1>2. conn[c] \in [sock : Nat, win : Outs(c, ids[c]), opened : BOOLEAN]
  BY DEF Inv, LinkOK, ConnFits
<1>3. conn'[c].win \in {conn[c].win, FreshOutput(c)} /\ conn'[c].sock = conn[c].sock
  BY <1>1, <1>2 DEF PointedAt
<1>4. ASSUME NEW x \in Plotted(c)' PROVE x \in Plotted(c) \cup {Terminal, Window(c, ids[c])}
  <2>1. CASE x = current'[c].output
    BY <1>1, <2>1, FreshNumbers
  <2>2. CASE x = conn'[c].win
    BY <1>3, <2>2, FreshNumbers DEF Plotted
  <2>3. ASSUME NEW h \in DOMAIN store'[c], x = store'[c][h].output PROVE x \in Plotted(c)
    BY <1>1, <2>3, SavedOutputs
  <2> QED BY <2>1, <2>2, <2>3 DEF Plotted
<1> QED BY <1>1, <1>3, <1>4, FreshNumbers, FigureNewStep, FigureWindows

LEMMA FigureSwitchWindows ==
  ASSUME Inv, WInv, NEW c \in Clients, FigureSwitch(c)
  PROVE  WInv'
<1> DEFINE Stored(h) == h \in DOMAIN Saved(c)
           Output(h) == IF Stored(h) THEN Saved(c)[h].output ELSE FreshOutput(c)
<1>1. PICK h \in 1..MaxHandles :
        /\ Idle(c) /\ job[c] = NoJob
        /\ store'[c] = Restrict(Saved(c), DOMAIN Saved(c) \ {h})
        /\ current'[c] = [handle |-> h,
                          content |-> IF Stored(h) THEN Saved(c)[h].content ELSE Blank,
                          output |-> Output(h)]
        /\ ids'[c] = IF Stored(h) THEN ids[c] ELSE FreshIds(c)
        /\ conn'[c] = PointedAt(conn[c], Output(h))
        /\ live'[c] = live[c] /\ job'[c] = job[c] /\ synced'[c] = Blank /\ socks' = socks
  BY DEF FigureSwitch, Statement, Quiet, Inv, PerClient, Idle
<1>2. conn[c] \in [sock : Nat, win : Outs(c, ids[c]), opened : BOOLEAN]
  BY DEF Inv, LinkOK, ConnFits
<1>3. Output(h) \in Plotted(c) \cup {Terminal, Window(c, ids[c])}
  BY SavedOutputs, FreshNumbers
<1>4. ids[c] <= ids'[c]
  BY <1>1, FreshNumbers
<1> HIDE DEF Stored, Output
<1>5. conn'[c].win \in {conn[c].win, Output(h)} /\ conn'[c].sock = conn[c].sock
  BY <1>1, <1>2 DEF PointedAt
<1>6. ASSUME NEW x \in Plotted(c)' PROVE x \in Plotted(c) \cup {Terminal, Window(c, ids[c])}
  <2>1. CASE x = current'[c].output
    BY <1>1, <1>3, <2>1
  <2>2. CASE x = conn'[c].win
    BY <1>3, <1>5, <2>2 DEF Plotted
  <2>3. ASSUME NEW g \in DOMAIN store'[c], x = store'[c][g].output PROVE x \in Plotted(c)
    <3>1. g \in DOMAIN Saved(c) /\ store'[c][g] = Saved(c)[g]
      BY <1>1, <2>3 DEF Restrict
    <3> QED BY <2>3, <3>1, SavedOutputs
  <2> QED BY <2>1, <2>2, <2>3 DEF Plotted
<1> QED BY <1>1, <1>4, <1>5, <1>6, FigureSwitchStep, FigureWindows

LEMMA CloseStoredWindows ==
  ASSUME Inv, WInv, NEW c \in Clients, CloseStored(c)
  PROVE  WInv'
<1>1. PICK h \in DOMAIN store[c] :
        /\ Idle(c) /\ job[c] = NoJob
        /\ store'[c] = Restrict(store[c], DOMAIN store[c] \ {h})
        /\ current'[c] = current[c] /\ ids'[c] = ids[c]
        /\ job'[c] = IF conn[c].sock = 0 \/ store[c][h].output = Terminal THEN job[c]
                     ELSE Tell(conn[c].sock, Close(store[c][h].output))
        /\ conn'[c] = conn[c] /\ live'[c] = live[c] /\ synced'[c] = synced[c] /\ socks' = socks
  BY DEF CloseStored, CloseWindow, Tell, Statement, Quiet, Inv, PerClient, Idle
<1>2. \A g \in DOMAIN store'[c] : g \in DOMAIN store[c] /\ store'[c][g] = store[c][g]
  BY <1>1 DEF Restrict
<1>3. \A x \in Plotted(c)' : x \in Plotted(c)
  BY <1>1, <1>2 DEF Plotted
<1>4. store[c][h].output \in Outs(c, ids[c])
  BY <1>1, IdleScript DEF FiguresFit, StoreFits
<1>5. \/ job'[c] = NoJob
      \/ \E m : /\ job'[c] = Tell(conn[c].sock, m) /\ m.win \in Own(c)
                /\ Harmless(m, conn'[c], current'[c].output, synced'[c])
  <2>1. CASE ~(conn[c].sock = 0 \/ store[c][h].output = Terminal)
    <3>1. store[c][h].output = conn[c].win => current[c].output = Terminal
      BY <2>1 DEF WInv, Windowed, PlotsOK
    <3> QED BY <1>1, <1>4, <2>1, <3>1, CloseHarms
  <2> QED BY <1>1, <2>1
<1>6. ids[c] <= ids'[c]
  BY <1>1, FreshNumbers
<1> QED BY <1>1, <1>2, <1>3, <1>5, <1>6, CloseStoredStep, FigureWindows

LEMMA CloseCurrentWindows ==
  ASSUME Inv, WInv, NEW c \in Clients, CloseCurrent(c)
  PROVE  WInv'
<1> DEFINE next == IF DOMAIN store[c] = {} THEN 0 ELSE Max(DOMAIN store[c])
           figure == IF next = 0 THEN Figure(Blank, FreshOutput(c)) ELSE store[c][next]
<1>1. /\ Idle(c) /\ job[c] = NoJob
      /\ store'[c] = Restrict(store[c], DOMAIN store[c] \ {next})
      /\ current'[c].output = figure.output
      /\ ids'[c] = IF next = 0 THEN FreshIds(c) ELSE ids[c]
      /\ job'[c] = IF conn[c].sock = 0 \/ current[c].output = Terminal THEN job[c]
                   ELSE Tell(conn[c].sock, Close(current[c].output))
      /\ conn'[c] = PointedAt(conn[c], figure.output)
      /\ live'[c] = live[c] /\ synced'[c] = Blank /\ socks' = socks
  <2> HIDE DEF next, figure
  <2> QED BY DEF CloseCurrent, next, figure, CloseWindow, Tell, Statement, Quiet, Inv,
                 PerClient, Idle
<1>2. conn[c] \in [sock : Nat, win : Outs(c, ids[c]), opened : BOOLEAN]
  BY DEF Inv, LinkOK, ConnFits
<1>3. /\ figure.output \in Plotted(c) \cup {Terminal, Window(c, ids[c])}
      /\ figure.output # Terminal => figure.output # current[c].output
      /\ current[c].output \in Outs(c, ids[c])
  <2>1. /\ FiguresFit(store[c], current[c], handles[c], Outs(c, ids[c]), live[c].win)
        /\ handles[c] \in Nat \ {0}
    BY <1>1, IdleScript
  <2>2. current[c].output \in Outs(c, ids[c])
    BY <2>1 DEF FiguresFit, CurrentFits
  <2>3. CASE DOMAIN store[c] = {}
    <3>1. figure.output = FreshOutput(c)
      BY <2>3 DEF Figure
    <3> HIDE DEF next, figure
    <3>2. FreshOutput(c) = Terminal \/ FreshOutput(c) \notin Outs(c, ids[c])
      BY <1>1, FreshOutputIs
    <3> QED BY <2>2, <3>1, <3>2, FreshNumbers
  <2>4. CASE DOMAIN store[c] # {}
    <3>1. DOMAIN store[c] \subseteq 1..(handles[c] - 1) /\ handles[c] - 1 \in Nat
      BY <2>1 DEF FiguresFit, StoreFits
    <3>2. Max(DOMAIN store[c]) \in DOMAIN store[c]
      BY <2>4, <3>1, MaxOfTable
    <3>3. next \in DOMAIN store[c] /\ figure = store[c][next]
      BY <2>4, <3>1, <3>2
    <3> HIDE DEF next, figure
    <3>4. figure.output \in Plotted(c)
      BY <3>3 DEF Plotted
    <3>5. store[c][next].output # Terminal => store[c][next].output # current[c].output
      BY <2>1, <3>3 DEF FiguresFit, CurrentFits
    <3> QED BY <2>2, <3>3, <3>4, <3>5
  <2> QED BY <2>3, <2>4
<1>4. ids[c] <= ids'[c]
  BY <1>1, FreshNumbers
<1> HIDE DEF next, figure
<1>5. conn'[c].win \in {conn[c].win, figure.output} /\ conn'[c].sock = conn[c].sock
      /\ (figure.output # Terminal /\ conn[c].sock # 0 => conn'[c].win = figure.output)
  BY <1>1, <1>2 DEF PointedAt
<1>6. ASSUME NEW x \in Plotted(c)' PROVE x \in Plotted(c) \cup {Terminal, Window(c, ids[c])}
  <2>1. CASE x = current'[c].output
    BY <1>1, <1>3, <2>1
  <2>2. CASE x = conn'[c].win
    BY <1>3, <1>5, <2>2 DEF Plotted
  <2>3. ASSUME NEW g \in DOMAIN store'[c], x = store'[c][g].output PROVE x \in Plotted(c)
    <3>1. g \in DOMAIN store[c] /\ store'[c][g] = store[c][g]
      BY <1>1, <2>3 DEF Restrict
    <3> QED BY <2>3, <3>1 DEF Plotted
  <2> QED BY <2>1, <2>2, <2>3 DEF Plotted
<1>7. \/ job'[c] = NoJob
      \/ \E m : /\ job'[c] = Tell(conn[c].sock, m) /\ m.win \in Own(c)
                /\ Harmless(m, conn'[c], current'[c].output, synced'[c])
  <2>1. CASE ~(conn[c].sock = 0 \/ current[c].output = Terminal)
    <3>1. current[c].output = conn'[c].win => current'[c].output = Terminal
      BY <1>1, <1>3, <1>5, <2>1
    <3> QED BY <1>1, <1>3, <2>1, <3>1, CloseHarms
  <2> QED BY <1>1, <2>1
<1> QED BY <1>1, <1>4, <1>5, <1>6, <1>7, CloseCurrentStep, FigureWindows

LEMMA CloseAllWindows ==
  ASSUME Inv, WInv, NEW c \in Clients, CloseAll(c)
  PROVE  WInv'
<1>1. /\ Idle(c) /\ job[c] = NoJob /\ store'[c] = <<>>
      /\ current'[c].output = FreshOutput(c) /\ ids'[c] = FreshIds(c)
      /\ job'[c] = IF conn[c].sock = 0 THEN job[c] ELSE Tell(conn[c].sock, Reset)
      /\ conn'[c] = PointedAt(conn[c], FreshOutput(c))
      /\ live'[c] = live[c] /\ synced'[c] = Blank /\ socks' = socks
  BY DEF CloseAll, Tell, Statement, Quiet, Inv, PerClient, Idle
<1>2. conn[c] \in [sock : Nat, win : Outs(c, ids[c]), opened : BOOLEAN]
  BY DEF Inv, LinkOK, ConnFits
<1>3. conn'[c].win \in {conn[c].win, FreshOutput(c)} /\ conn'[c].sock = conn[c].sock
  BY <1>1, <1>2 DEF PointedAt
<1>4. ASSUME NEW x \in Plotted(c)' PROVE x \in Plotted(c) \cup {Terminal, Window(c, ids[c])}
  <2>1. CASE x = current'[c].output
    BY <1>1, <2>1, FreshNumbers
  <2>2. CASE x = conn'[c].win
    BY <1>3, <2>2, FreshNumbers DEF Plotted
  <2>3. DOMAIN store'[c] = {}
    BY <1>1
  <2> QED BY <2>1, <2>2, <2>3 DEF Plotted
<1>5. \/ job'[c] = NoJob
      \/ \E m : /\ job'[c] = Tell(conn[c].sock, m) /\ m.win \in Own(c)
                /\ Harmless(m, conn'[c], current'[c].output, synced'[c])
  <2>1. CASE conn[c].sock # 0
    <3>1. FreshOutput(c) # Terminal
      <4>1. ids[c] \in Nat
        BY FreshNumbers
      <4> QED BY <2>1, <4>1, FreshWindow DEF FreshOutput
    <3>2. ~conn'[c].opened
      BY <1>1, <1>2, <2>1, <3>1 DEF PointedAt
    <3> QED BY <1>1, <2>1, <3>2, ResetHarms
  <2> QED BY <1>1, <2>1
<1> QED BY <1>1, <1>3, <1>4, <1>5, FreshNumbers, CloseAllStep, FigureWindows

(***************************************************************************)
(* Statements that talk to the viewer.                                     *)
(***************************************************************************)
LEMMA DialMeans ==
  ASSUME NEW c, NEW k, NEW output, NEW plot, NEW aside, NEW s, NEW kind \in {"sync", "on"},
         kind = "sync" => output # Terminal
  PROVE  JobMeans(c, Dial(kind, s), k, output, plot, aside) /\ ~Wipes(Dial(kind, s))
<1>1. /\ Dial(kind, s).kind = kind /\ Dial(kind, s).sock = s /\ Dial(kind, s).dialling
      /\ Dial(kind, s).todo = <<Ping, Reset>>
  BY DEF Dial, Job
<1>2. \A i \in DOMAIN <<Ping, Reset>> : <<Ping, Reset>>[i].win \in Own(c)
  BY FrameWins DEF Own
<1> HIDE DEF Dial
<1>3. kind \notin {"open", "update", "draw", "part", "tell"}
  OBVIOUS
<1> QED BY <1>1, <1>2, <1>3 DEF JobMeans, Elsewhere, Wipes

LEMMA OneMeans ==
  ASSUME NEW c, NEW k, NEW output, NEW plot, NEW aside, NEW m, NEW j,
         j.kind \in {"open", "update", "draw", "part", "tell"}, j.todo = <<m>>,
         j.kind = "tell" => j.sock # k.sock,
         m # Ping, m # Reset, m.win \in aside, m.win \in Own(c)
  PROVE  JobMeans(c, j, k, output, plot, aside) /\ ~Wipes(j)
<1>1. DOMAIN <<m>> = {1} /\ <<m>>[1] = m
  OBVIOUS
<1>2. j.kind # "sync" /\ j.kind # "on"
  OBVIOUS
<1> QED BY <1>1, <1>2 DEF JobMeans, Wipes

LEMMA Tuples ==
  ASSUME NEW x, NEW y, NEW z
  PROVE  /\ <<>> \o <<y, z>> = <<y, z>> /\ <<x>> \o <<y, z>> = <<x, y, z>>
<1>1. <<y, z>> \in Seq({x, y, z}) /\ <<x>> \in Seq({x, y, z}) /\ <<x, y, z>> \in Seq({x, y, z})
  OBVIOUS
<1>2. <<>> \o <<y, z>> = <<y, z>>
  BY <1>1
<1>3. <<x>> \o <<y, z>> = <<x, y, z>>
  <2> DEFINE s == <<x>> \o <<y, z>>
  <2>1. s \in Seq({x, y, z})
    BY <1>1
  <2>2. Len(s) = 3 /\ s[1] = x /\ s[2] = y /\ s[3] = z
    BY <1>1
  <2> HIDE DEF s
  <2>3. s = <<x, y, z>>
    BY <2>1, <2>2
  <2> QED BY <2>3 DEF s
<1> QED BY <1>2, <1>3

LEMMA SyncMeans ==
  ASSUME NEW c, NEW k, k.win \in Own(c), NEW figure, figure.output # Terminal, NEW plot,
         NEW aside, NEW content,
         NEW j, j = Job("sync", FALSE, k.sock, SyncMessages(k, content))
  PROVE  /\ JobMeans(c, j, k, figure.output, plot, aside) /\ ~Wipes(j)
         /\ \A v : (k.opened => v # {}) => Syncing(j, k.win, content, v)
<1>1. /\ j.kind = "sync" /\ j.sock = k.sock /\ ~j.waiting /\ ~j.dialling
      /\ j.todo = SyncMessages(k, content)
  BY DEF Job
<1>2. SyncMessages(k, content) =
        IF k.opened THEN <<Update(k.win, content), Redraw(k.win)>>
        ELSE <<Open(k.win), Update(k.win, content), Redraw(k.win)>>
  <2>1. PICK x, y, z : x = Open(k.win) /\ y = Update(k.win, content) /\ z = Redraw(k.win)
    OBVIOUS
  <2>2. <<>> \o <<y, z>> = <<y, z>> /\ <<x>> \o <<y, z>> = <<x, y, z>>
    BY Tuples
  <2> QED BY <2>1, <2>2 DEF SyncMessages
<1>3. \A i \in DOMAIN j.todo : j.todo[i].win \in Own(c)
  <2>1. CASE k.opened
    <3>1. PICK y, z : y = Update(k.win, content) /\ z = Redraw(k.win)
      OBVIOUS
    <3>2. j.todo = <<y, z>>
      BY <1>1, <1>2, <2>1, <3>1
    <3>3. \A i \in DOMAIN <<y, z>> : <<y, z>>[i] \in {y, z}
      OBVIOUS
    <3>4. y.win = k.win /\ z.win = k.win
      BY <3>1, FrameWins
    <3> QED BY <3>2, <3>3, <3>4
  <2>2. CASE ~k.opened
    <3>1. PICK x, y, z : x = Open(k.win) /\ y = Update(k.win, content) /\ z = Redraw(k.win)
      OBVIOUS
    <3>2. j.todo = <<x, y, z>>
      BY <1>1, <1>2, <2>2, <3>1
    <3>3. \A i \in DOMAIN <<x, y, z>> : <<x, y, z>>[i] \in {x, y, z}
      OBVIOUS
    <3>4. x.win = k.win /\ y.win = k.win /\ z.win = k.win
      BY <3>1, FrameWins
    <3> QED BY <3>2, <3>3, <3>4
  <2> QED BY <2>1, <2>2
<1>4. JobMeans(c, j, k, figure.output, plot, aside) /\ ~Wipes(j)
  BY <1>1, <1>3 DEF JobMeans, Elsewhere, Wipes
<1>5. ASSUME NEW v, k.opened => v # {} PROVE Syncing(j, k.win, content, v)
  BY <1>1, <1>2, <1>5 DEF Syncing
<1> QED BY <1>4, <1>5

LEMMA Numbers ==
  ASSUME Inv, NEW c \in Clients, ClientStep(c), ids[c] <= ids'[c]
  PROVE  \A d \in Clients : ids[d] \in Nat /\ ids'[d] \in Nat /\ ids[d] <= ids'[d]
<1>1. Inv'
  BY ClientStepKeeps
<1>2. ASSUME NEW d \in Clients PROVE ids[d] \in Nat /\ ids'[d] \in Nat
  BY <1>1, FiguresWider DEF Inv, ScriptOK, SessionAssumption
<1> QED BY <1>2 DEF ClientStep, Others

LEMMA TalkWindows ==
  ASSUME Inv, WInv, NEW c \in Clients, ClientStep(c), Idle(c), ids[c] <= ids'[c],
         socks' = socks \/ socks' = Append(socks, NewSock(c)),
         conn'[c] = conn[c], store'[c] = store[c], synced'[c] = synced[c],
         current'[c].output = current[c].output, live'[c].win \in {live[c].win, NoWindow},
         job'[c] = NoJob \/
           JobMeans(c, job'[c], conn[c], current[c].output, synced[c], Apart(c)'),
         job'[c].kind = "open" => Window(c, ids'[c] - 1) \in Apart(c)',
         ~Wipes(job'[c]),
         conn[c].sock # 0 /\ job'[c].kind = "sync" =>
           \A v : (conn[c].opened => v # {}) =>
             Syncing(job'[c], conn[c].win, current'[c].content, v)
  PROVE  WInv'
<1>1. Inv' /\ job[c] = NoJob /\ ~Wipes(NoJob) /\ NoJob.kind \notin {"part", "sync"}
  BY ClientStepKeeps DEF Idle, NoJob, Wipes
<1>2. UNCHANGED <<queue, windows, touched>>
  BY DEF ClientStep, viewer
<1>3. Windowed(c) /\ \A d \in Clients : ids[d] \in Nat /\ ids'[d] \in Nat /\ ids[d] <= ids'[d]
  BY Numbers DEF WInv
<1>4. Apart(c) \subseteq Apart(c)'
  <2>1. Plotted(c)' = Plotted(c)
    BY DEF Plotted
  <2> QED BY <1>3, <2>1, ApartGrows
<1>5. JobOK(c)'
  BY NoJobMeans DEF JobOK
<1>6. /\ DOMAIN socks = 1..Len(socks) /\ Len(socks) \in Nat
      /\ \A s \in DOMAIN socks : s \in DOMAIN socks' /\ socks'[s] = socks[s]
      /\ \A s \in DOMAIN socks' : s \in DOMAIN socks \/ socks'[s].wire = <<>>
  <2>1. socks \in Seq(SockType) /\ DOMAIN socks = 1..Len(socks) /\ Len(socks) \in Nat
    BY DEF Inv
  <2>2. CASE socks' = Append(socks, NewSock(c))
    <3>1. /\ DOMAIN socks' = 1..(Len(socks) + 1) /\ socks'[Len(socks) + 1] = NewSock(c)
          /\ \A s \in DOMAIN socks : socks'[s] = socks[s]
      BY <2>1, <2>2
    <3>2. NewSock(c).wire = <<>>
      BY DEF NewSock
    <3> QED BY <2>1, <3>1, <3>2
  <2> QED BY <2>1, <2>2
<1>7. FramesOK(c)'
  <2> SUFFICES ASSUME NEW s \in DOMAIN socks', socks'[s].owner = c /\ socks'[s].held
               PROVE  FramesMean(c, s, socks'[s], conn'[c], job'[c], Apart(c)')
    BY DEF FramesOK
  <2>1. CASE socks'[s].wire = <<>>
    BY <2>1 DEF FramesMean
  <2>2. CASE s \in DOMAIN socks
    <3>1. FramesMean(c, s, socks'[s], conn[c], job[c], Apart(c))
      BY <1>3, <1>6, <2>2 DEF Windowed, FramesOK
    <3> QED BY <1>1, <1>4, <3>1, AsideGrows
  <2> QED BY <1>6, <2>1, <2>2
<1>8. PlotsOK(c)'
  BY <1>3, <1>4 DEF Windowed, PlotsOK
<1>9. PromiseOK(c)'
  <2>1. Excused(c) => Excused(c)'
    BY <1>2, <1>3, <1>6, ExcusedStays
  <2>2. \A w, wire : Reaches(w, wire)' = Reaches(w, wire)
    BY <1>2 DEF Reaches, Pending
  <2>3. ASSUME NEW v, Promised(conn[c], job[c], current[c], synced[c], v), conn[c].sock # 0
        PROVE  Promised(conn[c], job'[c], current'[c], synced[c], v)
    <3>1. conn[c].opened /\ current[c].output # Terminal => v # {}
      BY <2>3 DEF Promised
    <3>2. job'[c].kind = "sync" => Syncing(job'[c], conn[c].win, current'[c].content, v)
      <4>1. job'[c].kind = "sync" => current[c].output # Terminal
        BY <1>1 DEF JobMeans
      <4> QED BY <2>3, <3>1, <4>1
    <3> QED BY <1>1, <2>3, <3>1, <3>2 DEF Promised
  <2>4. conn[c].sock # 0 => socks'[conn[c].sock] = socks[conn[c].sock]
    BY <1>6 DEF Inv, LinkOK, Holds
  <2>5. ASSUME conn'[c].sock # 0, socks'[conn'[c].sock].served, ~Excused(c)'
        PROVE  Promised(conn[c], job'[c], current'[c], synced[c],
                        Reaches(conn[c].win, socks[conn[c].sock].wire))
    <3>1. Promised(conn[c], job[c], current[c], synced[c],
                   Reaches(conn[c].win, socks[conn[c].sock].wire))
      BY <1>1, <1>3, <2>1, <2>4, <2>5 DEF Windowed, PromiseOK
    <3> QED BY <2>3, <2>5, <3>1
  <2> QED BY <2>2, <2>4, <2>5 DEF PromiseOK
<1>10. Windowed(c)'
  BY <1>5, <1>7, <1>8, <1>9 DEF Windowed
<1> QED BY <1>6, <1>10, WindowedStep

LEMMA WinsAreOwn ==
  ASSUME Inv, NEW c \in Clients
  PROVE  /\ conn[c].win \in Own(c) /\ live[c].win \in Own(c)
         /\ conn[c] \in [sock : Nat, win : Outs(c, ids[c]), opened : BOOLEAN]
         /\ live[c] \in [sock : Nat, win : Outs(c, ids[c])]
         /\ ids[c] \in Nat
<1>1. ids[c] \in Nat /\ Outs(c, ids[c]) \subseteq Own(c)
  BY FiguresWider, OutsAreOwn
<1> QED BY <1>1 DEF Inv, LinkOK, ConnFits, LiveFits

LEMMA PlotWindows ==
  ASSUME Inv, WInv, NEW c \in Clients, Plot(c)
  PROVE  WInv'
<1> DEFINE Content(kind) == [made |-> said[c] + 1, kind |-> kind]
<1>1. PICK kind \in Kinds :
        /\ Statement(c) /\ Quiet(c)
        /\ current' = [current EXCEPT ![c].content = Content(kind)]
        /\ UNCHANGED <<wiping, store, handles, ids, conn, synced>>
        /\ \/ UNCHANGED <<job, socks>>
           \/ /\ conn[c].sock # 0 /\ current[c].output # Terminal
              /\ job' = [job EXCEPT ![c] = Job("sync", FALSE, conn[c].sock,
                                              SyncMessages(conn[c], Content(kind)))]
              /\ UNCHANGED socks
           \/ /\ conn[c].sock = 0 /\ current[c].output # Terminal
              /\ socks' = Append(socks, NewSock(c))
              /\ job' = [job EXCEPT ![c] = Dial("sync", Len(socks'))]
  BY DEF Plot, Dial
<1> HIDE DEF Content
<1>2. PerClient
  BY DEF Inv
<1>3. /\ Idle(c) /\ job[c] = NoJob /\ live' = live
      /\ current[c] \in [handle : Nat, content : Contents, output : Outs(c, ids[c])]
  <2>1. Idle(c) /\ job[c] = NoJob /\ live' = live
    BY <1>1 DEF Statement, Quiet, Idle
  <2>2. FiguresFit(store[c], current[c], handles[c], Outs(c, ids[c]), live[c].win)
        /\ handles[c] \in Nat
    BY FiguresWider
  <2> QED BY <2>1, <2>2 DEF FiguresFit, CurrentFits
<1>4. /\ current'[c].output = current[c].output /\ current'[c].content = Content(kind)
      /\ store'[c] = store[c] /\ ids'[c] = ids[c] /\ conn'[c] = conn[c]
      /\ live'[c] = live[c] /\ synced'[c] = synced[c]
  BY <1>1, <1>2, <1>3 DEF PerClient
<1>5. /\ job'[c] = NoJob \/
           JobMeans(c, job'[c], conn[c], current[c].output, synced[c], Apart(c)')
      /\ job'[c].kind # "open" /\ ~Wipes(job'[c])
      /\ conn[c].sock # 0 /\ job'[c].kind = "sync" =>
           \A v : (conn[c].opened => v # {}) =>
             Syncing(job'[c], conn[c].win, current'[c].content, v)
  <2>1. CASE job' = job
    BY <1>3, <2>1 DEF NoJob, Wipes
  <2>2. CASE /\ conn[c].sock # 0 /\ current[c].output # Terminal
             /\ job' = [job EXCEPT ![c] = Job("sync", FALSE, conn[c].sock,
                                             SyncMessages(conn[c], Content(kind)))]
    <3>1. job'[c] = Job("sync", FALSE, conn[c].sock, SyncMessages(conn[c], Content(kind)))
      BY <1>2, <2>2 DEF PerClient
    <3>2. /\ JobMeans(c, job'[c], conn[c], current[c].output, synced[c], Apart(c)')
          /\ ~Wipes(job'[c])
          /\ \A v : (conn[c].opened => v # {}) =>
               Syncing(job'[c], conn[c].win, Content(kind), v)
      BY <2>2, <3>1, WinsAreOwn, SyncMeans
    <3>3. job'[c].kind = "sync"
      BY <3>1 DEF Job
    <3> QED BY <1>4, <3>2, <3>3
  <2>3. CASE /\ conn[c].sock = 0 /\ current[c].output # Terminal
             /\ job' = [job EXCEPT ![c] = Dial("sync", Len(socks'))]
    <3>1. job'[c] = Dial("sync", Len(socks'))
      BY <1>2, <2>3 DEF PerClient
    <3>2. /\ JobMeans(c, job'[c], conn[c], current[c].output, synced[c], Apart(c)')
          /\ ~Wipes(job'[c]) /\ job'[c].kind # "open"
      BY <2>3, <3>1, DialMeans, DialIs
    <3> QED BY <2>3, <3>2
  <2> QED BY <1>1, <2>1, <2>2, <2>3
<1>6. ids[c] <= ids'[c]
  BY <1>4, WinsAreOwn
<1> QED BY <1>1, <1>3, <1>4, <1>5, <1>6, PlotStep, TalkWindows

LEMMA ViewerOnWindows ==
  ASSUME Inv, WInv, NEW c \in Clients, ViewerOn(c)
  PROVE  WInv'
<1>1. /\ Idle(c) /\ store'[c] = store[c] /\ current'[c] = current[c]
      /\ ids'[c] = ids[c] /\ conn'[c] = conn[c] /\ live'[c] = live[c] /\ synced'[c] = synced[c]
      /\ socks' = Append(socks, NewSock(c)) /\ job'[c] = Dial("on", Len(socks'))
  BY DEF ViewerOn, Statement, Quiet, Inv, PerClient, Dial
<1>2. /\ JobMeans(c, job'[c], conn[c], current[c].output, synced[c], Apart(c)')
      /\ ~Wipes(job'[c]) /\ job'[c].kind \notin {"open", "sync"}
  <2>1. job'[c].kind = "on"
    BY <1>1, DialIs
  <2>2. JobMeans(c, job'[c], conn[c], current[c].output, synced[c], Apart(c)')
        /\ ~Wipes(job'[c])
    BY <1>1, DialMeans
  <2> QED BY <2>1, <2>2
<1>3. ids[c] <= ids'[c]
  BY <1>1, WinsAreOwn
<1> QED BY <1>1, <1>2, <1>3, ViewerOnStep, TalkWindows

LEMMA ViewerOffWindows ==
  ASSUME Inv, WInv, NEW c \in Clients, ViewerOff(c)
  PROVE  WInv'
<1>1. /\ Idle(c) /\ job[c] = NoJob
      /\ store'[c] = store[c] /\ current'[c].output = Terminal
      /\ ids'[c] = ids[c] /\ conn'[c] = NoConn /\ live'[c] = live[c]
      /\ socks' = socks /\ synced'[c] = Blank
      /\ job'[c] = IF conn[c].sock = 0 THEN NoJob ELSE Part(conn[c].sock, Close(conn[c].win))
  <2>1. /\ Idle(c) /\ job[c] = NoJob
        /\ store'[c] = store[c] /\ current'[c] = [current[c] EXCEPT !.output = Terminal]
        /\ ids'[c] = ids[c] /\ conn'[c] = NoConn /\ live'[c] = live[c]
        /\ socks' = socks /\ synced'[c] = Blank
        /\ job'[c] = IF conn[c].sock = 0 THEN NoJob ELSE Part(conn[c].sock, Close(conn[c].win))
    BY DEF ViewerOff, Statement, Quiet, Inv, PerClient, Idle, Part
  <2>2. FiguresFit(store[c], current[c], handles[c], Outs(c, ids[c]), live[c].win)
    BY FiguresWider
  <2>3. current'[c].output = Terminal
    BY <2>1, <2>2 DEF FiguresFit, CurrentFits
  <2> QED BY <2>1, <2>3
<1>2. NoConn.sock = 0 /\ NoConn.win = Terminal /\ ~Wipes(NoJob) /\ NoJob.kind # "part"
  BY DEF NoConn, Terminal, NoJob, Wipes
<1>3. Windowed(c) /\ ids[c] \in Nat /\ ids'[c] \in Nat /\ ids[c] <= ids'[c]
  BY <1>1, WinsAreOwn DEF WInv
<1>4. Apart(c) \subseteq Apart(c)'
  <2>1. \A x \in Plotted(c)' : x \in Plotted(c) \cup {Terminal}
    BY <1>1, <1>2 DEF Plotted
  <2> QED BY <1>3, <2>1, ApartGrows
<1>5. PlotsOK(c)' /\ PromiseOK(c)'
  BY <1>1, <1>2, <1>3, <1>4 DEF Windowed, PlotsOK, PromiseOK
<1>6. JobOK(c)'
  <2>1. CASE conn[c].sock = 0
    BY <1>1, <2>1, NoJobMeans DEF JobOK, NoJob
  <2>2. CASE conn[c].sock # 0
    <3>1. /\ job'[c].kind = "part" /\ job'[c].sock = conn[c].sock
          /\ job'[c].todo = <<Close(conn[c].win)>>
      BY <1>1, <2>2 DEF Part, Job
    <3>2. Close(conn[c].win).win \in Own(c)
      BY FrameWins, WinsAreOwn
    <3>3. \A i \in DOMAIN job'[c].todo : job'[c].todo[i] = Close(conn[c].win)
      <4>1. PICK m : m = Close(conn[c].win)
        OBVIOUS
      <4>2. \A i \in DOMAIN <<m>> : <<m>>[i] = m
        OBVIOUS
      <4> QED BY <3>1, <4>1, <4>2
    <3>4. JobMeans(c, job'[c], conn'[c], current'[c].output, synced'[c], Apart(c)')
      BY <1>1, <1>2, <3>1, <3>2, <3>3 DEF JobMeans, Elsewhere
    <3> QED BY <3>1, <3>4 DEF JobOK
  <2> QED BY <2>1, <2>2
<1>7. FramesOK(c)'
  <2> SUFFICES ASSUME NEW s \in DOMAIN socks, socks[s].owner = c /\ socks[s].held
               PROVE  FramesMean(c, s, socks[s], conn'[c], job'[c], Apart(c)')
    BY <1>1 DEF FramesOK
  <2>1. FramesMean(c, s, socks[s], conn[c], job[c], Apart(c))
    BY <1>3 DEF Windowed, FramesOK
  <2>2. CASE conn[c].sock = 0
    BY <1>1, <1>2, <1>4, <2>1, <2>2, AsideGrows
  <2>3. CASE conn[c].sock # 0 /\ s = conn[c].sock
    <3>1. job'[c].kind = "part" /\ job'[c].sock = s
      BY <1>1, <2>3 DEF Part, Job
    <3> QED BY <1>1, <1>2, <2>1, <3>1 DEF FramesMean
  <2>4. CASE s # conn[c].sock
    <3>1. \A i \in DOMAIN socks[s].wire : Aside(socks[s].wire[i], s, job[c], Apart(c))
      BY <1>1, <1>2, <2>1, <2>4 DEF FramesMean
    <3>2. \A i \in DOMAIN socks[s].wire : Aside(socks[s].wire[i], s, job'[c], Apart(c)')
      BY <1>1, <1>2, <1>4, <3>1 DEF Aside
    <3> QED BY <2>1, <3>2 DEF FramesMean
  <2> QED BY <2>2, <2>3, <2>4
<1>8. Windowed(c)'
  BY <1>5, <1>6, <1>7 DEF Windowed
<1> QED BY <1>1, <1>3, <1>8, ViewerOffStep, WindowedStep

(***************************************************************************)
(* Statements on the live figure.                                          *)
(***************************************************************************)
LEMMA LiveOpenWindows ==
  ASSUME Inv, WInv, NEW c \in Clients, LiveOpen(c)
  PROVE  WInv'
<1> DEFINE win == Window(c, ids[c])
<1>1. /\ Idle(c) /\ store'[c] = store[c] /\ current'[c] = current[c]
      /\ ids'[c] = ids[c] + 1 /\ conn'[c] = conn[c] /\ live'[c] = live[c]
      /\ synced'[c] = synced[c] /\ socks' = Append(socks, NewSock(c))
      /\ job'[c] = LiveDial("open", Len(socks'), win)
  BY DEF LiveOpen, LiveStatement, Statement, Inv, PerClient, LiveDial
<1>2. ids[c] \in Nat /\ ids[c] <= ids'[c] /\ ids'[c] - 1 = ids[c] /\ ids[c] \in 0..(ids'[c] - 1)
  BY <1>1, WinsAreOwn
<1>3. win \in Apart(c)'
  <2>1. Plotted(c)' = Plotted(c)
    BY <1>1 DEF Plotted
  <2>2. Plotted(c) \subseteq Outs(c, ids[c])
    <3>1. FiguresFit(store[c], current[c], handles[c], Outs(c, ids[c]), live[c].win)
      BY FiguresWider
    <3> QED BY <3>1, WinsAreOwn DEF FiguresFit, StoreFits, CurrentFits, Plotted
  <2>3. win \notin Outs(c, ids[c])
    BY <1>2, FreshWindow
  <2> QED BY <1>2, <2>1, <2>2, <2>3 DEF Apart
<1>4. /\ JobMeans(c, job'[c], conn[c], current[c].output, synced[c], Apart(c)')
      /\ ~Wipes(job'[c]) /\ job'[c].kind = "open"
  <2>1. PICK m : m = Open(win)
    OBVIOUS
  <2>2. m.win = win /\ m \notin {Ping, Reset}
    BY <2>1, FrameWins
  <2>3. win \in Own(c)
    BY <1>2 DEF Own
  <2>4. job'[c] = Job("open", TRUE, Len(socks'), <<m>>)
    BY <1>1, <2>1 DEF LiveDial
  <2>5. PICK j, aside : j = job'[c] /\ aside = Apart(c)'
    OBVIOUS
  <2>6. j.kind = "open" /\ j.todo = <<m>>
    BY <2>4, <2>5 DEF Job
  <2>7. m.win \in aside /\ m.win \in Own(c)
    BY <1>3, <2>2, <2>3, <2>5
  <2>8. JobMeans(c, j, conn[c], current[c].output, synced[c], aside) /\ ~Wipes(j)
    BY <2>2, <2>6, <2>7, OneMeans
  <2> QED BY <2>5, <2>6, <2>8
<1>5. Window(c, ids'[c] - 1) \in Apart(c)'
  BY <1>2, <1>3
<1> QED BY <1>1, <1>2, <1>4, <1>5, LiveOpenStep, TalkWindows

(* One frame for the window of the live figure.                            *)
LEMMA LiveMeans ==
  ASSUME Inv, WInv, NEW c \in Clients, live[c].win # Terminal,
         store'[c] = store[c], current'[c] = current[c], ids'[c] = ids[c], conn'[c] = conn[c],
         NEW m, m.win = live[c].win, m \notin {Ping, Reset},
         NEW kind \in {"open", "update", "draw", "part", "tell"}, NEW dialling, NEW s,
         kind = "tell" => s # conn[c].sock,
         job'[c] = Job(kind, dialling, s, <<m>>)
  PROVE  /\ JobMeans(c, job'[c], conn[c], current[c].output, synced[c], Apart(c)')
         /\ ~Wipes(job'[c]) /\ job'[c].kind = kind
<1>1. live[c].win \in Apart(c)
  BY DEF WInv, Windowed, PlotsOK, Terminal
<1>2. Apart(c)' = Apart(c)
  BY DEF Apart, Plotted
<1>3. PICK j, aside : j = job'[c] /\ aside = Apart(c)'
  OBVIOUS
<1>4. m.win \in aside /\ m.win \in Own(c)
  BY <1>1, <1>2, <1>3, WinsAreOwn
<1>5. j.kind = kind /\ j.sock = s /\ j.todo = <<m>>
  BY <1>3 DEF Job
<1>6. JobMeans(c, j, conn[c], current[c].output, synced[c], aside) /\ ~Wipes(j)
  BY <1>4, <1>5, OneMeans
<1> QED BY <1>3, <1>5, <1>6

LEMMA LiveSendWindows ==
  ASSUME Inv, WInv, NEW c \in Clients, NEW kind \in {"update", "draw"}, LiveSend(c, kind)
  PROVE  WInv'
<1>1. PerClient /\ LiveStatement(c) /\ live[c] # NoLive /\ UNCHANGED <<ids, live>>
  BY DEF Inv, LiveSend
<1>2. /\ Idle(c) /\ job[c] = NoJob /\ store'[c] = store[c] /\ current'[c] = current[c]
      /\ ids'[c] = ids[c] /\ conn'[c] = conn[c] /\ live'[c] = live[c] /\ synced'[c] = synced[c]
  BY <1>1 DEF LiveStatement, Statement, Idle
<1>3. \/ /\ live[c].sock # 0 /\ socks' = socks
         /\ job' = [job EXCEPT ![c] =
              LiveSay(kind, live[c].sock, LiveFrame(kind, live[c].win, said[c] + 1))]
      \/ /\ live[c].sock = 0 /\ socks' = Append(socks, NewSock(c))
         /\ job' = [job EXCEPT ![c] = LiveDial(kind, Len(socks'), live[c].win)]
      \/ job' = job /\ socks' = socks
  BY DEF LiveSend, LiveSay, LiveFrame, LiveDial
<1>4. live[c].win # Terminal
  BY <1>1 DEF Inv, LinkOK, LiveFits
<1>5. /\ job'[c] = NoJob \/
           JobMeans(c, job'[c], conn[c], current[c].output, synced[c], Apart(c)')
      /\ job'[c].kind \notin {"open", "sync"} /\ ~Wipes(job'[c])
  <2>1. CASE job' = job
    BY <1>2, <2>1 DEF NoJob, Wipes
  <2>2. CASE job' = [job EXCEPT ![c] =
               LiveSay(kind, live[c].sock, LiveFrame(kind, live[c].win, said[c] + 1))]
    <3>1. PICK m : m = LiveFrame(kind, live[c].win, said[c] + 1)
      OBVIOUS
    <3>2. m.win = live[c].win /\ m \notin {Ping, Reset}
      BY ZenonT(60), <3>1, FrameWins DEF LiveFrame
    <3>3. job'[c] = Job(kind, FALSE, live[c].sock, <<m>>)
      BY <1>1, <2>2, <3>1 DEF PerClient, LiveSay
    <3>4. kind \in {"open", "update", "draw", "part", "tell"} /\ kind \notin {"tell", "open", "sync"}
      OBVIOUS
    <3>5. /\ JobMeans(c, job'[c], conn[c], current[c].output, synced[c], Apart(c)')
          /\ ~Wipes(job'[c]) /\ job'[c].kind = kind
      BY ZenonT(60), <1>2, <1>4, <3>2, <3>3, <3>4, LiveMeans
    <3> QED BY <3>4, <3>5
  <2>3. CASE job' = [job EXCEPT ![c] = LiveDial(kind, Len(socks'), live[c].win)]
    <3>1. PICK m : m = Open(live[c].win)
      OBVIOUS
    <3>2. m.win = live[c].win /\ m \notin {Ping, Reset}
      BY <3>1, FrameWins
    <3>3. job'[c] = Job(kind, TRUE, Len(socks'), <<m>>)
      BY <1>1, <2>3, <3>1 DEF PerClient, LiveDial
    <3>4. kind \in {"open", "update", "draw", "part", "tell"} /\ kind \notin {"tell", "open", "sync"}
      OBVIOUS
    <3>5. /\ JobMeans(c, job'[c], conn[c], current[c].output, synced[c], Apart(c)')
          /\ ~Wipes(job'[c]) /\ job'[c].kind = kind
      BY ZenonT(60), <1>2, <1>4, <3>2, <3>3, <3>4, LiveMeans
    <3> QED BY <3>4, <3>5
  <2> QED BY <1>3, <2>1, <2>2, <2>3
<1>6. ids[c] <= ids'[c] /\ (socks' = socks \/ socks' = Append(socks, NewSock(c)))
  BY <1>2, <1>3, WinsAreOwn
<1> QED BY <1>2, <1>5, <1>6, LiveSendStep, TalkWindows

LEMMA LiveLabelWindows ==
  ASSUME Inv, WInv, NEW c \in Clients, LiveLabel(c)
  PROVE  WInv'
<1>1. /\ Idle(c) /\ store'[c] = store[c] /\ current'[c] = current[c]
      /\ ids'[c] = ids[c] /\ conn'[c] = conn[c] /\ live[c].sock # 0 /\ live'[c] = live[c]
      /\ socks' = socks /\ job'[c] = Tell(live[c].sock, Label(live[c].win))
      /\ synced'[c] = synced[c]
  BY DEF LiveLabel, LiveStatement, Statement, Inv, PerClient, Tell
<1>2. live[c].win # Terminal /\ live[c].sock # conn[c].sock
  BY <1>1 DEF Inv, LinkOK, LiveFits, NoLive
<1>3. /\ JobMeans(c, job'[c], conn[c], current[c].output, synced[c], Apart(c)')
      /\ ~Wipes(job'[c]) /\ job'[c].kind = "tell"
  <2>1. PICK m : m = Label(live[c].win)
    OBVIOUS
  <2>2. m.win = live[c].win /\ m \notin {Ping, Reset}
    BY <2>1, FrameWins
  <2>3. job'[c] = Job("tell", FALSE, live[c].sock, <<m>>)
    BY <1>1, <2>1 DEF Tell
  <2> QED BY <1>1, <1>2, <2>2, <2>3, LiveMeans
<1>4. ids[c] <= ids'[c]
  BY <1>1, WinsAreOwn
<1>5. job'[c].kind \notin {"open", "sync"}
  BY <1>3
<1> QED BY <1>1, <1>3, <1>4, <1>5, LiveLabelStep, TalkWindows

LEMMA LiveCloseWindows ==
  ASSUME Inv, WInv, NEW c \in Clients, LiveClose(c)
  PROVE  WInv'
<1>1. /\ Idle(c) /\ job[c] = NoJob /\ store'[c] = store[c] /\ current'[c] = current[c]
      /\ ids'[c] = ids[c] /\ conn'[c] = conn[c] /\ live[c] # NoLive /\ live'[c] = NoLive
      /\ socks' = socks
      /\ job'[c] = IF live[c].sock = 0 THEN job[c] ELSE Part(live[c].sock, Close(live[c].win))
      /\ synced'[c] = synced[c]
  BY DEF LiveClose, LiveStatement, Statement, Inv, PerClient, Part, Idle
<1>2. live[c].win # Terminal /\ live'[c].win = NoWindow
  BY <1>1 DEF Inv, LinkOK, LiveFits, NoLive
<1>3. /\ job'[c] = NoJob \/
           JobMeans(c, job'[c], conn[c], current[c].output, synced[c], Apart(c)')
      /\ job'[c].kind \notin {"open", "sync"} /\ ~Wipes(job'[c])
  <2>1. CASE live[c].sock = 0
    BY <1>1, <2>1 DEF NoJob, Wipes
  <2>2. CASE live[c].sock # 0
    <3>1. PICK m : m = Close(live[c].win)
      OBVIOUS
    <3>2. m.win = live[c].win /\ m \notin {Ping, Reset}
      BY <3>1, FrameWins
    <3>3. job'[c] = Job("part", FALSE, live[c].sock, <<m>>)
      BY <1>1, <2>2, <3>1 DEF Part
    <3>4. /\ JobMeans(c, job'[c], conn[c], current[c].output, synced[c], Apart(c)')
          /\ ~Wipes(job'[c]) /\ job'[c].kind = "part"
      BY <1>1, <1>2, <3>2, <3>3, LiveMeans
    <3> QED BY <3>4
  <2> QED BY <2>1, <2>2
<1>4. ids[c] <= ids'[c]
  BY <1>1, WinsAreOwn
<1> QED BY <1>1, <1>2, <1>3, <1>4, LiveCloseStep, TalkWindows

(* The flags mean nothing to windows.                                      *)
LEMMA FlagsOnlyWindows ==
  ASSUME WInv, UNCHANGED <<store, current, ids, conn, live, job, synced, socks, queue, windows,
                           touched>>
  PROVE  WInv'
<1>1. \A w, wire : Reaches(w, wire)' = Reaches(w, wire)
  BY DEF Reaches, Pending
<1>2. \A c : Excused(c)' = Excused(c)
  BY DEF Excused, Behind, Known
<1>3. \A c : Apart(c)' = Apart(c)
  BY DEF Apart, Plotted
<1>4. ASSUME NEW c \in Clients PROVE Windowed(c)'
  <2>1. Windowed(c)
    BY DEF WInv
  <2>2. FramesOK(c)' /\ JobOK(c)' /\ PlotsOK(c)'
    BY <1>3, <2>1 DEF Windowed, FramesOK, JobOK, PlotsOK
  <2>3. PromiseOK(c)'
    BY <1>1, <1>2, <2>1 DEF Windowed, PromiseOK
  <2> QED BY <2>2, <2>3 DEF Windowed
<1> QED BY <1>4 DEF WInv

LEMMA FlagStepWindows ==
  ASSUME WInv, NEW c \in Clients, NextLine(c) \/ Press(c)
  PROVE  WInv'
<1>1. UNCHANGED <<store, current, ids, conn, live, job, synced, socks, queue, windows, touched>>
  BY DEF NextLine, Press, script, viewer
<1> QED BY <1>1, FlagsOnlyWindows

(***************************************************************************)
(* A job ends.  A plot that was cut off is promised no more; one whose     *)
(* messages are out is.                                                    *)
(***************************************************************************)
LEMMA EndingWindows ==
  ASSUME Inv, WInv, NEW c \in Clients, Ending(c),
         NEW s, s = job[c].sock,
         job[c].dialling \/ job[c].kind = "part" => ~socks'[s].held,
         \/ /\ conn'[c] = NoConn /\ synced'[c] = Blank
            /\ conn[c].sock # 0 => conn[c].sock = s /\ ~socks'[s].held
         \/ /\ conn'[c] = conn[c] /\ current'[c] = current[c]
            /\ job[c].kind = "on" => ~Wipes(job[c])
            /\ \/ synced'[c] = Blank
               \/ synced'[c] = synced[c] /\ (job[c].kind = "sync" => conn[c].sock = 0)
               \/ /\ job[c].kind = "sync" /\ job[c].todo = <<>>
                  /\ synced'[c] = current[c].content
  PROVE  WInv'
<1>1. ClientStep(c) /\ ~Idle(c) /\ EndingSocks(c)
  BY EndingStep DEF Ending
<1>2. /\ store'[c] = store[c] /\ ids'[c] = ids[c] /\ job'[c] = NoJob
      /\ NoJob.kind = "none" /\ NoJob.sock = 0 /\ ~Wipes(NoJob)
      /\ UNCHANGED <<queue, windows, touched>>
  BY DEF Ending, NoJob, Wipes, viewer
<1>3. Windowed(c) /\ ids[c] \in Nat /\ ids[c] <= ids'[c]
  BY <1>2, WinsAreOwn DEF WInv
<1>4. live'[c].win = live[c].win
  BY WinsAreOwn DEF Ending
<1>5. /\ current'[c].output \in {current[c].output, Terminal}
      /\ conn'[c].win \in {conn[c].win, Terminal} /\ conn'[c] \in {conn[c], NoConn}
      /\ NoConn.sock = 0
  <2>1. CurrentFits(store[c], current[c], handles[c], Outs(c, ids[c]), live[c].win)
    BY FiguresWider DEF FiguresFit
  <2> QED BY <2>1 DEF Ending, CurrentFits, NoConn, Terminal
<1>6. /\ s \in DOMAIN socks /\ s # 0 /\ socks[s].owner = c /\ socks[s].held
      /\ DOMAIN socks = 1..Len(socks) /\ DOMAIN socks' = DOMAIN socks
      /\ \A t \in DOMAIN socks : t # s => socks'[t] = socks[t]
  BY <1>1, WorkIs DEF EndingSocks
<1>7. socks'[s] = socks[s] \/ ~socks'[s].held
  BY <1>1 DEF EndingSocks
<1>8. Apart(c) \subseteq Apart(c)'
  <2>1. \A x \in Plotted(c)' : x \in Plotted(c) \cup {Terminal}
    BY <1>2, <1>5 DEF Plotted
  <2> QED BY <1>2, <1>3, <2>1, ApartGrows
<1>9. JobOK(c)'
  BY <1>2, NoJobMeans DEF JobOK
<1>10. FramesOK(c)'
  <2> SUFFICES ASSUME NEW t \in DOMAIN socks, socks'[t].owner = c /\ socks'[t].held
               PROVE  FramesMean(c, t, socks'[t], conn'[c], NoJob, Apart(c)')
    BY <1>2, <1>6 DEF FramesOK
  <2>1. socks'[t] = socks[t]
    BY <1>6, <1>7
  <2>2. FramesMean(c, t, socks[t], conn[c], job[c], Apart(c))
    BY <1>3, <2>1 DEF Windowed, FramesOK
  <2>3. t = s => ~job[c].dialling /\ job[c].kind # "part"
    OBVIOUS
  <2>4. ~(t = s /\ Wipes(job[c]))
    BY <2>3 DEF Wipes
  <2>5. t # conn'[c].sock => t # conn[c].sock
    BY <1>5, <1>6
  <2>6. ASSUME t # conn'[c].sock, NEW i \in DOMAIN socks[t].wire
        PROVE  Aside(socks[t].wire[i], t, NoJob, Apart(c)')
    <3>1. Aside(socks[t].wire[i], t, job[c], Apart(c))
      BY <2>2, <2>3, <2>5, <2>6 DEF FramesMean
    <3> QED BY <1>8, <2>4, <3>1 DEF Aside
  <2> QED BY <2>1, <2>2, <2>6 DEF FramesMean
<1>11. PlotsOK(c)'
  <2>1. synced'[c] # Blank => current'[c].output # Terminal
    BY <1>3 DEF Windowed, PlotsOK, JobOK, JobMeans
  <2> QED BY <1>2, <1>3, <1>4, <1>5, <1>8, <2>1 DEF Windowed, PlotsOK
<1>12. PromiseOK(c)'
  <2> DEFINE v == Reaches(conn[c].win, socks[conn[c].sock].wire)
  <2> SUFFICES ASSUME conn'[c].sock # 0, socks'[conn'[c].sock].served, ~Excused(c)'
               PROVE  Promised(conn'[c], NoJob, current'[c], synced'[c], v')
    BY <1>2 DEF PromiseOK
  <2>1. conn'[c] = conn[c] /\ current'[c] = current[c] /\ conn[c].sock # 0
    BY <1>5
  <2>2. socks'[conn[c].sock] = socks[conn[c].sock]
    BY <1>1, <1>6, <2>1 DEF EndingSocks, Inv, LinkOK, Holds
  <2>3. ~Excused(c)
    <3>1. \A d \in Clients : ids[d] \in Nat /\ ids'[d] \in Nat /\ ids[d] <= ids'[d]
      BY <1>1, <1>3, Numbers
    <3>2. \A t \in DOMAIN socks : socks'[t].owner = socks[t].owner
                                  /\ (socks'[t].held => socks[t].held)
      BY <1>1, <1>6, <1>7 DEF EndingSocks
    <3> QED BY <1>2, <2>1, <3>1, <3>2, ExcusedStays
  <2>4. v' = v
    BY <1>2, <2>1, <2>2 DEF Reaches, Pending
  <2>5. Promised(conn[c], job[c], current[c], synced[c], v)
    <3>1. job[c].kind = "on" => ~Wipes(job[c])
      BY <2>1 DEF NoConn
    <3> QED BY <1>3, <2>1, <2>2, <2>3, <3>1 DEF Windowed, PromiseOK
  <2> HIDE DEF v
  <2>6. synced'[c] # Blank => Shows(v, synced'[c])
    <3>1. CASE job[c].kind = "sync" /\ job[c].todo = <<>> /\ synced'[c] = current[c].content
      <4>1. Syncing(job[c], conn[c].win, current[c].content, v)
        BY <2>5, <3>1 DEF Promised
      <4>2. \A x, y, z : <<>> # <<x, y, z>> /\ <<>> # <<x, y>>
        OBVIOUS
      <4> QED BY <3>1, <4>1, <4>2 DEF Syncing
    <3>2. CASE synced'[c] = synced[c] /\ job[c].kind # "sync"
      BY <2>5, <3>2 DEF Promised
    <3> QED BY <2>1, <3>1, <3>2 DEF NoConn
  <2>7. Promised(conn[c], NoJob, current[c], synced'[c], v)
    BY <1>2, <2>5, <2>6 DEF Promised
  <2> QED BY <2>1, <2>4, <2>7
<1>13. Windowed(c)'
  BY <1>9, <1>10, <1>11, <1>12 DEF Windowed
<1>14. \A t \in DOMAIN socks : socks'[t].held => socks[t].held
  BY <1>6, <1>7
<1> QED BY <1>1, <1>3, <1>13, <1>14, WindowedStep

LEMMA DroppedGone ==
  ASSUME Inv, NEW c \in Clients, ~Idle(c), NEW s, s = job[c].sock,
         NEW ss \in Seq(SockType), Len(ss) = Len(socks), socks' = Drop(ss, s)
  PROVE  ~socks'[s].held
<1>1. s \in DOMAIN socks /\ s # 0 /\ DOMAIN socks = 1..Len(socks)
  BY WorkIs
<1>2. s \in DOMAIN ss \cup {0}
  BY <1>1
<1> QED BY <1>1, <1>2, DropEffect

LEMMA StopsWindows ==
  ASSUME Inv, WInv, NEW c \in Clients, ~Idle(c), Guarded(job[c]), Ending(c),
         NEW partial, NEW ss \in Seq(SockType), Len(ss) = Len(socks), Stops(c, ss, partial)
  PROVE  WInv'
<1> DEFINE gone == job[c].dialling \/ partial
<1>1. PICK s : s = job[c].sock
  OBVIOUS
<1>2. /\ job[c].kind # "part" /\ job[c].kind # "on" /\ PerClient
  BY DEF Guarded, Inv
<1>3. /\ socks' = IF gone THEN Drop(ss, s) ELSE ss
      /\ conn'[c] = IF gone /\ job[c].kind = "sync" THEN NoConn ELSE conn[c]
      /\ synced'[c] = IF job[c].kind = "sync" THEN Blank ELSE synced[c]
      /\ current'[c] = current[c]
  BY <1>1, <1>2 DEF Stops, PerClient
<1>4. gone => ~socks'[s].held
  BY <1>1, <1>3, DroppedGone
<1>5. job[c].kind = "sync" /\ conn[c].sock # 0 => conn[c].sock = s
  BY <1>1, GuardedIs
<1>6. job[c].dialling => gone
  OBVIOUS
<1> HIDE DEF gone
<1> QED BY <1>1, <1>2, <1>3, <1>4, <1>5, <1>6, EndingWindows

LEMMA InterruptedWindows ==
  ASSUME Inv, WInv, NEW c \in Clients, StopBetween(c) \/ StopInFrame(c) \/ StopWaiting(c)
  PROVE  WInv'
<1>1. ~Idle(c) /\ Guarded(job[c]) /\ Ending(c)
  BY InterruptedEnds DEF StopBetween, StopInFrame, StopWaiting, Working, Requested
<1>2. socks \in Seq(SockType)
  BY DEF Inv
<1>3. CASE StopBetween(c)
  <2>1. Stops(c, socks, flags[c].partial)
    BY <1>3 DEF StopBetween
  <2> QED BY <1>1, <1>2, <2>1, StopsWindows
<1>4. CASE StopInFrame(c)
  <2>1. Stops(c, CutShort(job[c].sock), TRUE)
    BY <1>4 DEF StopInFrame, CutShort
  <2>2. CutShort(job[c].sock) \in Seq(SockType) /\ Len(CutShort(job[c].sock)) = Len(socks)
    BY <1>1, CutShortIs
  <2> QED BY <1>1, <2>1, <2>2, StopsWindows
<1>5. CASE StopWaiting(c)
  <2>1. Stops(c, socks, TRUE)
    BY <1>5 DEF StopWaiting
  <2> QED BY <1>1, <1>2, <2>1, StopsWindows
<1> QED BY <1>3, <1>4, <1>5

LEMMA LoseSyncWindows ==
  ASSUME Inv, WInv, NEW c \in Clients, LoseSync(c)
  PROVE  WInv'
<1>1. PICK s : s = job[c].sock
  OBVIOUS
<1>2. /\ ~Idle(c) /\ Ending(c) /\ PerClient /\ socks \in Seq(SockType) /\ Guarded(job[c])
      /\ job[c].kind = "sync"
  BY LoseSyncEnds DEF LoseSync, Failed, Working, Inv, Guarded
<1>3. /\ socks' = Drop(socks, s) /\ conn'[c] = NoConn /\ synced'[c] = Blank
  BY <1>1, <1>2 DEF LoseSync, PerClient
<1>4. ~socks'[s].held
  BY <1>1, <1>2, <1>3, DroppedGone
<1>5. conn[c].sock # 0 => conn[c].sock = s
  BY <1>1, <1>2, GuardedIs
<1> QED BY <1>1, <1>2, <1>3, <1>4, <1>5, EndingWindows

LEMMA LoseLiveWindows ==
  ASSUME Inv, WInv, NEW c \in Clients, LoseLive(c)
  PROVE  WInv'
<1>1. PICK s : s = job[c].sock
  OBVIOUS
<1>2. /\ ~Idle(c) /\ Ending(c) /\ socks \in Seq(SockType)
      /\ job[c].kind \notin {"sync", "on", "part"}
  BY LoseLiveEnds DEF LoseLive, Failed, Working, Inv
<1>3. socks' = Drop(socks, s) /\ UNCHANGED <<current, conn, synced>>
  BY <1>1 DEF LoseLive
<1>4. ~socks'[s].held
  BY <1>1, <1>2, <1>3, DroppedGone
<1> QED BY <1>1, <1>2, <1>3, <1>4, EndingWindows

LEMMA LoseDialWindows ==
  ASSUME Inv, WInv, NEW c \in Clients, LoseDial(c)
  PROVE  WInv'
<1>1. PICK s : s = job[c].sock
  OBVIOUS
<1>2. /\ ~Idle(c) /\ Ending(c) /\ socks \in Seq(SockType) /\ job[c].todo # <<>>
      /\ job[c].dialling /\ Head(job[c].todo).type # "Reset"
  BY LoseDialEnds DEF LoseDial, Failed, Working, Inv
<1>3. socks' = Drop(socks, s) /\ UNCHANGED <<current, conn, synced>>
  BY <1>1 DEF LoseDial
<1>4. ~socks'[s].held
  BY <1>1, <1>2, <1>3, DroppedGone
<1>5. job[c].kind = "on" => ~Wipes(job[c])
  <2>1. job[c].kind = "on" => job[c].todo \in {<<Ping, Reset>>, <<Reset>>, <<>>}
    BY <1>2 DEF WInv, Windowed, JobOK, JobMeans
  <2>2. Head(<<Reset>>).type = "Reset"
    BY DEF Reset, Message
  <2> QED BY <1>2, <2>1, <2>2 DEF Wipes
<1>6. job[c].kind = "sync" => conn[c].sock = 0
  BY <1>2, WorkIs DEF JobFits
<1> QED BY <1>1, <1>2, <1>3, <1>4, <1>5, <1>6, EndingWindows

LEMMA LoseTellWindows ==
  ASSUME Inv, WInv, NEW c \in Clients, LoseTell(c)
  PROVE  WInv'
<1>1. PICK s : s = job[c].sock
  OBVIOUS
<1>2. /\ ~Idle(c) /\ Ending(c) /\ socks \in Seq(SockType) /\ job[c].kind \in {"tell", "part"}
      /\ ~job[c].dialling
  BY LoseTellEnds, WorkIs DEF LoseTell, Failed, Working, Inv, JobFits, JobType
<1>3. /\ socks' = IF job[c].kind = "part" THEN Drop(socks, s) ELSE socks
      /\ UNCHANGED <<current, conn, synced>>
  BY <1>1 DEF LoseTell
<1>4. job[c].kind = "part" => ~socks'[s].held
  BY <1>1, <1>2, <1>3, DroppedGone
<1> QED BY <1>1, <1>2, <1>3, <1>4, EndingWindows

LEMMA SyncedWindows ==
  ASSUME Inv, WInv, NEW c \in Clients, Synced(c)
  PROVE  WInv'
<1>1. PICK s : s = job[c].sock
  OBVIOUS
<1>2. /\ ~Idle(c) /\ Ending(c) /\ PerClient
      /\ job[c].kind = "sync" /\ job[c].todo = <<>> /\ ~job[c].dialling
  <2>1. Ending(c)
    BY SyncedEnds
  <2>2. ~Idle(c) /\ job[c].todo = <<>> /\ job[c].kind \in {"sync"} /\ job[c].dialling = FALSE
    BY DEF Synced, Finished
  <2> QED BY <2>1, <2>2 DEF Inv
<1>3. /\ UNCHANGED <<socks, current, conn>> /\ synced'[c] = current[c].content
  BY <1>2 DEF Synced, PerClient
<1> QED BY <1>1, <1>2, <1>3, EndingWindows

LEMMA LiveSentWindows ==
  ASSUME Inv, WInv, NEW c \in Clients, LiveSent(c)
  PROVE  WInv'
<1>1. PICK s : s = job[c].sock
  OBVIOUS
<1>2. /\ ~Idle(c) /\ Ending(c) /\ socks \in Seq(SockType) /\ ~job[c].dialling
      /\ job[c].kind \in {"update", "draw"}
  BY LiveSentEnds, FinishedIs DEF LiveSent, Inv
<1>3. CASE Stops(c, socks, flags[c].partial)
  BY <1>2, <1>3, StopsWindows DEF Guarded
<1>4. CASE UNCHANGED <<current, conn, socks, synced>>
  BY <1>1, <1>2, <1>4, EndingWindows
<1> QED BY <1>3, <1>4 DEF LiveSent

LEMMA ToldWindows ==
  ASSUME Inv, WInv, NEW c \in Clients, Told(c)
  PROVE  WInv'
<1>1. PICK s : s = job[c].sock
  OBVIOUS
<1>2. /\ ~Idle(c) /\ Ending(c) /\ socks \in Seq(SockType) /\ job[c].kind \in {"tell", "part"}
      /\ ~job[c].dialling
  BY ToldEnds, FinishedIs DEF Told, Inv
<1>3. /\ socks' = IF job[c].kind = "part" THEN Drop(socks, s) ELSE socks
      /\ UNCHANGED <<current, conn, synced>>
  BY <1>1 DEF Told
<1>4. job[c].kind = "part" => ~socks'[s].held
  BY <1>1, <1>2, <1>3, DroppedGone
<1> QED BY <1>1, <1>2, <1>3, <1>4, EndingWindows

(***************************************************************************)
(* A job goes on: one of its messages goes out, or an answer comes in.     *)
(***************************************************************************)
LEMMA WorkWindows ==
  ASSUME Inv, WInv, NEW c \in Clients, WorkStep(c), NEW s, s = job[c].sock,
         NEW m, NEW sent \in BOOLEAN,
         socks'[s].wire = (IF sent THEN Append(socks[s].wire, m) ELSE socks[s].wire),
         socks'[s].served = socks[s].served,
         conn'[c].win = conn[c].win, job[c].kind # "sync" => conn'[c] = conn[c],
         JobMeans(c, job'[c], conn'[c], current[c].output, synced[c], Apart(c)),
         Wipes(job[c]) => Wipes(job'[c]),
         sent => m.win \in Own(c)
                 /\ (s # conn[c].sock /\ ~(conn[c].sock = 0 /\ job[c].kind = "part") =>
                       Aside(m, s, job'[c], Apart(c))),
         conn[c].sock = s =>
           \A v : Promised(conn[c], job[c], current[c], synced[c], v) =>
                    Promised(conn'[c], job'[c], current[c], synced[c],
                             IF sent THEN Effect(conn[c].win, v, m) ELSE v)
  PROVE  WInv'
<1>1. /\ ClientStep(c) /\ ~Idle(c)
      /\ store'[c] = store[c] /\ ids'[c] = ids[c] /\ live'[c] = live[c]
      /\ current'[c] = current[c] /\ synced'[c] = synced[c]
      /\ conn'[c].sock = conn[c].sock /\ job'[c].sock = s /\ job'[c].kind = job[c].kind
      /\ UNCHANGED <<queue, windows, touched>>
  BY WorkStepStep DEF WorkStep, viewer
<1>2. Windowed(c) /\ ids[c] \in Nat /\ ids[c] <= ids'[c]
  BY <1>1, WinsAreOwn DEF WInv
<1>3. /\ s \in DOMAIN socks /\ s # 0 /\ socks[s].owner = c /\ socks[s].held
      /\ socks[s].wire \in Seq(Frames \cup {Cut})
      /\ DOMAIN socks' = DOMAIN socks /\ socks'[s].held /\ socks'[s].owner = c
      /\ \A t \in DOMAIN socks : t # s => socks'[t] = socks[t]
  <2>1. /\ s \in DOMAIN socks /\ s # 0 /\ socks[s].owner = c /\ socks[s].held
        /\ socks[s] \in SockType /\ DOMAIN socks = 1..Len(socks) /\ socks \in Seq(SockType)
    BY <1>1, WorkIs
  <2>2. PICK new \in SockType : socks' = [socks EXCEPT ![s] = new] /\ new.owner = c /\ new.held
    BY DEF WorkStep
  <2> QED BY <2>1, <2>2 DEF SockType
<1>4. Plotted(c)' = Plotted(c) /\ Apart(c)' = Apart(c)
  BY <1>1 DEF Apart, Plotted
<1>5. JobOK(c)' /\ PlotsOK(c)'
  BY <1>1, <1>2, <1>4 DEF Windowed, JobOK, PlotsOK
<1>6. FramesOK(c)'
  <2> SUFFICES ASSUME NEW t \in DOMAIN socks, socks'[t].owner = c /\ socks'[t].held
               PROVE  FramesMean(c, t, socks'[t], conn'[c], job'[c], Apart(c))
    BY <1>3, <1>4 DEF FramesOK
  <2>1. FramesMean(c, t, socks[t], conn[c], job[c], Apart(c))
    BY <1>2, <1>3 DEF Windowed, FramesOK
  <2>2. FramesMean(c, t, socks[t], conn'[c], job'[c], Apart(c))
    BY <1>1, <2>1, AsideGrows
  <2>3. CASE t # s \/ ~sent
    <3>1. socks'[t].wire = socks[t].wire
      BY <1>3, <2>3
    <3> QED BY <2>2, <3>1 DEF FramesMean
  <2>4. CASE t = s /\ sent
    <3>1. PICK w : w = socks[s].wire
      OBVIOUS
    <3>2. /\ socks'[s].wire = Append(w, m)
          /\ \A i \in DOMAIN Append(w, m) :
               Append(w, m)[i] = m \/ (i \in DOMAIN w /\ Append(w, m)[i] = w[i])
      <4>1. socks'[s].wire = Append(w, m)
        BY <2>4, <3>1
      <4>2. PICK T : w \in Seq(T)
        BY <1>3, <3>1
      <4>3. PICK more : more = Append(w, m)
        OBVIOUS
      <4>4. \A i \in DOMAIN more : more[i] = m \/ (i \in DOMAIN w /\ more[i] = w[i])
        BY <4>2, <4>3, AppendedAre
      <4> QED BY <4>1, <4>3, <4>4
    <3>3. \A i \in DOMAIN socks'[s].wire :
            socks'[s].wire[i] = m \/ (i \in DOMAIN w /\ socks'[s].wire[i] = w[i])
      BY <3>2
    <3>4. \A i \in DOMAIN socks'[s].wire : socks'[s].wire[i].win \in Own(c)
      BY <2>2, <2>4, <3>1, <3>3 DEF FramesMean
    <3>5. ASSUME s # conn'[c].sock, ~(conn'[c].sock = 0 /\ job'[c].kind = "part" /\ job'[c].sock = s),
                 NEW i \in DOMAIN socks'[s].wire
          PROVE  Aside(socks'[s].wire[i], s, job'[c], Apart(c))
      <4>1. \A k \in DOMAIN w : Aside(w[k], s, job'[c], Apart(c))
        BY <2>2, <2>4, <3>1, <3>5 DEF FramesMean
      <4>2. Aside(m, s, job'[c], Apart(c))
        BY <1>1, <2>4, <3>5
      <4> QED BY <3>3, <4>1, <4>2
    <3> QED BY <2>4, <3>4, <3>5 DEF FramesMean
  <2> QED BY <2>3, <2>4
<1>7. PromiseOK(c)'
  <2> DEFINE v == Reaches(conn[c].win, socks[conn[c].sock].wire)
  <2> SUFFICES ASSUME conn'[c].sock # 0, socks'[conn'[c].sock].served, ~Excused(c)',
                      ~(job'[c].kind = "on" /\ Wipes(job'[c]))
               PROVE  Promised(conn'[c], job'[c], current'[c], synced'[c], v')
    BY DEF PromiseOK
  <2>1. ~Excused(c)
    <3>1. \A d \in Clients : ids[d] \in Nat /\ ids'[d] \in Nat /\ ids[d] <= ids'[d]
      BY <1>1, <1>2, Numbers
    <3>2. \A t \in DOMAIN socks : socks'[t].owner = socks[t].owner
                                  /\ (socks'[t].held => socks[t].held)
      BY <1>3
    <3> QED BY <1>1, <3>1, <3>2, ExcusedStays
  <2>2. conn[c].sock # 0 /\ conn[c].sock \in DOMAIN socks /\ socks[conn[c].sock].served
    BY <1>1, <1>3 DEF Inv, LinkOK, Holds
  <2>3. Promised(conn[c], job[c], current[c], synced[c], v)
    BY <1>1, <1>2, <2>1, <2>2 DEF Windowed, PromiseOK
  <2>4. v' = After(conn[c].win, Pending(conn[c].win), socks'[conn[c].sock].wire)
    BY <1>1 DEF Reaches, Pending
  <2>5. v = After(conn[c].win, Pending(conn[c].win), socks[conn[c].sock].wire)
    BY DEF Reaches
  <2> HIDE DEF v
  <2>6. CASE conn[c].sock = s
    <3>1. Promised(conn'[c], job'[c], current[c], synced[c],
                   IF sent THEN Effect(conn[c].win, v, m) ELSE v)
      BY <2>3, <2>6
    <3>2. v' = IF sent THEN Effect(conn[c].win, v, m) ELSE v
      <4>1. PICK w, win, p : w = socks[s].wire /\ win = conn[c].win /\ p = Pending(win)
        OBVIOUS
      <4>2. After(win, p, Append(w, m)) = Effect(win, After(win, p, w), m)
        BY <1>3, <4>1, AfterAppend
      <4>3. CASE sent
        BY <2>4, <2>5, <2>6, <4>1, <4>2, <4>3
      <4>4. CASE ~sent
        BY <2>4, <2>5, <2>6, <4>4
      <4> QED BY <4>3, <4>4
    <3> QED BY <1>1, <3>1, <3>2
  <2>7. CASE conn[c].sock # s
    <3>1. job[c].kind # "sync" /\ conn'[c] = conn[c]
      BY <1>1, <2>2, <2>7, WorkIs DEF JobFits
    <3>2. Promised(conn[c], job'[c], current[c], synced[c], v)
      BY <1>1, <2>3, <3>1 DEF Promised
    <3>3. socks'[conn[c].sock] = socks[conn[c].sock]
      BY <1>3, <2>2, <2>7
    <3> QED BY <1>1, <2>4, <2>5, <3>1, <3>2, <3>3
  <2> QED BY <2>6, <2>7
<1>8. Windowed(c)'
  BY <1>5, <1>6, <1>7 DEF Windowed
<1>9. \A t \in DOMAIN socks : socks'[t].held => socks[t].held
  BY <1>3
<1> QED BY <1>1, <1>2, <1>8, <1>9, WindowedStep

LEMMA PoppedMeans ==
  ASSUME NEW c, NEW j, NEW k, NEW l, JobFits(j, k, l), j.todo # <<>>,
         NEW output, NEW plot, NEW aside, JobMeans(c, j, k, output, plot, aside),
         NEW k2, k2.sock = k.sock, j.kind = "tell" => k2 = k
  PROVE  /\ JobMeans(c, Popped(j), k2, output, plot, aside)
         /\ Wipes(j) => Wipes(Popped(j))
         /\ Popped(j).kind = j.kind /\ Popped(j).todo = Tail(j.todo) /\ ~Popped(j).waiting
<1>1. PICK p : p = Popped(j)
  OBVIOUS
<1>2. j \in JobType /\ j.todo \in Seq(Frames)
  BY DEF JobFits, JobType
<1>3. /\ p.kind = j.kind /\ p.sock = j.sock /\ p.dialling = j.dialling /\ ~p.waiting
      /\ p.todo = Tail(j.todo)
  BY <1>1, <1>2 DEF Popped, JobType
<1>4. \A i \in DOMAIN p.todo : i + 1 \in DOMAIN j.todo /\ p.todo[i] = j.todo[i + 1]
  BY <1>2, <1>3
<1>5. /\ Tail(<<Ping, Reset>>) = <<Reset>> /\ Tail(<<Reset>>) = <<>>
      /\ <<Reset>> # <<Ping, Reset>> /\ <<>> # <<Ping, Reset>>
  <2>1. PICK x, y : x = Ping /\ y = Reset
    OBVIOUS
  <2>2. Tail(<<x, y>>) = <<y>> /\ Tail(<<y>>) = <<>> /\ <<y>> # <<x, y>> /\ <<>> # <<x, y>>
    <3>1. Tail(<<x, y>>) = <<y>>
      <4>1. <<x, y>> \in Seq({x, y}) /\ <<y>> \in Seq({x, y})
        OBVIOUS
      <4> QED BY <4>1
    <3> QED BY <3>1
  <2> QED BY <2>1, <2>2
<1>6. /\ p.kind \in {"on", "sync"} /\ p.dialling => p.todo \in {<<Reset>>, <<>>}
      /\ Wipes(j) => Wipes(p)
  BY <1>3, <1>5 DEF JobMeans, Wipes
<1>7. Elsewhere(p, k2) => Elsewhere(j, k)
  BY <1>3 DEF Elsewhere
<1>8. \A i \in DOMAIN p.todo : p.todo[i].win \in Own(c)
  BY <1>4 DEF JobMeans
<1>9. Elsewhere(p, k2) =>
        \A i \in DOMAIN p.todo : p.todo[i] \notin {Ping, Reset} /\ p.todo[i].win \in aside
  BY <1>4, <1>7 DEF JobMeans
<1>10. p.kind = "tell" /\ p.sock = k2.sock =>
         \A i \in DOMAIN p.todo : Harmless(p.todo[i], k2, output, plot)
  BY <1>3, <1>4 DEF JobMeans
<1>11. p.kind = "sync" => output # Terminal
  BY <1>3 DEF JobMeans
<1>12. JobMeans(c, p, k2, output, plot, aside)
  BY <1>6, <1>8, <1>9, <1>10, <1>11 DEF JobMeans
<1> QED BY <1>1, <1>3, <1>6, <1>12

LEMMA WaitingMeans ==
  ASSUME NEW c, NEW j \in JobType, NEW k, NEW output, NEW plot, NEW aside,
         JobMeans(c, j, k, output, plot, aside), NEW w, w = [j EXCEPT !.waiting = TRUE]
  PROVE  /\ JobMeans(c, w, k, output, plot, aside)
         /\ Wipes(j) => Wipes(w)
         /\ w.kind = j.kind /\ w.todo = j.todo /\ w.waiting
<1>1. /\ w.kind = j.kind /\ w.sock = j.sock /\ w.dialling = j.dialling /\ w.waiting
      /\ w.todo = j.todo
  BY DEF JobType
<1> QED BY <1>1 DEF JobMeans, Elsewhere, Wipes

(* Where the job of a script writes to.                                    *)
LEMMA HomeIs ==
  ASSUME Inv, NEW c \in Clients, ~Idle(c)
  PROVE  /\ job[c].sock = conn[c].sock =>
              ~job[c].dialling /\ job[c].kind \in {"sync", "tell"}
         /\ job[c].kind = "sync" /\ ~job[c].dialling => job[c].sock = conn[c].sock
         /\ job[c].kind = "sync" /\ job[c].dialling => conn[c].sock = 0
         /\ job[c].kind = "on" => job[c].dialling
<1>1. /\ JobFits(job[c], conn[c], live[c]) /\ job[c].sock # 0 /\ job[c].kind # "none"
      /\ job[c] \in JobType
  BY WorkIs
<1>2. conn[c].sock # 0 => conn[c].sock # live[c].sock
  BY DEF Inv, LinkOK
<1> QED BY <1>1, <1>2 DEF JobFits, JobType

LEMMA LoseResetWindows ==
  ASSUME Inv, WInv, NEW c \in Clients, LoseReset(c)
  PROVE  WInv'
<1>1. PICK s : s = job[c].sock
  OBVIOUS
<1>2. /\ WorkStep(c) /\ ~Idle(c) /\ job[c].dialling /\ job[c].todo # <<>> /\ PerClient
  BY LoseResetWorks DEF LoseReset, Failed, Working, Inv
<1>3. job'[c] = Popped(job[c]) /\ UNCHANGED <<socks, conn>>
  BY <1>2 DEF LoseReset, PerClient
<1>4. /\ JobMeans(c, job[c], conn[c], current[c].output, synced[c], Apart(c))
      /\ JobFits(job[c], conn[c], live[c])
  BY <1>2, WorkIs DEF WInv, Windowed, JobOK
<1>5. /\ JobMeans(c, job'[c], conn[c], current[c].output, synced[c], Apart(c))
      /\ Wipes(job[c]) => Wipes(job'[c])
  BY <1>2, <1>3, <1>4, PoppedMeans
<1>6. conn[c].sock # s
  BY <1>1, <1>2, HomeIs
<1> DEFINE sent == FALSE
<1>7. sent \in BOOLEAN /\ ~sent
  OBVIOUS
<1> HIDE DEF sent
<1>8. socks'[s].wire = IF sent THEN Append(socks[s].wire, Ping) ELSE socks[s].wire
  BY <1>3, <1>7
<1> QED BY <1>1, <1>2, <1>3, <1>5, <1>6, <1>7, <1>8, WorkWindows

(* The frames of a plot, in a job of one, two or three.                    *)
LEMMA SyncTodo ==
  ASSUME NEW x, NEW y, NEW z
  PROVE  /\ Head(<<x, y, z>>) = x /\ Head(<<y, z>>) = y /\ Head(<<z>>) = z
         /\ Tail(<<x, y, z>>) = <<y, z>> /\ Tail(<<y, z>>) = <<z>> /\ Tail(<<z>>) = <<>>
<1>1. <<x, y, z>> \in Seq({x, y, z}) /\ <<y, z>> \in Seq({x, y, z}) /\ <<z>> \in Seq({x, y, z})
  OBVIOUS
<1> QED BY <1>1

LEMMA SyncTypes ==
  ASSUME NEW win, NEW content
  PROVE  /\ Open(win).type = "FigureOpen" /\ Update(win, content).type = "PanelUpdate"
         /\ Redraw(win).type = "Redraw"
BY DEF Open, Update, Redraw, Message

(* An answer takes a plot on.                                              *)
LEMMA SyncRead ==
  ASSUME NEW j \in JobType, NEW win, NEW content, NEW v, Syncing(j, win, content, v),
         j.waiting, j.todo # <<>>, NEW p, p.todo = Tail(j.todo), ~p.waiting
  PROVE  /\ Syncing(p, win, content, v)
         /\ Head(j.todo).type = "FigureOpen" => v # {}
<1> DEFINE open == Open(win)
           update == Update(win, content)
           redraw == Redraw(win)
<1>0. /\ Head(<<open, update, redraw>>) = open
      /\ Tail(<<open, update, redraw>>) = <<update, redraw>>
      /\ Head(<<redraw>>) = redraw /\ Tail(<<redraw>>) = <<>>
      /\ open.type = "FigureOpen" /\ redraw.type = "Redraw"
  BY SyncTodo, SyncTypes
<1>1. Syncing(j, win, content, v) <=>
        \/ j.todo = <<open, update, redraw>> /\ (j.waiting => v # {})
        \/ j.todo = <<update, redraw>> /\ ~j.waiting /\ v # {}
        \/ j.todo \in {<<redraw>>, <<>>} /\ Shows(v, content)
  BY DEF Syncing
<1>2. Syncing(p, win, content, v) <=>
        \/ p.todo = <<open, update, redraw>> /\ (p.waiting => v # {})
        \/ p.todo = <<update, redraw>> /\ ~p.waiting /\ v # {}
        \/ p.todo \in {<<redraw>>, <<>>} /\ Shows(v, content)
  BY DEF Syncing
<1> HIDE DEF open, update, redraw
<1>3. CASE j.todo = <<open, update, redraw>>
  BY <1>0, <1>1, <1>2, <1>3
<1>4. CASE j.todo = <<redraw>>
  BY <1>0, <1>1, <1>2, <1>4
<1> QED BY <1>1, <1>3, <1>4

LEMMA ReadReplyWindows ==
  ASSUME Inv, WInv, NEW c \in Clients, ReadReply(c)
  PROVE  WInv'
<1>1. PICK s : s = job[c].sock
  OBVIOUS
<1>2. /\ WorkStep(c) /\ ~Idle(c) /\ job[c].todo # <<>> /\ job[c].waiting /\ PerClient
  BY ReadReplyWorks DEF ReadReply, Working, Inv
<1> DEFINE k == [conn[c] EXCEPT !.opened =
                   conn[c].opened
                   \/ (job[c].kind = "sync" /\ Head(job[c].todo).type = "FigureOpen")]
<1>3. /\ job'[c] = Popped(job[c]) /\ conn'[c] = k
      /\ socks' = [socks EXCEPT ![s] = [socks[s] EXCEPT !.replies = Tail(socks[s].replies)]]
  <2>1. /\ s \in DOMAIN socks /\ socks \in Seq(SockType)
    BY <1>1, <1>2, WorkIs
  <2> QED BY <1>1, <1>2, <2>1 DEF ReadReply, PerClient
<1>4. /\ JobMeans(c, job[c], conn[c], current[c].output, synced[c], Apart(c))
      /\ JobFits(job[c], conn[c], live[c]) /\ job[c] \in JobType
  BY <1>2, WorkIs DEF WInv, Windowed, JobOK
<1>5. /\ k.sock = conn[c].sock /\ k.win = conn[c].win /\ k.opened \in BOOLEAN
      /\ k.opened => conn[c].opened
                     \/ (job[c].kind = "sync" /\ Head(job[c].todo).type = "FigureOpen")
      /\ job[c].kind # "sync" => k = conn[c]
  BY WinsAreOwn
<1> HIDE DEF k
<1>6. /\ JobMeans(c, job'[c], conn'[c], current[c].output, synced[c], Apart(c))
      /\ Wipes(job[c]) => Wipes(job'[c])
      /\ job'[c].kind = job[c].kind /\ job'[c].todo = Tail(job[c].todo) /\ ~job'[c].waiting
  <2>1. job[c].kind = "tell" => k = conn[c]
    BY <1>5
  <2> QED BY ZenonT(60), <1>2, <1>3, <1>4, <1>5, <2>1, PoppedMeans
<1>7. socks'[s].wire = socks[s].wire /\ socks'[s].served = socks[s].served
  <2>1. s \in DOMAIN socks /\ socks \in Seq(SockType) /\ socks[s] \in SockType
    BY <1>1, <1>2, WorkIs
  <2> QED BY <1>3, <2>1 DEF SockType
<1>8. ASSUME conn[c].sock = s, NEW v, Promised(conn[c], job[c], current[c], synced[c], v)
      PROVE  Promised(conn'[c], job'[c], current[c], synced[c], v)
  <2>1. CASE job[c].kind = "sync"
    <3>1. Syncing(job[c], conn[c].win, current[c].content, v)
      BY <1>8, <2>1 DEF Promised
    <3>2. /\ Syncing(job'[c], conn[c].win, current[c].content, v)
          /\ Head(job[c].todo).type = "FigureOpen" => v # {}
      BY <1>2, <1>4, <1>6, <3>1, SyncRead
    <3> QED BY <1>3, <1>5, <1>6, <1>8, <2>1, <3>2 DEF Promised
  <2>2. CASE job[c].kind # "sync"
    BY <1>3, <1>5, <1>6, <1>8, <2>2 DEF Promised
  <2> QED BY <2>1, <2>2
<1> DEFINE sent == FALSE
<1>9. sent \in BOOLEAN /\ ~sent
  OBVIOUS
<1> HIDE DEF sent
<1>10. socks'[s].wire = IF sent THEN Append(socks[s].wire, Ping) ELSE socks[s].wire
  BY <1>7, <1>9
<1>11. conn'[c].win = conn[c].win /\ (job[c].kind # "sync" => conn'[c] = conn[c])
  BY <1>3, <1>5
<1> QED BY <1>1, <1>2, <1>6, <1>7, <1>8, <1>9, <1>10, <1>11, WorkWindows

(* What the frames of a plot do to its window.                             *)
LEMMA SyncEffects ==
  ASSUME NEW win, NEW content, NEW v
  PROVE  /\ Effect(win, v, Open(win)) # {}
         /\ v # {} => Effect(win, v, Open(win)) = v
         /\ v # {} => /\ Effect(win, v, Update(win, content)) # {}
                      /\ Shows(Effect(win, v, Update(win, content)), content)
         /\ Effect(win, v, Redraw(win)) = v
<1>1. PICK x, y, z : x = Open(win) /\ y = Update(win, content) /\ z = Redraw(win)
  OBVIOUS
<1>2. /\ x.type = "FigureOpen" /\ y.type = "PanelUpdate" /\ z.type = "Redraw"
      /\ x.win = win /\ y.win = win /\ z.win = win /\ y.content = content
  BY <1>1 DEF Open, Update, Redraw, Message
<1>3. Effect(win, v, x) = IF v = {} THEN {Panel} ELSE v
  BY <1>2 DEF Effect
<1>4. Effect(win, v, y) = {Drawn(p, content) : p \in v}
  BY <1>2 DEF Effect
<1>5. Effect(win, v, z) = v
  BY <1>2 DEF Effect
<1>6. ASSUME NEW p PROVE content \in {Drawn(p, content).series, Drawn(p, content).surface}
  BY DEF Drawn
<1>7. ASSUME v # {} PROVE Effect(win, v, y) # {} /\ Shows(Effect(win, v, y), content)
  BY <1>4, <1>6, <1>7 DEF Shows
<1> QED BY <1>1, <1>3, <1>5, <1>7

(* A frame that goes out takes a plot on.                                  *)
LEMMA SyncSend ==
  ASSUME NEW j, j.kind = "sync", NEW win, NEW content, NEW v, Syncing(j, win, content, v),
         ~j.waiting, j.todo # <<>>, NEW m, m = Head(j.todo), NEW p,
         Awaited(j, m) => p.todo = j.todo /\ p.waiting,
         ~Awaited(j, m) => p.todo = Tail(j.todo) /\ ~p.waiting
  PROVE  /\ Syncing(p, win, content, Effect(win, v, m))
         /\ v # {} => Effect(win, v, m) # {}
<1> DEFINE open == Open(win)
           update == Update(win, content)
           redraw == Redraw(win)
<1>0. /\ Head(<<open, update, redraw>>) = open
      /\ Head(<<update, redraw>>) = update /\ Tail(<<update, redraw>>) = <<redraw>>
      /\ Head(<<redraw>>) = redraw
      /\ open.type = "FigureOpen" /\ update.type = "PanelUpdate" /\ redraw.type = "Redraw"
  BY SyncTodo, SyncTypes
<1>1. Syncing(j, win, content, v) <=>
        \/ j.todo = <<open, update, redraw>> /\ (j.waiting => v # {})
        \/ j.todo = <<update, redraw>> /\ ~j.waiting /\ v # {}
        \/ j.todo \in {<<redraw>>, <<>>} /\ Shows(v, content)
  BY DEF Syncing
<1>2. ASSUME NEW u
      PROVE  Syncing(p, win, content, u) <=>
               \/ p.todo = <<open, update, redraw>> /\ (p.waiting => u # {})
               \/ p.todo = <<update, redraw>> /\ ~p.waiting /\ u # {}
               \/ p.todo \in {<<redraw>>, <<>>} /\ Shows(u, content)
  BY DEF Syncing
<1>3. /\ Effect(win, v, open) # {}
      /\ v # {} => Effect(win, v, update) # {} /\ Shows(Effect(win, v, update), content)
      /\ Effect(win, v, redraw) = v
  BY SyncEffects
<1> HIDE DEF open, update, redraw
<1>4. CASE j.todo = <<open, update, redraw>>
  <2>1. m = open /\ Awaited(j, m)
    BY <1>0, <1>4 DEF Awaited
  <2> QED BY <1>2, <1>3, <1>4, <2>1
<1>5. CASE j.todo = <<update, redraw>> /\ v # {}
  <2>1. m = update /\ ~Awaited(j, m)
    BY <1>0, <1>5 DEF Awaited
  <2> QED BY <1>0, <1>2, <1>3, <1>5, <2>1
<1>6. CASE j.todo = <<redraw>> /\ Shows(v, content)
  <2>1. m = redraw /\ Awaited(j, m)
    BY <1>0, <1>6 DEF Awaited
  <2> QED BY <1>2, <1>3, <1>6, <2>1
<1> QED BY <1>1, <1>4, <1>5, <1>6

(* The first frame of a job.                                               *)
LEMMA HeadMeans ==
  ASSUME Inv, WInv, NEW c \in Clients, ~Idle(c), job[c].todo # <<>>,
         NEW m, m = Head(job[c].todo), NEW s, s = job[c].sock
  PROVE  /\ m.win \in Own(c)
         /\ s = conn[c].sock /\ job[c].kind = "tell" =>
              Harmless(m, conn[c], current[c].output, synced[c])
         /\ \/ s = conn[c].sock \/ (conn[c].sock = 0 /\ job[c].kind = "part")
            \/ m = Ping \/ (m = Reset /\ job[c].dialling /\ job[c].todo # <<Ping, Reset>>
                            /\ job[c].kind \in {"on", "sync"})
            \/ m # Reset /\ m.win \in Apart(c)
<1>1. /\ JobMeans(c, job[c], conn[c], current[c].output, synced[c], Apart(c))
      /\ job[c] \in JobType /\ job[c].kind # "none"
  BY WorkIs DEF WInv, Windowed, JobOK
<1>2. 1 \in DOMAIN job[c].todo /\ m = job[c].todo[1]
  BY <1>1 DEF JobType
<1>3. m.win \in Own(c)
  BY <1>1, <1>2 DEF JobMeans
<1>4. s = conn[c].sock /\ job[c].kind = "tell" =>
        Harmless(m, conn[c], current[c].output, synced[c])
  BY <1>1, <1>2 DEF JobMeans
<1>5. CASE Elsewhere(job[c], conn[c])
  <2>1. m # Reset /\ m.win \in Apart(c)
    BY <1>1, <1>2, <1>5 DEF JobMeans
  <2> QED BY <1>3, <1>4, <2>1
<1>6. CASE job[c].kind \in {"on", "sync"} /\ job[c].dialling
  <2>1. job[c].todo \in {<<Ping, Reset>>, <<Reset>>}
    BY <1>1, <1>6 DEF JobMeans
  <2>2. /\ Head(<<Ping, Reset>>) = Ping /\ Head(<<Reset>>) = Reset
        /\ <<Reset>> # <<Ping, Reset>>
    OBVIOUS
  <2> QED BY <1>3, <1>4, <1>6, <2>1, <2>2
<1>7. CASE s = conn[c].sock \/ (conn[c].sock = 0 /\ job[c].kind = "part")
  BY <1>3, <1>4, <1>7
<1> QED BY <1>1, <1>5, <1>6, <1>7, HomeIs DEF Elsewhere, JobType

LEMMA HarmlessSent ==
  ASSUME NEW m, NEW k, NEW j, j.kind = "tell", NEW figure, NEW plot, NEW v,
         Harmless(m, k, figure.output, plot), Promised(k, j, figure, plot, v),
         plot # Blank => figure.output # Terminal
  PROVE  Promised(k, j, figure, plot, Effect(k.win, v, m))
<1>1. CASE m = Reset /\ ~k.opened /\ plot = Blank
  BY <1>1 DEF Promised
<1>2. ASSUME NEW win \in Windows, m = Close(win), win = k.win => figure.output = Terminal
      PROVE  Promised(k, j, figure, plot, Effect(k.win, v, m))
  <2>1. m.type = "Close" /\ m.win = win
    BY <1>2 DEF Close, Message
  <2>2. CASE win = k.win
    BY <1>2, <2>2 DEF Promised
  <2>3. CASE win # k.win
    BY <2>1, <2>3 DEF Effect
  <2> QED BY <2>2, <2>3
<1> QED BY <1>1, <1>2 DEF Harmless

LEMMA SendWindows ==
  ASSUME Inv, WInv, NEW c \in Clients, Send(c)
  PROVE  WInv'
<1>1. PICK s, m : s = job[c].sock /\ m = Head(job[c].todo)
  OBVIOUS
<1>2. /\ WorkStep(c) /\ ~Idle(c) /\ job[c].todo # <<>> /\ ~job[c].waiting /\ PerClient
      /\ conn' = conn
  BY SendWorks DEF Send, Working, Inv
<1>3. /\ s \in DOMAIN socks /\ socks \in Seq(SockType) /\ socks[s] \in SockType
      /\ JobFits(job[c], conn[c], live[c]) /\ job[c] \in JobType
  BY <1>1, <1>2, WorkIs
<1>4. /\ job'[c] = IF Awaited(job[c], m) THEN [job[c] EXCEPT !.waiting = TRUE]
                   ELSE Popped(job[c])
      /\ socks' = [socks EXCEPT ![s] = [socks[s] EXCEPT !.wire = Append(socks[s].wire, m)]]
  BY <1>1, <1>2, <1>3 DEF Send, PerClient
<1>5. socks'[s].wire = Append(socks[s].wire, m) /\ socks'[s].served = socks[s].served
  BY <1>3, <1>4 DEF SockType
<1>6. JobMeans(c, job[c], conn[c], current[c].output, synced[c], Apart(c))
  BY DEF WInv, Windowed, JobOK
<1>7. /\ JobMeans(c, job'[c], conn[c], current[c].output, synced[c], Apart(c))
      /\ Wipes(job[c]) => Wipes(job'[c])
      /\ job'[c].kind = job[c].kind
      /\ Awaited(job[c], m) => job'[c].todo = job[c].todo /\ job'[c].waiting
      /\ ~Awaited(job[c], m) => job'[c].todo = Tail(job[c].todo) /\ ~job'[c].waiting
  <2>1. CASE Awaited(job[c], m)
    <3>1. job'[c] = [job[c] EXCEPT !.waiting = TRUE]
      BY <1>4, <2>1
    <3> QED BY <1>3, <1>6, <2>1, <3>1, WaitingMeans
  <2>2. CASE ~Awaited(job[c], m)
    <3>1. job'[c] = Popped(job[c])
      BY <1>4, <2>2
    <3> QED BY <1>2, <1>3, <1>6, <2>2, <3>1, PoppedMeans
  <2> QED BY <2>1, <2>2
<1>8. m.win \in Own(c)
      /\ (s # conn[c].sock /\ ~(conn[c].sock = 0 /\ job[c].kind = "part") =>
            Aside(m, s, job'[c], Apart(c)))
  <2>1. m.win \in Own(c)
    BY <1>1, <1>2, HeadMeans
  <2>2. ASSUME s # conn[c].sock, ~(conn[c].sock = 0 /\ job[c].kind = "part")
        PROVE  Aside(m, s, job'[c], Apart(c))
    <3>1. CASE m = Ping \/ (m # Reset /\ m.win \in Apart(c))
      BY <3>1 DEF Aside
    <3>2. CASE m = Reset /\ job[c].dialling /\ job[c].todo # <<Ping, Reset>>
               /\ job[c].kind \in {"on", "sync"}
      <4>1. Wipes(job'[c])
        BY <1>7, <3>2 DEF Wipes
      <4>2. job'[c].sock = s
        BY <1>1, <1>2 DEF WorkStep
      <4> QED BY <3>2, <4>1, <4>2 DEF Aside
    <3> QED BY <1>1, <1>2, <2>2, <3>1, <3>2, HeadMeans
  <2> QED BY <2>1, <2>2
<1>9. ASSUME conn[c].sock = s, NEW v, Promised(conn[c], job[c], current[c], synced[c], v)
      PROVE  Promised(conn[c], job'[c], current[c], synced[c], Effect(conn[c].win, v, m))
  <2>1. CASE job[c].kind = "sync"
    <3>1. Syncing(job[c], conn[c].win, current[c].content, v)
      BY <1>9, <2>1 DEF Promised
    <3>2. /\ Syncing(job'[c], conn[c].win, current[c].content, Effect(conn[c].win, v, m))
          /\ v # {} => Effect(conn[c].win, v, m) # {}
      BY <1>1, <1>2, <1>7, <2>1, <3>1, SyncSend
    <3> QED BY <1>7, <1>9, <2>1, <3>2 DEF Promised
  <2>2. CASE job[c].kind = "tell"
    <3>1. Harmless(m, conn[c], current[c].output, synced[c])
      BY <1>1, <1>2, <1>9, <2>2, HeadMeans
    <3>2. synced[c] # Blank => current[c].output # Terminal
      BY DEF WInv, Windowed, PlotsOK
    <3>3. Promised(conn[c], job'[c], current[c], synced[c], v)
      BY <1>7, <1>9, <2>2 DEF Promised
    <3> QED BY <1>7, <2>2, <3>1, <3>2, <3>3, HarmlessSent
  <2> QED BY <1>1, <1>2, <1>9, <2>1, <2>2, HomeIs
<1> DEFINE sent == TRUE
<1>10. sent \in BOOLEAN /\ sent
  OBVIOUS
<1> HIDE DEF sent
<1>11. socks'[s].wire = IF sent THEN Append(socks[s].wire, m) ELSE socks[s].wire
  BY <1>5, <1>10
<1> QED BY <1>1, <1>2, <1>5, <1>7, <1>8, <1>9, <1>10, <1>11, WorkWindows

(***************************************************************************)
(* A dialled connection is taken over.                                     *)
(***************************************************************************)
LEMMA ConnectedWindows ==
  ASSUME Inv, WInv, NEW c \in Clients, Connected(c)
  PROVE  WInv'
<1>1. PICK s, win, k, old : /\ s = job[c].sock /\ win = Window(c, ids[c]) /\ old = conn[c].sock
                            /\ k = [sock |-> s, win |-> win, opened |-> FALSE]
  OBVIOUS
<1>2. /\ ~Idle(c) /\ job[c].kind \in {"sync", "on"} /\ job[c].dialling
      /\ ClientStep(c) /\ PerClient /\ Windowed(c) /\ ids[c] \in Nat
      /\ s \in DOMAIN socks /\ s # 0
  <2>1. ~Idle(c) /\ job[c].kind \in {"sync", "on"} /\ job[c].dialling = TRUE
    BY DEF Connected, Finished
  <2>2. ClientStep(c)
    BY ConnectedStep
  <2>3. s \in DOMAIN socks /\ s # 0
    BY <1>1, <2>1, WorkIs
  <2>4. ids[c] \in Nat /\ PerClient /\ Windowed(c)
    BY WinsAreOwn DEF Inv, WInv
  <2> QED BY <2>1, <2>2, <2>3, <2>4
<1>3. /\ ids'[c] = ids[c] + 1 /\ conn'[c] = k /\ socks' = Drop(socks, old)
      /\ synced'[c] = Blank /\ store'[c] = store[c] /\ live'[c] = live[c]
      /\ \/ /\ job[c].kind = "sync" /\ current'[c] = current[c]
            /\ job'[c] = Job("sync", FALSE, s, SyncMessages(k, current[c].content))
         \/ /\ job[c].kind = "on" /\ current'[c] = [current[c] EXCEPT !.output = win]
            /\ job'[c] = NoJob
  BY <1>1, <1>2 DEF Connected, Ends, JobStep, PerClient
<1>4. /\ k.sock = s /\ k.win = win /\ ~k.opened /\ win \in Own(c)
  BY <1>1, <1>2 DEF Own
<1>5. /\ StoreFits(store[c], handles[c], Outs(c, ids[c]), live[c].win)
      /\ CurrentFits(store[c], current[c], handles[c], Outs(c, ids[c]), live[c].win)
  BY FiguresWider DEF FiguresFit
<1>6. current'[c].output \in {current[c].output, win}
  BY <1>3, <1>5 DEF CurrentFits
<1>7. ids'[c] \in Nat /\ ids[c] <= ids'[c] /\ Apart(c) \subseteq Apart(c)'
  <2>1. ids'[c] \in Nat /\ ids[c] <= ids'[c] /\ ids[c] <= ids[c]
    BY <1>2, <1>3
  <2>2. \A x \in Plotted(c)' : x \in Plotted(c) \/ x = Window(c, ids[c])
    BY <1>1, <1>3, <1>4, <1>6 DEF Plotted
  <2> QED BY <1>2, <2>1, <2>2, ApartGrows
<1>8. /\ DOMAIN socks' = DOMAIN socks
      /\ \A t \in DOMAIN socks : /\ socks'[t].owner = socks[t].owner
                                 /\ t # old => socks'[t] = socks[t]
      /\ old # 0 => ~socks'[old].held
  <2>1. socks \in Seq(SockType) /\ old \in DOMAIN socks \cup {0}
    BY <1>1 DEF Inv, LinkOK, Holds
  <2> QED BY <1>3, <2>1, DropEffect
<1>9. /\ JobOK(c)' /\ job'[c].kind \in {"sync", "none"}
      /\ job'[c].kind = "sync" => \A v : Syncing(job'[c], win, current'[c].content, v)
  <2>1. CASE /\ job[c].kind = "sync" /\ current'[c] = current[c]
             /\ job'[c] = Job("sync", FALSE, s, SyncMessages(k, current[c].content))
    <3>1. current[c].output # Terminal
      BY <1>2, <2>1 DEF Windowed, JobOK, JobMeans
    <3>2. PICK j, content, figure, aside, plot :
            /\ j = job'[c] /\ content = current[c].content /\ figure = current[c]
            /\ aside = Apart(c)' /\ plot = synced'[c]
      OBVIOUS
    <3>3. j = Job("sync", FALSE, k.sock, SyncMessages(k, content))
          /\ figure.output # Terminal /\ k.win \in Own(c)
      BY <1>4, <2>1, <3>1, <3>2
    <3>4. /\ JobMeans(c, j, k, figure.output, plot, aside)
          /\ \A v : (k.opened => v # {}) => Syncing(j, k.win, content, v)
      BY <3>3, SyncMeans
    <3>5. j.kind = "sync"
      BY <3>3 DEF Job
    <3> QED BY <1>3, <1>4, <2>1, <3>2, <3>4, <3>5 DEF JobOK
  <2>2. CASE job'[c] = NoJob
    BY <2>2, NoJobMeans, NoJobIs DEF JobOK
  <2> QED BY <1>3, <2>1, <2>2
<1>10. FramesOK(c)'
  <2> SUFFICES ASSUME NEW t \in DOMAIN socks, socks'[t].owner = c /\ socks'[t].held
               PROVE  FramesMean(c, t, socks'[t], conn'[c], job'[c], Apart(c)')
    BY <1>8 DEF FramesOK
  <2>1. t # old /\ socks'[t] = socks[t]
    BY <1>8 DEF Inv
  <2>2. FramesMean(c, t, socks[t], conn[c], job[c], Apart(c))
    BY <1>2, <2>1 DEF Windowed, FramesOK
  <2>3. ASSUME t # s, NEW i \in DOMAIN socks[t].wire
        PROVE  Aside(socks[t].wire[i], t, job'[c], Apart(c)')
    <3>1. Aside(socks[t].wire[i], t, job[c], Apart(c))
      BY <1>1, <1>2, <2>1, <2>2, <2>3 DEF FramesMean
    <3> QED BY <1>1, <1>7, <2>3, <3>1 DEF Aside
  <2> QED BY <1>3, <1>4, <2>1, <2>2, <2>3 DEF FramesMean
<1>11. PlotsOK(c)'
  <2>1. win \notin Outs(c, ids[c])
    BY <1>1, <1>2, FreshWindow
  <2>2. \A h \in DOMAIN store[c] : store[c][h].output # win
    BY <1>5, <2>1 DEF StoreFits
  <2> QED BY <1>2, <1>3, <1>4, <1>7, <2>2 DEF Windowed, PlotsOK
<1>12. PromiseOK(c)'
  <2>1. \A v : Promised(conn'[c], job'[c], current'[c], synced'[c], v)
    BY <1>3, <1>4, <1>9 DEF Promised
  <2> QED BY <2>1 DEF PromiseOK
<1>13. Windowed(c)'
  BY <1>9, <1>10, <1>11, <1>12 DEF Windowed
<1>14. \A t \in DOMAIN socks : socks'[t].held => socks[t].held
  BY <1>8 DEF Inv
<1> QED BY <1>2, <1>7, <1>13, <1>14, WindowedStep

LEMMA LiveConnectedWindows ==
  ASSUME Inv, WInv, NEW c \in Clients, LiveConnected(c)
  PROVE  WInv'
<1>1. /\ ~Idle(c) /\ job[c].kind \in {"open", "update", "draw"} /\ ClientStep(c) /\ PerClient
      /\ Windowed(c) /\ ids[c] \in Nat
  BY FinishedIs, LiveConnectedStep, WorkIs DEF LiveConnected, Inv, WInv
<1>2. /\ UNCHANGED <<store, current, ids, conn, socks, synced, queue, windows, touched>>
      /\ \/ /\ job[c].kind = "open" /\ job'[c] = NoJob
            /\ live'[c] = [sock |-> job[c].sock, win |-> Window(c, ids[c] - 1)]
         \/ /\ job[c].kind # "open" /\ live'[c] = [live[c] EXCEPT !.sock = job[c].sock]
            /\ job'[c] = LiveSay(job[c].kind, job[c].sock,
                                 LiveFrame(job[c].kind, live[c].win, said[c]))
  BY <1>1 DEF LiveConnected, Ends, JobStep, LiveSay, LiveFrame, PerClient, viewer
<1>3. Apart(c)' = Apart(c)
  BY <1>2 DEF Apart, Plotted
<1>4. live'[c].win # NoWindow => live'[c].win \in Apart(c)
  <2>1. CASE job[c].kind = "open" /\ live'[c] = [sock |-> job[c].sock, win |-> Window(c, ids[c] - 1)]
    BY <1>1, <2>1 DEF Windowed, JobOK
  <2>2. CASE live'[c] = [live[c] EXCEPT !.sock = job[c].sock]
    BY <1>1, <2>2, WinsAreOwn DEF Windowed, PlotsOK
  <2> QED BY <1>2, <2>1, <2>2
<1>5. /\ job'[c].kind \notin {"sync", "on", "open"}
      /\ JobMeans(c, job'[c], conn[c], current[c].output, synced[c], Apart(c))
  <2>1. CASE job'[c] = NoJob
    BY <2>1, NoJobMeans, NoJobIs
  <2>2. CASE /\ job[c].kind # "open"
             /\ job'[c] = LiveSay(job[c].kind, job[c].sock,
                                  LiveFrame(job[c].kind, live[c].win, said[c]))
    <3>1. PICK m, j : m = LiveFrame(job[c].kind, live[c].win, said[c]) /\ j = job'[c]
      OBVIOUS
    <3>2. m.win = live[c].win /\ m # Ping /\ m # Reset
      <4>1. PICK win, content : /\ win = live[c].win
                                /\ m = Redraw(win) \/ m = Update(win, content)
        BY <3>1 DEF LiveFrame
      <4> QED BY <4>1 DEF Redraw, Update, Message, Ping, Reset
    <3>3. live[c].win # NoWindow
      BY <1>1, <2>2, WorkIs DEF JobFits, Terminal
    <3>4. m.win \in Apart(c) /\ m.win \in Own(c)
      BY <1>1, <3>2, <3>3, WinsAreOwn DEF Windowed, PlotsOK
    <3>5. j.kind = job[c].kind /\ j.todo = <<m>>
      BY <2>2, <3>1 DEF LiveSay, Job
    <3>6. JobMeans(c, j, conn[c], current[c].output, synced[c], Apart(c))
      BY <1>1, <3>2, <3>4, <3>5, OneMeans
    <3> QED BY <1>1, <2>2, <3>1, <3>5, <3>6
  <2> QED BY <1>2, <2>1, <2>2
<1>6. JobOK(c)' /\ PlotsOK(c)'
  BY <1>1, <1>2, <1>3, <1>4, <1>5 DEF Windowed, JobOK, PlotsOK
<1>7. ~Wipes(job[c]) /\ job[c].kind # "part" /\ ~Wipes(job'[c])
  BY <1>1, <1>5 DEF Wipes
<1>8. FramesOK(c)'
  <2> SUFFICES ASSUME NEW t \in DOMAIN socks, socks[t].owner = c /\ socks[t].held
               PROVE  FramesMean(c, t, socks[t], conn[c], job'[c], Apart(c))
    BY <1>2, <1>3 DEF FramesOK
  <2>1. FramesMean(c, t, socks[t], conn[c], job[c], Apart(c))
    BY <1>1 DEF Windowed, FramesOK
  <2> QED BY <1>7, <2>1, AsideGrows
<1>9. PromiseOK(c)'
  <2>1. Excused(c)' = Excused(c)
    BY <1>2 DEF Excused, Behind, Known
  <2>2. \A w, wire : Reaches(w, wire)' = Reaches(w, wire)
    BY <1>2 DEF Reaches, Pending
  <2>3. ASSUME NEW v, Promised(conn[c], job[c], current[c], synced[c], v)
        PROVE  Promised(conn[c], job'[c], current[c], synced[c], v)
    BY <1>1, <1>5, <2>3 DEF Promised
  <2> QED BY <1>1, <1>2, <1>7, <2>1, <2>2, <2>3 DEF Windowed, PromiseOK
<1>10. Windowed(c)'
  BY <1>6, <1>8, <1>9 DEF Windowed
<1> QED BY <1>1, <1>2, <1>10, WindowedStep

(***************************************************************************)
(* The viewer's steps.  What is on its way to a window moves up, from the  *)
(* wire to the queue and from the queue to the table of windows.           *)
(***************************************************************************)
Items == [from : Nat, msg : Frames \ {Ping}]

LEMMA MsgsAre ==
  ASSUME NEW q \in Seq(Items)
  PROVE  /\ Msgs(q) \in Seq(Frames) /\ Len(Msgs(q)) = Len(q) /\ Len(q) \in Nat
         /\ \A i \in 1..Len(q) : Msgs(q)[i] = q[i].msg
<1>1. DOMAIN q = 1..Len(q) /\ Len(q) \in Nat
  BY LenProperties
<1>2. Msgs(q) = [i \in 1..Len(q) |-> q[i].msg]
  BY <1>1 DEF Msgs
<1>3. \A i \in 1..Len(q) : q[i].msg \in Frames
  <2>1. \A i \in 1..Len(q) : q[i] \in Items
    BY ElementOfSeq
  <2> QED BY <2>1 DEF Items
<1>4. Msgs(q) \in [1..Len(q) -> Frames]
  BY <1>2, <1>3
<1> QED BY <1>1, <1>2, <1>4

LEMMA MsgsAppend ==
  ASSUME NEW q \in Seq(Items), NEW x \in Items
  PROVE  Msgs(Append(q, x)) = Append(Msgs(q), x.msg)
<1>1. PICK p : p = Append(q, x)
  OBVIOUS
<1>2. /\ p \in Seq(Items) /\ Len(p) = Len(q) + 1 /\ p[Len(q) + 1] = x
      /\ \A i \in 1..Len(q) : p[i] = q[i]
  BY <1>1, AppendProperties
<1>3. x.msg \in Frames
  BY DEF Items
<1>4. PICK ms \in Seq(Frames), y \in Frames : ms = Msgs(q) /\ y = x.msg
  BY <1>3, MsgsAre
<1>5. Len(ms) = Len(q) /\ Len(q) \in Nat /\ \A i \in 1..Len(q) : ms[i] = q[i].msg
  BY <1>4, MsgsAre
<1>6. PICK more : more = Append(ms, y)
  OBVIOUS
<1>7. /\ more \in Seq(Frames) /\ Len(more) = Len(q) + 1 /\ more[Len(q) + 1] = y
      /\ \A i \in 1..Len(q) : more[i] = ms[i]
  BY <1>5, <1>6, AppendProperties
<1>8. /\ Msgs(p) \in Seq(Frames) /\ Len(Msgs(p)) = Len(q) + 1
      /\ \A i \in 1..(Len(q) + 1) : Msgs(p)[i] = p[i].msg
  BY <1>2, MsgsAre
<1>9. ASSUME NEW i \in 1..(Len(q) + 1) PROVE Msgs(p)[i] = more[i]
  <2>1. Msgs(p)[i] = p[i].msg
    BY <1>8
  <2>2. CASE i \in 1..Len(q)
    <3>1. p[i] = q[i] /\ more[i] = ms[i] /\ ms[i] = q[i].msg
      BY <1>2, <1>5, <1>7, <2>2
    <3> QED BY <2>1, <3>1
  <2>3. CASE i = Len(q) + 1
    BY <1>2, <1>4, <1>7, <2>1, <2>3
  <2> QED BY <1>5, <2>2, <2>3
<1>10. Msgs(p) = more
  BY <1>7, <1>8, <1>9, SeqEqual
<1> QED BY <1>1, <1>4, <1>6, <1>10

LEMMA MsgsTail ==
  ASSUME NEW q \in Seq(Items), q # <<>>
  PROVE  /\ Msgs(q) # <<>> /\ Head(Msgs(q)) = Head(q).msg
         /\ Msgs(Tail(q)) = Tail(Msgs(q))
<1>1. PICK rest : rest = Tail(q)
  OBVIOUS
<1>2. /\ rest \in Seq(Items) /\ Len(rest) = Len(q) - 1 /\ Len(q) \in Nat \ {0}
      /\ \A i \in 1..Len(rest) : rest[i] = q[i + 1]
  BY <1>1, HeadTailProperties, EmptySeq
<1>3. PICK ms \in Seq(Frames) : ms = Msgs(q)
  BY MsgsAre
<1>4. Len(ms) = Len(q) /\ \A i \in 1..Len(q) : ms[i] = q[i].msg
  BY <1>3, MsgsAre
<1>5. ms # <<>>
  BY <1>2, <1>4, EmptySeq
<1>6. PICK left : left = Tail(ms)
  OBVIOUS
<1>7. /\ left \in Seq(Frames) /\ Len(left) = Len(q) - 1
      /\ \A i \in 1..Len(left) : left[i] = ms[i + 1]
  BY <1>4, <1>5, <1>6, HeadTailProperties
<1>8. /\ Msgs(rest) \in Seq(Frames) /\ Len(Msgs(rest)) = Len(q) - 1
      /\ \A i \in 1..(Len(q) - 1) : Msgs(rest)[i] = rest[i].msg
  BY <1>2, MsgsAre
<1>9. \A i \in 1..(Len(q) - 1) : Msgs(rest)[i] = left[i]
  <2> SUFFICES ASSUME NEW i \in 1..(Len(q) - 1) PROVE Msgs(rest)[i] = left[i]
    OBVIOUS
  <2>1. i + 1 \in 1..Len(q) /\ i \in 1..Len(rest) /\ i \in 1..Len(left)
    BY <1>2, <1>7
  <2>2. Msgs(rest)[i] = rest[i].msg /\ rest[i] = q[i + 1] /\ left[i] = ms[i + 1]
    BY <1>2, <1>7, <1>8, <2>1
  <2>3. ms[i + 1] = q[i + 1].msg
    BY <1>4, <2>1
  <2> QED BY <2>2, <2>3
<1>10. Msgs(rest) = left
  BY <1>7, <1>8, <1>9, SeqEqual
<1>11. Head(ms) = ms[1] /\ Head(q) = q[1] /\ ms[1] = q[1].msg
  BY <1>2, <1>4
<1> QED BY <1>1, <1>3, <1>5, <1>6, <1>10, <1>11

LEMMA MsgsNone == Msgs(<<>>) = <<>>
BY DEF Msgs

LEMMA ViewerWindows ==
  ASSUME WInv, UNCHANGED <<store, current, ids, conn, live, job, synced>>,
         DOMAIN socks' = DOMAIN socks,
         \A s \in DOMAIN socks :
           /\ socks'[s].owner = socks[s].owner /\ socks'[s].held = socks[s].held
           /\ socks[s].held =>
                \A i \in DOMAIN socks'[s].wire :
                  \E k \in DOMAIN socks[s].wire : socks'[s].wire[i] = socks[s].wire[k],
         \A c \in Clients :
           conn[c].sock # 0 /\ socks'[conn[c].sock].served /\ ~Excused(c)'
             /\ ~(job[c].kind = "on" /\ Wipes(job[c])) =>
               /\ socks[conn[c].sock].served /\ ~Excused(c)
               /\ Reaches(conn[c].win, socks[conn[c].sock].wire)'
                    = Reaches(conn[c].win, socks[conn[c].sock].wire)
  PROVE  WInv'
<1> SUFFICES ASSUME NEW c \in Clients PROVE Windowed(c)'
  BY DEF WInv
<1>1. Windowed(c) /\ Apart(c)' = Apart(c)
  BY DEF WInv, Apart, Plotted
<1>2. JobOK(c)' /\ PlotsOK(c)'
  BY <1>1 DEF Windowed, JobOK, PlotsOK
<1>3. FramesOK(c)'
  <2> SUFFICES ASSUME NEW s \in DOMAIN socks, socks'[s].owner = c, socks'[s].held
               PROVE  FramesMean(c, s, socks'[s], conn[c], job[c], Apart(c))
    BY <1>1 DEF FramesOK
  <2>1. FramesMean(c, s, socks[s], conn[c], job[c], Apart(c)) /\ socks[s].held
    BY <1>1 DEF Windowed, FramesOK
  <2> QED BY <2>1 DEF FramesMean
<1>4. PromiseOK(c)'
  BY <1>1 DEF Windowed, PromiseOK
<1> QED BY <1>2, <1>3, <1>4 DEF Windowed

(* A frame of another connection does nothing to the window of the plots,  *)
(* unless it does so behind the script's back.                             *)
LEMMA NeutralFrame ==
  ASSUME Inv, WInv, NEW c \in Clients, conn[c].sock # 0,
         ~(job[c].kind = "on" /\ Wipes(job[c])),
         NEW s \in DOMAIN socks, s # conn[c].sock,
         NEW i \in DOMAIN socks[s].wire, NEW m \in Frames \ {Ping}, m = socks[s].wire[i],
         conn[c].win \notin Behind(s, m),
         NEW v
  PROVE  Effect(conn[c].win, v, m) = v
<1> DEFINE w == conn[c].win
<1>1. PICK n \in 0..(ids[c] - 1) : w = Window(c, n)
  <2>1. w \in Outs(c, ids[c]) /\ w # Terminal
    BY WinsAreOwn DEF Inv, LinkOK, ConnFits
  <2> QED BY <2>1 DEF Outs
<1>2. w \in Known /\ w[1] = c /\ w # NoWindow
  BY <1>1 DEF Known, Window, NoWindow
<1>3. socks[s] \in SockType /\ socks[s].owner \in Clients
  <2>1. socks[s] \in SockType
    BY DEF Inv
  <2> QED BY <2>1 DEF SockType
<1>4. PICK d \in Clients : d = socks[s].owner
  BY <1>3
<1>5. socks[s].held => FramesMean(d, s, socks[s], conn[d], job[d], Apart(d))
  BY <1>4 DEF WInv, Windowed, FramesOK
<1>6. m.type = "Reset" => m = Reset
  BY FramesAre
<1>7. ASSUME m.type = "Reset" PROVE FALSE
  <2>1. socks[s].held /\ d = c
    BY <1>2, <1>4, <1>7 DEF Behind
  <2>2. Aside(m, s, job[c], Apart(c))
    BY <1>5, <2>1 DEF FramesMean
  <2>3. s = job[c].sock /\ Wipes(job[c])
    BY <1>6, <1>7, <2>2 DEF Aside
  <2>4. JobFits(job[c], conn[c], live[c])
    BY DEF Inv, LinkOK
  <2> QED BY <2>3, <2>4 DEF Wipes, JobFits
<1>8. ASSUME m.type # "Reset", m.win = w PROVE FALSE
  <2>1. socks[s].held
    BY <1>8 DEF Behind
  <2>2. CASE d # c
    <3>1. m.win \in Own(d)
      BY <1>5, <2>1 DEF FramesMean
    <3> QED BY <1>2, <1>8, <2>2, <3>1 DEF Own, Window
  <2>3. CASE d = c
    <3>1. Aside(m, s, job[c], Apart(c))
      BY <1>5, <2>1, <2>3 DEF FramesMean
    <3>2. m.win \in Apart(c)
      BY <1>8, <3>1 DEF Aside, Reset, Message
    <3> QED BY <1>8, <3>2 DEF Apart, Plotted
  <2> QED BY <2>2, <2>3
<1> QED BY <1>7, <1>8 DEF Effect

LEMMA PingDoesNothing ==
  ASSUME NEW w, NEW v
  PROVE  Effect(w, v, Ping) = v
BY DEF Effect, Ping, Message

(* A queue that only grows excuses what it excused.                        *)
LEMMA ExcusedLater ==
  ASSUME Inv, NEW c \in Clients, UNCHANGED <<ids, conn, touched>>,
         \A s \in DOMAIN socks : socks'[s].owner = socks[s].owner /\ socks'[s].held = socks[s].held,
         \A i \in DOMAIN queue : i \in DOMAIN queue' /\ queue'[i] = queue[i],
         Excused(c)
  PROVE  Excused(c)'
<1>1. CASE conn[c].win \in touched
  BY <1>1 DEF Excused
<1>2. ASSUME NEW i \in DOMAIN queue, conn[c].win \in Behind(queue[i].from, queue[i].msg)
      PROVE  Excused(c)'
  <2>1. queue[i].from \in DOMAIN socks
    BY DEF Inv, ViewerOK
  <2>2. i \in DOMAIN queue' /\ queue'[i] = queue[i]
    OBVIOUS
  <2>3. conn'[c].win \in Behind(queue[i].from, queue[i].msg)'
    BY <1>2, <2>1, <2>2 DEF Behind, Known
  <2> QED BY <2>2, <2>3 DEF Excused
<1> QED BY <1>1, <1>2 DEF Excused

LEMMA TakeWindows ==
  ASSUME Inv, WInv, NEW s \in DOMAIN socks, Take(s)
  PROVE  WInv'
<1>1. /\ socks \in Seq(SockType) /\ socks[s] \in SockType
      /\ queue \in Seq([from : Nat, msg : Frames \ {Ping}])
      /\ DOMAIN socks \subseteq Nat
  BY DEF Inv, ViewerOK
<1>2. PICK wire, m : wire = socks[s].wire /\ m = Head(wire) /\ wire \in Seq(Frames \cup {Cut})
  BY <1>1 DEF SockType
<1>3. /\ wire # <<>> /\ m # Cut /\ socks[s].served
      /\ m \in Frames \cup {Cut} /\ 1 \in DOMAIN wire /\ m = wire[1]
      /\ \A i \in DOMAIN Tail(wire) : i + 1 \in DOMAIN wire /\ Tail(wire)[i] = wire[i + 1]
  <2>1. wire # <<>> /\ m # Cut /\ socks[s].served
    BY <1>2 DEF Take
  <2>2. PICK T : T = Frames \cup {Cut}
    OBVIOUS
  <2>3. PICK q \in Seq(T) : q = wire
    BY <1>2, <2>2
  <2>4. q # <<>>
    BY <2>1, <2>3
  <2>5. /\ Len(q) \in Nat \ {0} /\ DOMAIN q = 1..Len(q) /\ Head(q) = q[1]
        /\ \A i \in 1..Len(q) : q[i] \in T
    BY <2>4, EmptySeq, LenProperties, ElementOfSeq
  <2>6. PICK rest : rest = Tail(q)
    OBVIOUS
  <2>7. /\ rest \in Seq(T) /\ Len(rest) = Len(q) - 1
        /\ \A i \in 1..Len(rest) : rest[i] = q[i + 1]
    BY <2>4, <2>6, HeadTailProperties
  <2>8. DOMAIN rest = 1..Len(rest)
    BY <2>7, LenProperties
  <2>9. \A i \in DOMAIN rest : i + 1 \in DOMAIN q /\ rest[i] = q[i + 1]
    BY <2>5, <2>7, <2>8
  <2>10. 1 \in DOMAIN q /\ q[1] \in T
    BY <2>5
  <2> QED BY <1>2, <2>1, <2>2, <2>3, <2>5, <2>6, <2>9, <2>10
<1>4. m \in Frames
  BY <1>3
<1>5. PICK owed : socks' = [socks EXCEPT ![s] = [socks[s] EXCEPT !.wire = Tail(wire),
                                                                 !.owed = owed]]
  BY <1>2 DEF Take
<1>6. /\ DOMAIN socks' = DOMAIN socks
      /\ \A t \in DOMAIN socks : t # s => socks'[t] = socks[t]
      /\ socks'[s].wire = Tail(wire) /\ socks'[s].served = socks[s].served
      /\ socks'[s].owner = socks[s].owner /\ socks'[s].held = socks[s].held
  BY <1>1, <1>5 DEF SockType
<1>7. /\ UNCHANGED <<store, current, ids, conn, live, job, synced, windows, touched>>
      /\ \/ m = Ping /\ queue' = queue
         \/ m # Ping /\ queue' = Append(queue, [from |-> s, msg |-> m])
  BY <1>2 DEF Take, ViewerStep, script
<1>8. m # Ping => [from |-> s, msg |-> m] \in [from : Nat, msg : Frames \ {Ping}]
  BY <1>1, <1>4
<1>9. /\ \A i \in DOMAIN queue : i \in DOMAIN queue' /\ queue'[i] = queue[i]
      /\ m # Ping => \E i \in DOMAIN queue' : queue'[i].from = s /\ queue'[i].msg = m
  <2>1. CASE m = Ping
    BY <1>7, <2>1
  <2>2. CASE m # Ping
    <3>1. PICK x \in [from : Nat, msg : Frames \ {Ping}] : x = [from |-> s, msg |-> m]
                                                           /\ x.from = s /\ x.msg = m
      BY <1>8, <2>2
    <3>2. queue' = Append(queue, x)
      BY <1>7, <2>2, <3>1
    <3>3. /\ \A i \in DOMAIN queue : i \in DOMAIN queue' /\ queue'[i] = queue[i]
          /\ \E i \in DOMAIN queue' : queue'[i] = x
      BY <1>1, <3>2
    <3> QED BY <3>1, <3>3
  <2> QED BY <2>1, <2>2
<1>10. \A t \in DOMAIN socks : socks'[t].owner = socks[t].owner /\ socks'[t].held = socks[t].held
  BY <1>6
<1>11. \A t \in DOMAIN socks :
         \A i \in DOMAIN socks'[t].wire :
           \E k \in DOMAIN socks[t].wire : socks'[t].wire[i] = socks[t].wire[k]
  <2> SUFFICES ASSUME NEW t \in DOMAIN socks, NEW i \in DOMAIN socks'[t].wire
               PROVE  \E k \in DOMAIN socks[t].wire : socks'[t].wire[i] = socks[t].wire[k]
    OBVIOUS
  <2>1. CASE t = s
    <3>1. i \in DOMAIN Tail(wire) /\ socks'[t].wire[i] = Tail(wire)[i]
      BY <1>6, <2>1
    <3>2. i + 1 \in DOMAIN wire /\ Tail(wire)[i] = wire[i + 1]
      BY <1>3, <3>1
    <3> QED BY <1>2, <2>1, <3>1, <3>2
  <2>2. CASE t # s
    BY <1>6, <2>2
  <2> QED BY <2>1, <2>2
<1>12. ASSUME NEW c \in Clients
       PROVE  Pending(conn[c].win)' = Effect(conn[c].win, Pending(conn[c].win), m)
  <2>1. PICK w : w = conn[c].win
    OBVIOUS
  <2>2. CASE m = Ping
    <3>1. Pending(w)' = Pending(w)
      BY <1>7, <2>2 DEF Pending
    <3> QED BY <1>7, <2>1, <2>2, <3>1, PingDoesNothing DEF Pending
  <2>3. CASE m # Ping
    <3>1. PICK x \in [from : Nat, msg : Frames \ {Ping}] : x = [from |-> s, msg |-> m]
                                                           /\ x.msg = m
      BY <1>8, <2>3
    <3>2. Msgs(queue)' = Append(Msgs(queue), m) /\ Msgs(queue) \in Seq(Frames)
      <4>1. queue' = Append(queue, x)
        BY <1>7, <2>3, <3>1
      <4>2. Msgs(Append(queue, x)) = Append(Msgs(queue), m) /\ Msgs(queue) \in Seq(Frames)
        BY <1>1, <3>1, MsgsAppend, MsgsAre DEF Items
      <4>3. Msgs(queue)' = Msgs(queue')
        BY DEF Msgs
      <4> QED BY <4>1, <4>2, <4>3
    <3>3. After(w, At(windows, w), Append(Msgs(queue), m))
            = Effect(w, After(w, At(windows, w), Msgs(queue)), m)
      BY <3>2, AfterAppend
    <3>4. Pending(w)' = After(w, At(windows, w), Append(Msgs(queue), m))
      BY <1>7, <3>2 DEF Pending
    <3> QED BY <1>7, <2>1, <3>3, <3>4 DEF Pending
  <2> QED BY <2>2, <2>3
<1>13. ASSUME NEW c \in Clients, conn[c].sock # 0, socks'[conn[c].sock].served, ~Excused(c)',
              ~(job[c].kind = "on" /\ Wipes(job[c]))
       PROVE  /\ socks[conn[c].sock].served /\ ~Excused(c)
              /\ Reaches(conn[c].win, socks[conn[c].sock].wire)'
                   = Reaches(conn[c].win, socks[conn[c].sock].wire)
  <2>1. PICK t, w : t = conn[c].sock /\ w = conn[c].win
    OBVIOUS
  <2>2. conn'[c].sock = t /\ conn'[c].win = w /\ t \in DOMAIN socks
    BY <1>7, <1>13, <2>1 DEF Inv, LinkOK, Holds
  <2>3. socks[t].served
    BY <1>6, <1>13, <2>1, <2>2
  <2>4. ~Excused(c)
    BY <1>7, <1>9, <1>10, <1>13, ExcusedLater
  <2>5. Pending(w)' = Effect(w, Pending(w), m)
    BY <1>7, <1>12, <2>1
  <2>6. Reaches(w, socks[t].wire)' = After(w, Effect(w, Pending(w), m), socks'[t].wire)
    BY <2>5 DEF Reaches
  <2>7. CASE t = s
    <3>1. After(w, Pending(w), wire) = After(w, Effect(w, Pending(w), m), Tail(wire))
      BY <1>2, <1>3, AfterTail
    <3> QED BY <1>2, <1>6, <2>1, <2>2, <2>3, <2>4, <2>6, <2>7, <3>1 DEF Reaches
  <2>8. CASE t # s
    <3>1. Effect(w, Pending(w), m) = Pending(w)
      <4>1. CASE m = Ping
        BY <4>1, PingDoesNothing
      <4>2. CASE m # Ping
        <5>1. PICK i \in DOMAIN queue' : queue'[i].from = s /\ queue'[i].msg = m
          BY <1>9, <4>2
        <5>2. w \notin Behind(s, m)'
          BY <1>13, <2>2, <5>1 DEF Excused, Behind, Known
        <5>3. w \notin Behind(s, m)
          BY <1>6, <1>7, <5>2 DEF Behind, Known
        <5>4. PICK v : v = Pending(w)
          OBVIOUS
        <5>5. Effect(conn[c].win, v, m) = v
          <6>1. PICK k, x : k = 1 /\ x = m /\ k \in DOMAIN socks[s].wire /\ x = socks[s].wire[k]
                            /\ x \in Frames \ {Ping}
            BY <1>2, <1>3, <1>4, <4>2
          <6>2. conn[c].sock # 0 /\ s # conn[c].sock /\ conn[c].win \notin Behind(s, x)
                /\ ~(job[c].kind = "on" /\ Wipes(job[c]))
            BY <1>13, <2>1, <2>8, <5>3, <6>1
          <6>3. Effect(conn[c].win, v, x) = v
            BY <6>1, <6>2, NeutralFrame
          <6> QED BY <6>1, <6>3
        <5> QED BY <2>1, <5>4, <5>5
      <4> QED BY <4>1, <4>2
    <3>2. socks'[t].wire = socks[t].wire
      BY <1>6, <2>2, <2>8
    <3> QED BY <2>1, <2>2, <2>3, <2>4, <2>6, <3>1, <3>2 DEF Reaches
  <2> QED BY <2>7, <2>8
<1> QED BY <1>6, <1>7, <1>10, <1>11, <1>13, ViewerWindows

(* A step that moves no frame of a connection that is held.                *)
LEMMA StillWindows ==
  ASSUME Inv, WInv,
         UNCHANGED <<store, current, ids, conn, live, job, synced, queue, windows, touched>>,
         DOMAIN socks' = DOMAIN socks,
         \A s \in DOMAIN socks :
           /\ socks'[s].owner = socks[s].owner /\ socks'[s].held = socks[s].held
           /\ socks[s].held => /\ socks'[s].wire = socks[s].wire
                               /\ socks'[s].served = socks[s].served
  PROVE  WInv'
<1>1. ASSUME NEW c \in Clients, conn[c].sock # 0, socks'[conn[c].sock].served, ~Excused(c)',
             ~(job[c].kind = "on" /\ Wipes(job[c]))
      PROVE  /\ socks[conn[c].sock].served /\ ~Excused(c)
             /\ Reaches(conn[c].win, socks[conn[c].sock].wire)'
                  = Reaches(conn[c].win, socks[conn[c].sock].wire)
  <2>1. conn[c].sock \in DOMAIN socks /\ socks[conn[c].sock].held
    BY <1>1 DEF Inv, LinkOK, Holds
  <2>2. ~Excused(c)
    BY <1>1, ExcusedLater
  <2>3. Pending(conn[c].win)' = Pending(conn[c].win)
    BY DEF Pending
  <2> QED BY <1>1, <2>1, <2>2, <2>3 DEF Reaches
<1> QED BY <1>1, ViewerWindows

LEMMA ClosedWindows ==
  ASSUME Inv, WInv, NEW s \in DOMAIN socks, ~socks[s].held,
         UNCHANGED <<store, current, ids, conn, live, job, synced, queue, windows, touched>>,
         socks' = [socks EXCEPT ![s] = Closed(socks[s].owner)]
  PROVE  WInv'
<1>1. DOMAIN socks' = DOMAIN socks /\ socks'[s] = Closed(socks[s].owner)
      /\ \A t \in DOMAIN socks : t # s => socks'[t] = socks[t]
  BY DEF Inv
<1>2. Closed(socks[s].owner).owner = socks[s].owner /\ Closed(socks[s].owner).held = FALSE
  BY DEF Closed
<1>3. socks[s].held = FALSE
  <2>1. socks[s] \in SockType
    BY DEF Inv
  <2> QED BY <2>1 DEF SockType
<1> QED BY <1>1, <1>2, <1>3, StillWindows

LEMMA ReplyWindows ==
  ASSUME Inv, WInv, NEW s \in DOMAIN socks, Reply(s)
  PROVE  WInv'
<1>1. UNCHANGED <<store, current, ids, conn, live, job, synced, queue, windows, touched>>
  BY DEF Reply, ViewerStep, script
<1>2. CASE ~socks[s].held /\ socks' = [socks EXCEPT ![s] = Closed(socks[s].owner)]
  BY <1>1, <1>2, ClosedWindows
<1>3. CASE socks' = [socks EXCEPT ![s] = [socks[s] EXCEPT
                       !.replies = Append(socks[s].replies, socks[s].owed), !.owed = ""]]
  <2>1. socks[s] \in SockType
    BY DEF Inv
  <2>2. /\ DOMAIN socks' = DOMAIN socks
        /\ \A t \in DOMAIN socks : t # s => socks'[t] = socks[t]
        /\ socks'[s].owner = socks[s].owner /\ socks'[s].held = socks[s].held
        /\ socks'[s].wire = socks[s].wire /\ socks'[s].served = socks[s].served
    BY <1>3, <2>1 DEF Inv, SockType
  <2> QED BY <1>1, <2>2, StillWindows
<1> QED BY <1>2, <1>3 DEF Reply

LEMMA HangupWindows ==
  ASSUME Inv, WInv, NEW s \in DOMAIN socks, Hangup(s)
  PROVE  WInv'
<1>1. UNCHANGED <<store, current, ids, conn, live, job, synced, queue, windows, touched>>
  BY DEF Hangup, ViewerStep, script
<1> QED BY <1>1, ClosedWindows DEF Hangup

LEMMA CrashWindows ==
  ASSUME Inv, WInv, Crash
  PROVE  WInv'
<1>1. UNCHANGED <<store, current, ids, conn, live, job, synced>> /\ DOMAIN socks' = DOMAIN socks
  BY DEF Crash, script
<1>2. ASSUME NEW s \in DOMAIN socks
      PROVE  /\ socks'[s].owner = socks[s].owner /\ socks'[s].held = socks[s].held
             /\ ~socks'[s].served /\ DOMAIN socks'[s].wire = {}
  <2>1. socks[s] \in SockType
    BY DEF Inv
  <2>2. CASE socks[s].held
    <3>1. socks'[s] = [socks[s] EXCEPT !.served = FALSE, !.wire = <<>>, !.owed = ""]
      BY <2>2 DEF Crash
    <3>2. /\ socks'[s].owner = socks[s].owner /\ socks'[s].held = socks[s].held
          /\ socks'[s].served = FALSE /\ socks'[s].wire = <<>>
      BY <2>1, <3>1 DEF SockType
    <3> QED BY <3>2
  <2>3. CASE ~socks[s].held
    <3>1. socks'[s] = Closed(socks[s].owner)
      BY <2>3 DEF Crash
    <3>2. /\ socks'[s].owner = socks[s].owner /\ socks'[s].held = FALSE
          /\ socks'[s].served = FALSE /\ socks'[s].wire = <<>>
      <4>1. PICK d : d = socks[s].owner
        OBVIOUS
      <4>2. Closed(d).owner = d /\ Closed(d).held = FALSE /\ Closed(d).served = FALSE
        BY DEF Closed
      <4>3. Closed(d).wire = <<>>
        BY DEF Closed
      <4> QED BY <3>1, <4>1, <4>2, <4>3
    <3>3. socks[s].held \in BOOLEAN
      BY <2>1 DEF SockType
    <3>4. DOMAIN socks'[s].wire = {} /\ ~socks'[s].served
      BY <3>2
    <3>5. socks'[s].held = socks[s].held
      BY <2>3, <3>2, <3>3
    <3> QED BY <3>2, <3>4, <3>5
  <2> QED BY <2>2, <2>3
<1>3. \A c \in Clients : conn[c].sock # 0 => conn[c].sock \in DOMAIN socks
  BY DEF Inv, LinkOK, Holds
<1> QED BY <1>1, <1>2, <1>3, ViewerWindows

LEMMA RestartWindows ==
  ASSUME WInv, Restart
  PROVE  WInv'
<1>1. UNCHANGED <<store, current, ids, conn, live, job, synced, socks, queue, windows, touched>>
  BY DEF Restart, script
<1> QED BY <1>1, FlagsOnlyWindows

(* What the app does to a table of windows it does to each of them.        *)
LEMMA ApplyIs ==
  ASSUME NEW ws, Shown(ws), NEW m \in Frames, NEW w
  PROVE  At(Apply(ws, m), w) = Effect(w, At(ws, w), m)
<1>1. CASE m.type = "Reset"
  <2>1. Apply(ws, m) = <<>>
    BY <1>1 DEF Apply
  <2> QED BY <1>1, <2>1 DEF At, Effect
<1>2. CASE m.type = "FigureOpen"
  <2>1. Apply(ws, m) = IF m.win \in DOMAIN ws THEN ws ELSE Put(ws, m.win, Panel)
    BY <1>2 DEF Apply
  <2>2. CASE m.win # w
    BY <1>2, <2>1, <2>2 DEF At, Effect, Put
  <2>3. CASE m.win = w
    <3>1. Effect(w, At(ws, w), m) = IF At(ws, w) = {} THEN {Panel} ELSE At(ws, w)
      BY <1>2, <2>3 DEF Effect
    <3>2. CASE w \in DOMAIN ws
      BY <2>1, <2>3, <3>1, <3>2 DEF At
    <3>3. CASE w \notin DOMAIN ws
      <4>1. At(ws, w) = {} /\ Apply(ws, m) = Put(ws, w, Panel)
        BY <2>1, <2>3, <3>3 DEF At
      <4>2. At(Put(ws, w, Panel), w) = {Panel}
        BY DEF At, Put
      <4> QED BY <3>1, <4>1, <4>2
    <3> QED BY <3>2, <3>3
  <2> QED BY <2>2, <2>3
<1>3. CASE m.type = "PanelUpdate"
  <2>1. CASE m.win \notin DOMAIN ws
    <3>1. Apply(ws, m) = ws
      BY <1>3, <2>1 DEF Apply
    <3> QED BY <1>3, <2>1, <3>1 DEF At, Effect
  <2>2. CASE m.win \in DOMAIN ws
    <3>1. ws[m.win] \in [series : Contents, surface : Contents]
      BY <2>2 DEF Shown
    <3>2. PICK p : p = ws[m.win] /\ p \in [series : Contents, surface : Contents]
      BY <3>1
    <3>3. [p EXCEPT !.series = m.content] = [series |-> m.content, surface |-> p.surface]
      BY <3>2
    <3>4. Apply(ws, m) = [ws EXCEPT ![m.win] = Drawn(p, m.content)]
      <4>1. CASE m.content.kind = "surface"
        BY <1>3, <2>2, <4>1 DEF Apply, Drawn
      <4>2. CASE m.content.kind # "surface"
        <5>1. Apply(ws, m) = [ws EXCEPT ![m.win] = [p EXCEPT !.series = m.content]]
          BY <1>3, <2>2, <3>2, <4>2 DEF Apply
        <5> QED BY <3>3, <4>2, <5>1 DEF Drawn
      <4> QED BY <4>1, <4>2
    <3>5. CASE m.win # w
      BY <1>3, <2>2, <3>4, <3>5 DEF At, Effect
    <3>6. CASE m.win = w
      <4>1. At(Apply(ws, m), w) = {Drawn(p, m.content)}
        BY <2>2, <3>4, <3>6 DEF At
      <4>2. At(ws, w) = {p}
        BY <2>2, <3>2, <3>6 DEF At
      <4>3. Effect(w, {p}, m) = {Drawn(p, m.content)}
        BY <1>3, <3>6 DEF Effect
      <4> QED BY <4>1, <4>2, <4>3
    <3> QED BY <3>5, <3>6
  <2> QED BY <2>1, <2>2
<1>4. CASE m.type = "Close"
  <2>1. Apply(ws, m) = Restrict(ws, DOMAIN ws \ {m.win})
    BY <1>4 DEF Apply
  <2> QED BY <1>4, <2>1 DEF At, Effect, Restrict
<1>5. CASE m.type \notin {"Reset", "FigureOpen", "PanelUpdate", "Close"}
  <2>1. Apply(ws, m) = ws
    BY <1>5 DEF Apply
  <2> QED BY <1>5, <2>1 DEF Effect
<1> QED BY <1>1, <1>2, <1>3, <1>4, <1>5

LEMMA ProcessMessageWindows ==
  ASSUME Inv, WInv, ProcessMessage
  PROVE  WInv'
<1>1. queue \in Seq([from : Nat, msg : Frames \ {Ping}]) /\ Shown(windows)
  BY DEF Inv, ViewerOK, Shown
<1>2. PICK item : item = Head(queue)
  OBVIOUS
<1>3. /\ queue # <<>> /\ queue' = Tail(queue) /\ windows' = Apply(windows, item.msg)
      /\ touched' = touched \cup Behind(item.from, item.msg)
      /\ UNCHANGED <<store, current, ids, conn, live, job, synced, socks>>
  BY <1>2 DEF ProcessMessage, ViewerStep, script
<1>4. /\ item \in [from : Nat, msg : Frames \ {Ping}] /\ item = queue[1]
      /\ \A i \in DOMAIN queue : i = 1 \/ (i - 1 \in DOMAIN Tail(queue)
                                           /\ Tail(queue)[i - 1] = queue[i])
  <2>1. PICK T : T = [from : Nat, msg : Frames \ {Ping}]
    OBVIOUS
  <2>2. PICK q \in Seq(T) : q = queue /\ q # <<>>
    BY <1>1, <1>3, <2>1
  <2>3. /\ Head(q) \in T /\ Head(q) = q[1]
        /\ \A i \in DOMAIN q : i = 1 \/ (i - 1 \in DOMAIN Tail(q) /\ Tail(q)[i - 1] = q[i])
    BY <2>2
  <2> QED BY <1>2, <2>1, <2>2, <2>3
<1>5. PICK m \in Frames : m = item.msg
  BY <1>4
<1>6. ASSUME NEW w PROVE Pending(w)' = Pending(w)
  <2>1. PICK ms \in Seq(Frames) : ms = Msgs(queue) /\ ms # <<>> /\ Head(ms) = m
                                  /\ Tail(ms) = Msgs(Tail(queue))
    BY <1>1, <1>2, <1>3, <1>5, MsgsAre, MsgsTail DEF Items
  <2>2. After(w, At(windows, w), ms) = After(w, Effect(w, At(windows, w), m), Tail(ms))
    BY <2>1, AfterTail
  <2>3. At(windows', w) = Effect(w, At(windows, w), m)
    BY <1>1, <1>3, <1>5, ApplyIs
  <2>4. Pending(w)' = After(w, At(windows', w), Msgs(queue'))
    BY DEF Pending, At, Msgs
  <2> QED BY <1>3, <2>1, <2>2, <2>3, <2>4 DEF Pending
<1>7. ASSUME NEW c \in Clients, Excused(c)
      PROVE  Excused(c)'
  <2>1. PICK w : w = conn[c].win /\ w = conn'[c].win
    BY <1>3
  <2>2. CASE w \in touched
    BY <1>3, <2>1, <2>2 DEF Excused
  <2>3. ASSUME NEW i \in DOMAIN queue, w \in Behind(queue[i].from, queue[i].msg)
        PROVE  Excused(c)'
    <3>1. CASE i = 1
      <4>1. w \in touched'
        BY <1>3, <1>4, <2>3, <3>1
      <4> QED BY <2>1, <4>1 DEF Excused
    <3>2. CASE i # 1
      <4>1. PICK k \in DOMAIN queue' : queue'[k] = queue[i]
        BY <1>3, <1>4, <3>2
      <4>2. w \in Behind(queue[k].from, queue[k].msg)'
        BY <1>3, <2>3, <4>1 DEF Behind, Known
      <4> QED BY <2>1, <4>1, <4>2 DEF Excused
    <3> QED BY <3>1, <3>2
  <2> QED BY <1>7, <2>1, <2>2, <2>3 DEF Excused
<1>8. \A w, wire : Reaches(w, wire)' = Reaches(w, wire)
  BY <1>6 DEF Reaches
<1>9. ASSUME NEW c \in Clients
      PROVE  Reaches(conn[c].win, socks[conn[c].sock].wire)'
               = Reaches(conn[c].win, socks[conn[c].sock].wire)
  BY <1>3, <1>8
<1> QED BY <1>3, <1>7, <1>9, ViewerWindows

-----------------------------------------------------------------------------
(***************************************************************************)
(* Every behaviour keeps it, and it gives the plots.                       *)
(***************************************************************************)
LEMMA InitWindows == Init => WInv
<1> SUFFICES ASSUME Init, NEW c \in Clients PROVE Windowed(c)
  BY DEF WInv
<1>1. /\ job[c] = NoJob /\ conn[c] = NoConn /\ live[c] = NoLive /\ synced[c] = Blank
      /\ socks = <<>>
  BY DEF Init
<1>2. /\ job[c].kind = "none" /\ conn[c].sock = 0 /\ live[c].win = NoWindow /\ DOMAIN socks = {}
  BY <1>1 DEF NoJob, NoConn, NoLive
<1>3. JobOK(c)
  BY <1>1, <1>2, NoJobMeans DEF JobOK
<1>4. FramesOK(c) /\ PlotsOK(c) /\ PromiseOK(c)
  BY <1>1, <1>2 DEF FramesOK, PlotsOK, PromiseOK
<1> QED BY <1>3, <1>4 DEF Windowed

LEMMA SaysWindows ==
  ASSUME Inv, WInv, NEW c \in Clients, Says(c)
  PROVE  WInv'
<1>1. LiveUpdate(c) \/ LiveDraw(c) => WInv'
  BY LiveSendWindows DEF LiveUpdate, LiveDraw
<1>2. NextLine(c) => WInv'
  BY FlagStepWindows
<1> QED BY <1>1, <1>2, PlotWindows, FigureNewWindows, FigureSwitchWindows, CloseStoredWindows,
           CloseCurrentWindows, CloseAllWindows, ViewerOnWindows, ViewerOffWindows,
           LiveOpenWindows, LiveLabelWindows, LiveCloseWindows DEF Says

LEMMA WorksWindows ==
  ASSUME Inv, WInv, NEW c \in Clients, Works(c)
  PROVE  WInv'
BY SendWindows, ReadReplyWindows, InterruptedWindows, LoseSyncWindows, LoseLiveWindows,
   LoseDialWindows, LoseResetWindows, LoseTellWindows, ConnectedWindows, LiveConnectedWindows,
   SyncedWindows, LiveSentWindows, ToldWindows DEF Works

LEMMA NextWindows == Inv /\ WInv /\ [Next]_vars => WInv'
<1> SUFFICES ASSUME Inv, WInv, [Next]_vars PROVE WInv'
  OBVIOUS
<1>1. CASE \E c \in Clients : Says(c) \/ Works(c) \/ Press(c)
  <2>1. PICK c \in Clients : Says(c) \/ Works(c) \/ Press(c)
    BY <1>1
  <2> QED BY <2>1, SaysWindows, WorksWindows, FlagStepWindows
<1>2. CASE \E s \in DOMAIN socks : Serves(s)
  <2>1. PICK s \in DOMAIN socks : Serves(s)
    BY <1>2
  <2> QED BY <2>1, TakeWindows, ReplyWindows, HangupWindows DEF Serves
<1>3. CASE UNCHANGED vars
  <2>1. UNCHANGED <<store, current, ids, conn, live, job, synced, socks, queue, windows, touched>>
    BY <1>3 DEF vars, script, viewer
  <2> QED BY <2>1, FlagsOnlyWindows
<1> QED BY <1>1, <1>2, <1>3, ProcessMessageWindows, CrashWindows, RestartWindows DEF Next

(* Nothing is on its way: what comes of a window is what it shows.         *)
LEMMA SettledShows ==
  ASSUME Inv, WInv, NEW c \in Clients, Settled(c), conn[c].win \notin touched
  PROVE  /\ conn[c].win \in DOMAIN windows
         /\ synced[c] \in {windows[conn[c].win].series, windows[conn[c].win].surface}
<1>1. PICK w, s : w = conn[c].win /\ s = conn[c].sock
  OBVIOUS
<1>2. /\ job[c] = NoJob /\ NoJob.kind = "none" /\ synced[c] # Blank
      /\ s # 0 /\ socks[s].served /\ socks[s].wire = <<>> /\ queue = <<>>
  BY <1>1, NoJobIs DEF Settled, Idle, NoJob
<1>3. ~Excused(c)
  BY <1>2 DEF Excused
<1>4. Reaches(w, <<>>) = At(windows, w)
  BY <1>2, AfterNone, MsgsNone DEF Reaches, Pending
<1>5. Promised(conn[c], job[c], current[c], synced[c], Reaches(w, socks[s].wire))
  BY <1>1, <1>2, <1>3 DEF WInv, Windowed, PromiseOK
<1>6. Shows(At(windows, w), synced[c])
  BY <1>2, <1>4, <1>5 DEF Promised
<1> QED BY <1>1, <1>6 DEF Shows, At

(* A plot that sync_viewer reported as drawn is in its window once what is *)
(* on the way has been processed, however scripts switch and close         *)
(* figures, dial again, are interrupted or find the viewer dead; only      *)
(* another script's Reset, or a late frame of a connection that was given  *)
(* up, can take it away.                                                   *)
THEOREM SyncedPlotsArrive == Spec => []SyncedArrives
<1>1. Inv /\ WInv => SyncedArrives
  BY SettledShows DEF SyncedArrives
<1> QED BY <1>1, InvHolds, InitWindows, NextWindows, PTL DEF Spec

=============================================================================
