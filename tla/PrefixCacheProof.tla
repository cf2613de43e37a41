-------------------------- MODULE PrefixCacheProof --------------------------
(***************************************************************************)
(* Proofs about PrefixCache, for every set of documents, every program and *)
(* every number of renders.                                                *)
(***************************************************************************)
EXTENDS PrefixCache, TLAPS

(* A sequence, whatever its elements are.                                  *)
IsSeq(s) == \E S : s \in Seq(S)

LEMMA AppendFacts ==
  ASSUME NEW s, IsSeq(s), NEW e
  PROVE  /\ Len(s) \in Nat /\ DOMAIN s = 1..Len(s)
         /\ IsSeq(Append(s, e)) /\ Len(Append(s, e)) = Len(s) + 1
         /\ \A i \in 1..Len(s) : Append(s, e)[i] = s[i]
         /\ Append(s, e)[Len(s) + 1] = e
<1>1. PICK S : s \in Seq(S)
  BY DEF IsSeq
<1> DEFINE T == S \cup {e}
<1>2. s \in Seq(T) /\ e \in T
  BY <1>1
<1>3. Append(s, e) \in Seq(T)
  BY <1>2
<1> QED BY <1>2, <1>3 DEF IsSeq

LEMMA SubSeqFacts ==
  ASSUME NEW s, IsSeq(s), NEW k \in 0..Len(s)
  PROVE  /\ IsSeq(SubSeq(s, 1, k)) /\ Len(SubSeq(s, 1, k)) = k
         /\ \A i \in 1..k : SubSeq(s, 1, k)[i] = s[i]
<1>1. PICK S : s \in Seq(S)
  BY DEF IsSeq
<1>2. SubSeq(s, 1, k) \in Seq(S)
  BY <1>1
<1> QED BY <1>1, <1>2 DEF IsSeq

LEMMA SeqEmpty ==
  ASSUME NEW s, IsSeq(s), Len(s) = 0 PROVE s = <<>>
<1>1. PICK S : s \in Seq(S)
  BY DEF IsSeq
<1> QED BY <1>1

LEMMA TableType ==
  ASSUME CacheAssumption, NEW doc \in Docs, NEW table \in TablesOf(doc)
  PROVE  table \in Table
<1>1. PICK overrides \in Table : table = BuildWidgetTable(doc, overrides)
  BY DEF TablesOf
<1>2. SUFFICES ASSUME NEW w \in Widgets
               PROVE  BuildWidgetTable(doc, overrides)[w] \in Values \cup {None}
  BY <1>1 DEF BuildWidgetTable, Table
<1>3. doc.choices[w] \in Seq(Values) /\ overrides[w] \in Values \cup {None}
  BY DEF CacheAssumption, Table
<1>4. doc.choices[w] # <<>> => Head(doc.choices[w]) \in Values
  BY <1>3
<1> QED BY <1>3, <1>4 DEF BuildWidgetTable

-----------------------------------------------------------------------------
(* The shape of the state: what a render works on, and how far it is.      *)

Shape ==
  /\ IsSeq(cache) /\ IsSeq(out) /\ IsSeq(told) /\ IsSeq(trace) /\ IsSeq(above)
  /\ thread = [t \in Threads |-> thread[t]]
  /\ Running =>
       /\ render.thr \in Threads /\ render.doc \in Docs
       /\ render.table \in TablesOf(render.doc)
       /\ ev.widgets = render.table
       /\ Len(out) <= Len(render.doc.blocks) /\ Len(trace) = Here
       /\ Len(told) = Len(out) \/ Len(told) = Here

IInv == Shape /\ CacheSound /\ RenderSound

Hypotheses == CacheAssumption /\ SteadyBlocks /\ ReadsDeclared /\ ReadsLocal

LEMMA BlocksOf ==
  ASSUME CacheAssumption, NEW doc \in Docs, NEW i \in 1..Len(doc.blocks)
  PROVE  doc.blocks[i] \in Blocks
<1>1. DOMAIN doc.blocks = 1..Len(doc.blocks)
  BY DEF CacheAssumption
<1> QED BY <1>1 DEF Blocks

LEMMA ProsesOf ==
  ASSUME CacheAssumption, NEW doc \in Docs
  PROVE  /\ doc.proses \in Seq(Proses) /\ Len(doc.blocks) \in Nat
         /\ Len(doc.proses) = Len(doc.blocks) + 1
<1>1. Len(doc.blocks) \in Nat
  BY DEF CacheAssumption
<1>2. doc.proses \in Seq(Proses) /\ Len(doc.proses) = Len(doc.blocks) + 1
  BY Zenon DEF CacheAssumption
<1> QED BY <1>1, <1>2

(* Executing a block under a table that agrees with what another execution *)
(* saw is that execution.                                                  *)
LEMMA SameExecution ==
  ASSUME Hypotheses, NEW b \in Blocks, NEW c \in Blocks, b.src = c.src,
         NEW s \in Table, NEW t \in Table, NEW state,
         b.kind = "code" => \A w \in ReadsOf(b.src, state.env, s) : s[w] = t[w]
  PROVE  After(c, state, t) = After(b, state, s)
<1>1. b.kind = c.kind
  BY DEF Hypotheses, SteadyBlocks
<1>2. CASE b.kind # "code"
  BY <1>1, <1>2 DEF After
<1>3. CASE b.kind = "code"
  <2>1. ReadsOf(b.src, state.env, t) = ReadsOf(b.src, state.env, s)
    BY <1>3 DEF Hypotheses, ReadsLocal
  <2>2. Lookup(t, ReadsOf(b.src, state.env, t)) = Lookup(s, ReadsOf(b.src, state.env, s))
    BY <1>3, <2>1 DEF Lookup
  <2>3. Execution(c.src, state.env, t, state.th) = Execution(b.src, state.env, s, state.th)
    BY <2>2 DEF Execution
  <2> QED BY <1>1, <2>3 DEF After, Ran
<1> QED BY <1>2, <1>3

(* A state is its two parts, whatever was executed on it.                  *)
LEMMA StateParts ==
  ASSUME NEW env, NEW th, NEW p, NEW b, NEW s, NEW t, NEW q
  PROVE  /\ LET said == Said(p, State(env, th), t) IN said = State(said.env, said.th)
         /\ LET after == After(b, Said(p, State(env, th), s), t)
            IN  after = State(after.env, after.th)
<1>1. \A src, u, v : Ran(src, u, v) = State(Ran(src, u, v).env, Ran(src, u, v).th)
  BY DEF Ran, State
<1>2. State(env, th) = State(State(env, th).env, State(env, th).th)
  BY DEF State
<1> QED BY <1>1, <1>2 DEF Said, After

-----------------------------------------------------------------------------
(* A render begins: what is kept of the cache is still sound, and valid.   *)

LEMMA BeginKeeps ==
  ASSUME Hypotheses, IInv, NEW t \in Threads, NEW doc \in Docs,
         NEW table \in TablesOf(doc), NEW force \in 0..Len(doc.blocks),
         Begin(t, doc, table, force)
  PROVE  IInv'
<1> DEFINE start == ResetFigure(thread[t])
<1>1. /\ render' = [thr |-> t, doc |-> doc, table |-> table, force |-> force, start |-> start]
      /\ ev' = [env |-> <<>>, widgets |-> table] /\ out' = <<>> /\ told' = <<>>
      /\ thread' = [thread EXCEPT ![t] = start]
      /\ origin' = IF cache' = <<>> THEN start ELSE origin
      /\ trace' = <<State(<<>>, origin')>>
  BY DEF Begin
<1>2. PICK k \in 0..Len(cache) : /\ ValidPrefix(doc, table, k)
                                 /\ cache' = Kept(Clamp(k, force))
                                 /\ above' = SubSeq(above, 1, Clamp(k, force))
  BY DEF Begin
<1> DEFINE n == Clamp(k, force)
<1>3. n \in 0..Len(cache) /\ n <= k /\ Len(doc.blocks) \in Nat /\ Len(above) = Len(cache)
  BY <1>2 DEF Clamp, Hypotheses, CacheAssumption, IInv, CacheSound
<1>4. /\ IsSeq(cache') /\ Len(cache') = n
      /\ \A i \in 1..n : cache'[i] = cache[i]
      /\ IsSeq(above') /\ Len(above') = n
      /\ \A i \in 1..n : above'[i] = above[i]
  BY <1>2, <1>3, SubSeqFacts DEF Kept, IInv, Shape
<1>5. /\ Len(out') = 0 /\ Len(told') = 0 /\ Len(trace') = 1
      /\ IsSeq(out') /\ IsSeq(told') /\ IsSeq(trace')
  <2>1. out' \in Seq({}) /\ told' \in Seq({}) /\ trace' \in Seq({State(<<>>, origin')})
    BY <1>1
  <2> QED BY <1>1, <2>1 DEF IsSeq
<1>6. Shape'
  <2>1. Running' /\ render'.thr = t /\ render'.doc = doc /\ render'.table = table
    BY <1>1 DEF Running, Hypotheses, CacheAssumption
  <2>2. thread' = [u \in Threads |-> thread'[u]]
    BY <1>1 DEF IInv, Shape
  <2> QED BY <1>1, <1>3, <1>4, <1>5, <2>1, <2>2 DEF Shape, Here
<1>7. CacheSound' /\ (n > 0 => \A i \in 0..n : Snapshot(i)' = Snapshot(i))
      /\ (n = 0 => Snapshot(0)' = State(<<>>, origin'))
  <2>1. CASE n = 0
    BY <1>1, <1>4, <2>1 DEF CacheSound, Snapshot, ResetFigure
  <2>2. CASE n > 0
    <3>1. cache' # <<>> /\ origin' = origin
      BY <1>1, <1>4, <2>2
    <3>2. \A i \in 0..n : Snapshot(i)' = Snapshot(i)
      BY <1>4, <3>1 DEF Snapshot
    <3>3. \A i \in 1..n : above'[i].table \in Table /\ EntrySound(i)'
      <4> TAKE i \in 1..n
      <4>1. /\ EntrySound(i) /\ Snapshot(i)' = Snapshot(i) /\ Snapshot(i - 1)' = Snapshot(i - 1)
            /\ above[i].table \in Table
        BY <1>3, <3>2 DEF IInv, CacheSound
      <4> QED BY <1>4, <4>1 DEF EntrySound, RanOn
    <3> QED BY <1>4, <2>2, <3>1, <3>2, <3>3 DEF CacheSound, IInv
  <2> QED BY <1>3, <2>1, <2>2
<1>8. RenderSound'
  <2>1. Len(cache') <= Len(doc.blocks) /\ Len(out') <= Len(cache')
    BY <1>2, <1>3, <1>4, <1>5 DEF ValidPrefix
  <2>2. IsRunOf(doc, table)'
    <3>1. trace'[1] = State(<<>>, origin')
      BY <1>1
    <3>2. ~origin'.hold
      BY <1>7 DEF CacheSound
    <3> QED BY <1>1, <3>1, <3>2 DEF IsRunOf
  <2>3. \A i \in 1..n : EntryValid(cache'[i], doc.blocks[i], table)
    BY <1>2, <1>3, <1>4 DEF ValidPrefix
  <2>4. Live' = Stage(Here)' /\ Here' = 1
    BY <1>1, <1>5 DEF State, Live, Stage, Here, IInv, Shape
  <2>5. /\ render'.thr = t /\ render'.doc = doc /\ render'.table = table
        /\ cache' = <<>> => render'.start = origin'
    BY <1>1
  <2> QED BY <1>3, <1>4, <1>5, <2>1, <2>2, <2>3, <2>4, <2>5 DEF RenderSound, Here
<1> QED BY <1>6, <1>7, <1>8 DEF IInv

-----------------------------------------------------------------------------
(* One more block is shown, replayed or executed.                          *)

LEMMA RunGrows ==
  ASSUME Hypotheses, IInv, InProgress, NEW state, NEW output,
         UNCHANGED <<render, origin, told>>,
         trace' = Append(trace, state),
         out' = Append(out, output),
         \A i \in 1..Len(out) : above'[i] = above[i],
         state = After(Current, Said(above'[Here].prose, trace[Here], above'[Here].table),
                       render.table),
         output = Output(Current, state)
  PROVE  /\ IsSeq(out') /\ IsSeq(trace')
         /\ Len(out') = Here /\ Len(trace') = Here + 1
         /\ \A i \in 1..Here : trace'[i] = trace[i]
         /\ trace'[Here + 1] = state
         /\ IsRunOf(render.doc, render.table)'
<1>1. /\ Len(out) \in Nat /\ Len(trace) = Here /\ IsSeq(out) /\ IsSeq(trace)
      /\ IsSeq(told) /\ Len(told) = Here
  BY AppendFacts DEF IInv, Shape, InProgress
<1>2. /\ IsSeq(trace') /\ Len(trace') = Here + 1
      /\ \A i \in 1..Here : trace'[i] = trace[i]
      /\ trace'[Here + 1] = state
  BY <1>1, AppendFacts
<1>3. /\ IsSeq(out') /\ Len(out') = Here
      /\ DOMAIN out = 1..Len(out) /\ DOMAIN out' = 1..Here
      /\ \A i \in 1..Len(out) : out'[i] = out[i]
      /\ out'[Here] = output
  <2>1. IsSeq(out')
    BY <1>1, AppendFacts
  <2> QED BY <1>1, <2>1, AppendFacts DEF Here
<1>4. IsRunOf(render.doc, render.table)
  BY DEF IInv, RenderSound, InProgress
<1>5. trace'[1] = State(<<>>, origin') /\ ~origin'.hold
  BY <1>1, <1>2, <1>4 DEF IsRunOf, Here
<1>6. ASSUME NEW i \in DOMAIN out'
      PROVE  /\ trace'[i + 1] = After(render.doc.blocks[i], Led(i)', render.table)
             /\ out'[i] = Output(render.doc.blocks[i], trace'[i + 1])
  <2>1. CASE i = Here
    <3>1. trace'[i] = trace[Here] /\ trace'[i + 1] = state /\ out'[i] = output
      BY <1>1, <1>2, <1>3, <2>1 DEF Here
    <3>2. render.doc.blocks[i] = Current
      BY <2>1 DEF Current
    <3> QED BY <2>1, <3>1, <3>2 DEF Led
  <2>2. CASE i # Here
    <3>1. i \in DOMAIN out /\ i \in 1..Here /\ i + 1 \in 1..Here /\ i \in 1..Len(out)
      BY <1>1, <1>3, <2>2 DEF Here
    <3>2. trace'[i] = trace[i] /\ trace'[i + 1] = trace[i + 1] /\ out'[i] = out[i]
      BY <1>2, <1>3, <3>1
    <3>3. Led(i)' = Led(i)
      BY <3>1, <3>2 DEF Led
    <3> QED BY <1>4, <3>1, <3>2, <3>3 DEF IsRunOf
  <2> QED BY <2>1, <2>2
<1>7. ASSUME NEW i \in DOMAIN told'
      PROVE  told'[i] = Interpolated(render.doc.proses[i], Stage(i)', render.table)
  <2>1. i \in DOMAIN told /\ i \in 1..Here
    BY <1>1, AppendFacts
  <2>2. Stage(i)' = Stage(i)
    BY <1>2, <2>1 DEF Stage
  <2> QED BY <1>4, <2>1, <2>2 DEF IsRunOf
<1>8. IsRunOf(render.doc, render.table)'
  BY <1>5, <1>6, <1>7 DEF IsRunOf
<1> QED BY <1>2, <1>3, <1>8

(* The prose before the next block is told.                                *)
LEMMA TellKeeps == ASSUME Hypotheses, IInv, Tell PROVE IInv'
<1> DEFINE p == render.doc.proses[Here]
           table == render.table
           said == Said(p, Stage(Here), table)
           line == Interpolated(p, Stage(Here), table)
<1>1. /\ Running /\ Shape /\ RenderSound /\ CacheSound /\ Len(told) = Len(out)
      /\ UNCHANGED <<cache, render, out, trace, above, origin>>
      /\ Here \in Nat /\ Here = Len(out) + 1 /\ IsSeq(told) /\ IsSeq(trace)
  BY AppendFacts DEF Tell, IInv, Shape, Here, historyVars
<1>2. Live = Stage(Here) /\ ev.widgets = table /\ render.thr \in Threads
  BY <1>1 DEF RenderSound, Shape
<1>3. /\ told' = Append(told, line)
      /\ ev' = [env |-> said.env, widgets |-> table]
      /\ thread' = [thread EXCEPT ![render.thr] = said.th]
  BY <1>2 DEF Tell, Becomes
<1>4. said = State(said.env, said.th)
  <2>1. Stage(Here) = State(ev.env, thread[render.thr])
    BY <1>2 DEF Live
  <2> QED BY <2>1, StateParts
<1> HIDE DEF line, said
<1>5. /\ IsSeq(told') /\ Len(told') = Here
      /\ DOMAIN told = 1..Len(told) /\ DOMAIN told' = 1..Here
      /\ \A i \in 1..Len(told) : told'[i] = told[i]
      /\ told'[Here] = line
  <2>1. IsSeq(told')
    BY <1>1, <1>3, AppendFacts
  <2> QED BY <1>1, <1>3, <2>1, AppendFacts
<1>6. Shape'
  <2>1. thread' = [u \in Threads |-> thread'[u]]
    BY <1>1, <1>3 DEF Shape
  <2>2. Running' /\ Here' = Here /\ ev'.widgets = table
    BY <1>1, <1>3 DEF Running, Here
  <2> QED BY <1>1, <1>5, <2>1, <2>2 DEF Shape
<1>7. CacheSound'
  BY <1>1 DEF CacheSound, EntrySound, Snapshot, RanOn
<1>8. IsRunOf(render.doc, render.table)'
  <2>1. IsRunOf(render.doc, render.table)
    BY <1>1 DEF RenderSound
  <2>2. \A i : Led(i)' = Led(i) /\ Stage(i)' = Stage(i)
    BY <1>1 DEF Led, Stage
  <2>3. ASSUME NEW i \in 1..Here
        PROVE  told'[i] = Interpolated(render.doc.proses[i], Stage(i), table)
    <3>1. CASE i = Here
      BY <1>5, <3>1 DEF line
    <3>2. CASE i # Here
      <4>1. i \in DOMAIN told /\ i \in 1..Len(told)
        BY <1>1, <1>5, <3>2
      <4> QED BY <1>5, <2>1, <4>1 DEF IsRunOf
    <3> QED BY <3>1, <3>2
  <2> QED BY <1>1, <1>5, <2>1, <2>2, <2>3 DEF IsRunOf
<1>9. RenderSound'
  <2>1. Live' = said
    BY <1>1, <1>2, <1>3, <1>4 DEF Live, Shape
  <2>5. Here' = Here
    BY <1>1 DEF Here
  <2>6. Stage(Here) = IF Here = 1 THEN State(<<>>, render.start) ELSE trace[Here]
    BY DEF Stage
  <2>7. Stage(Here)' = IF Here = 1 THEN State(<<>>, render.start) ELSE trace[Here]
    <3> HIDE DEF Here
    <3> QED BY <1>1, <2>5 DEF Stage
  <2>8. Stage(Here)' = Stage(Here)
    BY <2>6, <2>7, Zenon
  <2>2. Here' = Here /\ Stage(Here)' = Stage(Here)
    BY <2>5, <2>8, Zenon
  <2>4. Len(told') # Len(out')
    <3>1. out' = out /\ Len(out) \in Nat
      BY <1>1, AppendFacts DEF Shape
    <3>2. Len(told') = Len(out) + 1
      BY <1>1, <1>5, Zenon
    <3>3. Len(out') = Len(out)
      BY <3>1, Zenon
    <3> QED BY <3>1, <3>2, <3>3
  <2>3. /\ \A i : Snapshot(i)' = Snapshot(i)
        /\ \A i, b : EntryValid(cache'[i], b, table) = EntryValid(cache[i], b, table)
    BY <1>1 DEF Snapshot
  <2> QED BY <1>1, <1>8, <2>1, <2>2, <2>3, <2>4 DEF RenderSound, said
<1> QED BY <1>6, <1>7, <1>9 DEF IInv

(* A block that is replayed or executed leaves its state as the live one.  *)
LEMMA Left ==
  ASSUME Shape, Running, NEW s, s = State(s.env, s.th), Becomes(s, render.table),
         UNCHANGED render, Len(trace') = Here + 1, Len(out') = Here, Here \in Nat, Here >= 1,
         trace'[Here + 1] = s
  PROVE  Live' = Stage(Here)' /\ Here' = Here + 1 /\ ev'.widgets = render.table
<1>1. ev'.env = s.env /\ thread'[render.thr] = s.th /\ ev'.widgets = render.table
  BY DEF Becomes, Shape
<1>2. Live' = s
  BY <1>1 DEF Live
<1>3. Here' = Here + 1 /\ Here' # 1
  BY DEF Here
<1>4. Stage(Here)' = s
  BY <1>3 DEF Stage
<1> QED BY <1>1, <1>2, <1>3, <1>4

(* Before the turn of a block the run is where the cache before it ends.   *)
LEMMA SameStart ==
  ASSUME Hypotheses, IInv, InProgress
  PROVE  /\ Len(out) \in Nat /\ Len(cache) \in Nat /\ Here = Len(out) + 1
         /\ Here \in 1..Len(render.doc.blocks) /\ render.doc \in Docs
         /\ Len(told) = Here /\ Len(out) <= Len(cache)
         /\ trace[Here] = Snapshot(Here - 1)
         /\ Current \in Blocks /\ render.table \in TablesOf(render.doc)
         /\ render.table \in Table
<1>1. /\ Len(out) \in Nat /\ Len(cache) \in Nat /\ Here = Len(out) + 1
      /\ Here \in 1..Len(render.doc.blocks) /\ render.doc \in Docs
      /\ Len(told) = Here /\ Running /\ RenderSound
  BY AppendFacts DEF IInv, Shape, InProgress, Here
<1>2. Len(out) <= Len(cache)
  BY <1>1 DEF RenderSound
<1>3. trace[Here] = Snapshot(Here - 1)
  <2>1. CASE Here = 1
    BY <1>1, <2>1 DEF RenderSound, IsRunOf, Snapshot
  <2>2. CASE Here > 1
    BY <1>1, <1>2, <2>2 DEF RenderSound
  <2> QED BY <1>1, <2>1, <2>2
<1>4. Current \in Blocks
  BY <1>1, BlocksOf DEF Current, Hypotheses
<1>5. render.table \in TablesOf(render.doc)
  BY <1>1 DEF IInv, Shape
<1>6. render.table \in Table
  BY <1>1, <1>5, TableType DEF Hypotheses
<1> QED BY <1>1, <1>2, <1>3, <1>4, <1>5, <1>6

LEMMA ReplayKeeps == ASSUME Hypotheses, IInv, Replay PROVE IInv'
<1> DEFINE entry == cache[Here]
           th == entry.snapshot.th
           state == State(entry.snapshot.ev.env, th)
           doc == render.doc
           table == render.table
<1>1. /\ InProgress /\ Here <= Len(cache) /\ UNCHANGED <<cache, above, render, told, origin>>
      /\ Becomes(state, table)
      /\ out' = Append(out, entry.output)
      /\ trace' = Append(trace, state)
  BY DEF Replay, Emit, RestoreThread, Refresh
<1>2. /\ Here \in 1..Len(cache) /\ Here \in 1..Len(doc.blocks) /\ Len(out) \in Nat
      /\ Len(out) = Here - 1 /\ doc \in Docs /\ Len(cache) \in Nat /\ Len(told) = Here
  BY <1>1, SameStart
<1>3. RenderSound /\ CacheSound /\ Running /\ Shape /\ state = Snapshot(Here)
  BY <1>1, <1>2 DEF IInv, Snapshot, InProgress
<1>4. trace[Here] = Snapshot(Here - 1)
  BY <1>1, SameStart
<1>5. EntryValid(entry, Current, table)
  BY <1>2, <1>3 DEF RenderSound, Current
<1> DEFINE t == above[Here].table
           led == Said(above[Here].prose, trace[Here], t)
<1>6. PICK b \in Blocks :
        /\ entry.hash = b.src
        /\ state = After(b, led, t)
        /\ entry.output = Output(b, state)
        /\ b.kind = "code" =>
             \A w \in ReadsOf(b.src, led.env, t) :
               w \in DOMAIN entry.reads /\ entry.reads[w] = t[w]
  <2>1. EntrySound(Here) /\ RanOn(Here) = led
    BY <1>2, <1>3, <1>4 DEF CacheSound, RanOn
  <2> QED BY <1>3, <2>1, Zenon DEF EntrySound
<1>7. Current \in Blocks /\ table \in Table /\ t \in Table
  BY <1>1, <1>2, <1>3, SameStart DEF CacheSound
<1>8. b.src = Current.src /\ b.kind = Current.kind /\ b.dir = Current.dir
  BY <1>5, <1>6, <1>7 DEF EntryValid, Hypotheses, SteadyBlocks
<1>9. state = After(Current, led, table)
  <2>1. b.kind = "code" => \A w \in ReadsOf(b.src, led.env, t) : t[w] = table[w]
    BY <1>5, <1>6 DEF EntryValid
  <2>2. After(Current, led, table) = After(b, led, t)
    BY <1>7, <1>8, <2>1, SameExecution
  <2> QED BY <1>6, <2>2
<1>10. entry.output = Output(Current, state)
  BY <1>6, <1>8 DEF Output
<1>11. state = State(state.env, state.th)
  BY DEF State
<1> HIDE DEF entry, th, state, doc, table, t
<1>12. /\ IsSeq(out') /\ IsSeq(trace') /\ Len(out') = Here /\ Len(trace') = Here + 1
       /\ \A i \in 1..Here : trace'[i] = trace[i]
       /\ trace'[Here + 1] = state
       /\ IsRunOf(render.doc, render.table)'
  BY <1>1, <1>9, <1>10, RunGrows DEF table, t
<1>0. Live' = Stage(Here)' /\ Here' = Here + 1 /\ ev'.widgets = table
  BY <1>1, <1>2, <1>3, <1>11, <1>12, Left DEF table
<1>13. Shape'
  <2>1. thread' = [u \in Threads |-> thread'[u]]
    BY <1>1, <1>3 DEF Becomes, Shape
  <2>2. Running' = Running
    BY <1>1 DEF Running
  <2> QED BY <1>0, <1>1, <1>2, <1>3, <1>12, <2>1, <2>2 DEF Shape, doc, table
<1>14. \A i \in 0..Len(cache) : Snapshot(i)' = Snapshot(i)
  BY <1>1 DEF Snapshot
<1>15. CacheSound'
  <2>1. ASSUME NEW i \in 1..Len(cache) PROVE above'[i].table \in Table /\ EntrySound(i)'
    <3>1. /\ Snapshot(i)' = Snapshot(i) /\ Snapshot(i - 1)' = Snapshot(i - 1)
          /\ EntrySound(i) /\ above[i].table \in Table
      BY <1>2, <1>3, <1>14 DEF CacheSound
    <3> QED BY <1>1, <3>1 DEF EntrySound, RanOn
  <2> QED BY <1>1, <1>3, <2>1 DEF CacheSound
<1>16. RenderSound'
  <2>1. ASSUME NEW i \in 1..Len(cache)
        PROVE  IF i <= Here THEN trace'[i + 1] = Snapshot(i)
               ELSE EntryValid(cache[i], render.doc.blocks[i], render.table)
    <3>1. CASE i < Here
      <4>1. i \in 1..Len(cache) /\ i <= Len(out) /\ i + 1 \in 1..Here
        BY <1>2, <3>1
      <4>2. trace[i + 1] = Snapshot(i)
        BY <1>3, <4>1 DEF RenderSound
      <4> QED BY <1>12, <3>1, <4>1, <4>2
    <3>2. CASE i = Here
      <4>1. trace'[i + 1] = state
        BY <1>12, <3>2
      <4> QED BY <1>2, <1>3, <3>2, <4>1
    <3>3. CASE i > Here
      BY <1>2, <1>3, <3>3 DEF RenderSound
    <3> QED BY <1>2, <3>1, <3>2, <3>3
  <2>2. Here <= Len(cache) /\ Len(cache) <= Len(render.doc.blocks)
    BY <1>1, <1>3 DEF RenderSound
  <2>3. cache = <<>> => render.start = origin
    BY <1>3 DEF RenderSound
  <2>4. Len(told') = Len(out')
    BY <1>1, <1>2, <1>12
  <2> QED BY <1>0, <1>1, <1>12, <1>14, <2>1, <2>2, <2>3, <2>4 DEF RenderSound
<1> QED BY <1>13, <1>15, <1>16 DEF IInv

LEMMA ExecuteKeeps == ASSUME Hypotheses, IInv, Execute PROVE IInv'
<1> DEFINE doc == render.doc
           table == render.table
           p == doc.proses[Here]
           led == Said(p, trace[Here], table)
           after == After(Current, Live, ev.widgets)
           evaluator == [env |-> after.env, widgets |-> ev.widgets]
           reads == IF Current.kind = "code" THEN ReadsOf(Current.src, ev.env, ev.widgets)
                    ELSE {}
           output == Output(Current, after)
           new == Entry(Current, output, evaluator, after.th, reads, table)
           lead == [prose |-> p, table |-> table]
<1>1. /\ InProgress /\ Here > Len(cache)
      /\ Becomes(after, ev.widgets)
      /\ out' = Append(out, output)
      /\ cache' = Append(cache, new)
      /\ trace' = Append(trace, after)
      /\ above' = Append(above, lead)
      /\ UNCHANGED <<render, told, origin>>
  BY DEF Execute, Emit
<1>2. /\ Len(out) \in Nat /\ Len(cache) \in Nat /\ Here = Len(out) + 1
      /\ Here \in 1..Len(doc.blocks) /\ doc \in Docs /\ IsSeq(cache) /\ IsSeq(above)
      /\ Len(told) = Here /\ Len(out) <= Len(cache)
  BY <1>1, SameStart DEF IInv, Shape
<1>3. RenderSound /\ CacheSound /\ Running /\ Shape /\ Len(above) = Len(cache)
  BY <1>1 DEF IInv, InProgress, CacheSound
<1>4. Len(cache) = Len(out)
  BY <1>1, <1>2
<1>5. ev.widgets = table /\ Current \in Blocks /\ table \in TablesOf(doc) /\ table \in Table
  BY <1>1, <1>3, SameStart DEF Shape
<1>6. Live = led
  <2>1. Stage(Here) = trace[Here]
    <3>1. CASE Here = 1
      <4>1. cache = <<>>
        BY <1>2, <1>4, <3>1, SeqEmpty
      <4> QED BY <1>3, <3>1, <4>1 DEF RenderSound, IsRunOf, Stage
    <3> QED BY <3>1 DEF Stage
  <2>2. Live = Said(p, Stage(Here), table)
    BY <1>2, <1>3 DEF RenderSound
  <2> QED BY <2>1, <2>2
<1>7. /\ Becomes(after, table)
      /\ after = After(Current, led, table)
      /\ output = Output(Current, after)
      /\ ReadsOf(Current.src, ev.env, ev.widgets) = ReadsOf(Current.src, led.env, table)
  <2>1. Live.env = ev.env
    BY DEF Live, State
  <2> QED BY <1>1, <1>5, <1>6, <2>1
<1>8. after = State(after.env, after.th)
  <2>1. trace[Here] = State(trace[Here].env, trace[Here].th)
    <3>1. trace[Here] = Snapshot(Here - 1)
      BY <1>1, SameStart
    <3> QED BY <3>1 DEF Snapshot, State
  <2> QED BY <1>7, <2>1, StateParts
<1>9. /\ new.hash = Current.src /\ new.output = output
      /\ new.snapshot.ev.env = after.env /\ new.snapshot.th = after.th
      /\ Current.kind = "code" =>
           \A w \in ReadsOf(Current.src, led.env, table) :
             w \in DOMAIN new.reads /\ new.reads[w] = table[w]
  <2>1. ASSUME Current.kind = "code"
        PROVE  ReadsOf(Current.src, led.env, table) \subseteq {w \in Widgets : table[w] # None}
    BY <1>2, <1>5 DEF Hypotheses, ReadsDeclared
  <2>2. ASSUME Current.kind = "code", NEW w \in ReadsOf(Current.src, led.env, table)
        PROVE  w \in DOMAIN new.reads /\ new.reads[w] = table[w]
    <3>1. w \in reads /\ table[w] # None
      BY <1>7, <2>1, <2>2
    <3>2. new.reads = Lookup(table, {v \in reads : table[v] # None})
      BY DEF Entry, WidgetReadsWithValues
    <3> HIDE DEF reads, new
    <3> QED BY <3>1, <3>2 DEF Lookup
  <2> QED BY <2>2 DEF Entry
<1>10. lead.prose = p /\ lead.table = table
  OBVIOUS
<1> HIDE DEF doc, table, p, led, after, evaluator, reads, output, new, lead
<1>n. PICK n \in Nat : n = Here
  BY <1>2
<1>11. /\ IsSeq(cache') /\ Len(cache') = n
       /\ \A i \in 1..Len(cache) : cache'[i] = cache[i]
       /\ cache'[n] = new
       /\ IsSeq(above') /\ Len(above') = n
       /\ \A i \in 1..Len(cache) : above'[i] = above[i]
       /\ above'[n] = lead
  BY <1>1, <1>2, <1>3, <1>4, <1>n, AppendFacts
<1>12. /\ IsSeq(out') /\ IsSeq(trace') /\ Len(out') = n /\ Len(trace') = n + 1
       /\ \A i \in 1..n : trace'[i] = trace[i]
       /\ trace'[n + 1] = after
       /\ IsRunOf(render.doc, render.table)'
  <2>1. after = After(Current, Said(above'[Here].prose, trace[Here], above'[Here].table),
                      render.table)
    BY <1>7, <1>10, <1>11, <1>n DEF led, table
  <2> QED BY <1>1, <1>4, <1>7, <1>11, <1>n, <2>1, RunGrows
<1>0. Live' = Stage(Here)' /\ Here' = Here + 1 /\ ev'.widgets = table
  BY <1>1, <1>2, <1>n, <1>3, <1>7, <1>8, <1>12, Left DEF table
<1>13. Shape'
  <2>1. thread' = [u \in Threads |-> thread'[u]]
    BY <1>1, <1>3 DEF Becomes, Shape
  <2>2. Running' = Running
    BY <1>1 DEF Running
  <2> QED BY <1>0, <1>1, <1>2, <1>n, <1>3, <1>11, <1>12, <2>1, <2>2 DEF Shape, doc, table
<1>14. /\ \A i \in 0..Len(cache) : Snapshot(i)' = Snapshot(i)
       /\ Snapshot(n)' = after
  <2>1. \A i \in 0..Len(cache) : Snapshot(i)' = Snapshot(i)
    BY <1>1, <1>11 DEF Snapshot
  <2>2. Snapshot(n)' = State(after.env, after.th)
    BY <1>2, <1>n, <1>9, <1>11 DEF Snapshot
  <2> QED BY <1>8, <2>1, <2>2
<1>15. CacheSound'
  <2>1. ASSUME NEW i \in 1..Len(cache) PROVE above'[i].table \in Table /\ EntrySound(i)'
    <3>1. /\ Snapshot(i)' = Snapshot(i) /\ Snapshot(i - 1)' = Snapshot(i - 1)
          /\ EntrySound(i) /\ above[i].table \in Table
      BY <1>2, <1>n, <1>3, <1>14 DEF CacheSound
    <3> QED BY <1>11, <3>1 DEF EntrySound, RanOn
  <2>2. above'[n].table \in Table /\ EntrySound(n)'
    <3>1. Snapshot(n - 1)' = trace[Here] /\ Snapshot(n)' = after
      BY <1>1, <1>2, <1>n, <1>4, <1>14, SameStart
    <3>2. RanOn(n)' = led
      BY <1>10, <1>11, <3>1 DEF RanOn, led
    <3> QED BY <1>5, <1>7, <1>9, <1>10, <1>11, <3>1, <3>2 DEF EntrySound
  <2>3. ~origin'.hold
    BY <1>1, <1>3 DEF CacheSound
  <2> QED BY <1>2, <1>n, <1>4, <1>11, <2>1, <2>2, <2>3 DEF CacheSound
<1>16. RenderSound'
  <2>1. ASSUME NEW i \in 1..n PROVE trace'[i + 1] = Snapshot(i)'
    <3>1. CASE i < n
      <4>1. i \in 1..Len(cache) /\ i <= Len(out) /\ i + 1 \in 1..n
        BY <1>2, <1>n, <1>4, <3>1
      <4>2. trace[i + 1] = Snapshot(i)
        BY <1>3, <4>1 DEF RenderSound
      <4> QED BY <1>12, <1>14, <4>1, <4>2
    <3>2. CASE i = n
      BY <1>12, <1>14, <3>2
    <3> QED BY <1>2, <1>n, <3>1, <3>2
  <2>2. Len(told') = Len(out') /\ n <= Len(render.doc.blocks)
    BY <1>1, <1>2, <1>n, <1>12 DEF doc
  <2>3. cache' # <<>>
    <3> HIDE DEF Here
    <3> QED BY <1>2, <1>n, <1>11
  <2> QED BY <1>0, <1>1, <1>n, <1>11, <1>12, <2>1, <2>2, <2>3 DEF RenderSound
<1> QED BY <1>13, <1>15, <1>16 DEF IInv

-----------------------------------------------------------------------------
(* A render ends.                                                          *)

LEMMA LeaveKeeps ==
  ASSUME Hypotheses, IInv, Leave, UNCHANGED cache,
         thread' = [t \in Threads |-> thread'[t]]
  PROVE  IInv'
<1>1. /\ ~Running' /\ out' = <<>> /\ told' = <<>> /\ trace' = <<>>
      /\ UNCHANGED <<cache, above, origin>>
  BY DEF Leave, Running, Idle
<1>2. <<>> \in Seq({})
  OBVIOUS
<1>3. Shape'
  BY <1>1, <1>2 DEF IInv, Shape, IsSeq
<1>4. CacheSound'
  BY <1>1 DEF IInv, CacheSound, EntrySound, Snapshot, RanOn
<1> QED BY <1>1, <1>3, <1>4 DEF IInv, RenderSound

LEMMA StepKeeps == ASSUME Hypotheses, IInv, [Next]_vars PROVE IInv'
<1>1. ASSUME NEW t \in Threads, NEW doc \in Docs, NEW table \in TablesOf(doc),
             NEW force \in 0..Len(doc.blocks), Begin(t, doc, table, force)
      PROVE  IInv'
  BY <1>1, BeginKeeps
<1>2. CASE Finish \/ AbandonBetween
  <2>1. thread' = [t \in Threads |-> thread'[t]]
    BY <1>2 DEF Finish, AbandonBetween, IInv, Shape
  <2> QED BY <1>2, <2>1, LeaveKeeps DEF Finish, AbandonBetween, KeptOnCancel
<1>3. CASE AbandonInBlock
  <2>1. thread' = [t \in Threads |-> thread'[t]]
    BY <1>3 DEF AbandonInBlock, IInv, Shape
  <2> QED BY <1>3, <2>1, LeaveKeeps DEF AbandonInBlock, KeptOnCancel
<1>4. CASE UNCHANGED vars
  BY <1>4 DEF IInv, Shape, CacheSound, RenderSound, EntrySound, Snapshot, RanOn, IsRunOf,
     Led, Stage, Live, Running, Here, vars, historyVars
<1> QED
  BY <1>1, <1>2, <1>3, <1>4, TellKeeps, ReplayKeeps, ExecuteKeeps DEF Next

LEMMA InitSound == ASSUME Hypotheses, Init PROVE IInv
<1>1. <<>> \in Seq({}) /\ Len(<<>>) = 0
  OBVIOUS
<1>2. thread = [t \in Threads |-> thread[t]] /\ ~Running
  BY DEF Init, Running, Idle
<1>3. ~origin.hold
  BY DEF Init, Fresh
<1> QED BY <1>1, <1>2, <1>3 DEF Init, IInv, Shape, CacheSound, RenderSound, IsSeq

(* Whatever was edited, dragged, run and cancelled before, a render shows  *)
(* block by block and prose by prose what executing the document from the  *)
(* top would show, prose that acts and was edited counted by a cached      *)
(* block as it stood when the block ran; provided that what a block reads  *)
(* depends only on the values it reads, that it reads declared widgets,    *)
(* and that its fence's directives come with its source.                   *)
THEOREM CacheTransparent ==
  ASSUME CacheAssumption, SteadyBlocks, ReadsDeclared, ReadsLocal
  PROVE  Spec => []Transparent
<1> Hypotheses
  BY DEF Hypotheses
<1>1. Init => IInv
  BY InitSound
<1>2. IInv /\ [Next]_vars => IInv'
  BY StepKeeps
<1>3. IInv => Transparent
  BY DEF IInv, RenderSound, Transparent
<1> QED BY <1>1, <1>2, <1>3, PTL DEF Spec

-----------------------------------------------------------------------------
(* Types.  All but what is in the cache is typed by Shape or here.         *)

CacheTypes ==
  \A i \in 1..Len(cache) : /\ cache[i].hash \in Sources
                           /\ cache[i].snapshot.th \in ThreadState
                           /\ DOMAIN cache[i].reads \subseteq Widgets

Lead == [prose : Proses, table : Table]

Types ==
  /\ thread \in [Threads -> ThreadState] /\ origin \in ThreadState
  /\ Running => render.start \in ThreadState
  /\ renders \in 0..MaxRenders /\ CacheTypes /\ above \in Seq(Lead)

LEMMA ThreadTypes ==
  ASSUME NEW th \in ThreadState, NEW src
  PROVE  DrawOn(src, th) \in ThreadState /\ ResetFigure(th) \in ThreadState
<1>1. /\ th.seed \in Threads \cup {Seeded} /\ th.drawn \in Nat
      /\ th.hold \in BOOLEAN /\ th.stored \in BOOLEAN
  BY DEF ThreadState
<1>2. /\ (IF src \in Seeds THEN Seeded ELSE th.seed) \in Threads \cup {Seeded}
      /\ (IF src \in Seeds THEN 0 ELSE IF src \in Draws THEN th.drawn + 1 ELSE th.drawn) \in Nat
  BY <1>1
<1>3. (th.hold \/ src \in Holds) \in BOOLEAN /\ (th.stored \/ src \in Handles) \in BOOLEAN
  BY Zenon
<1>4. DrawOn(src, th) \in ThreadState
  BY <1>2, <1>3, Zenon DEF DrawOn, ThreadState
<1>5. ResetFigure(th) \in ThreadState
  BY <1>1 DEF ResetFigure, ThreadState
<1> QED BY <1>4, <1>5

LEMMA SourceTypes ==
  ASSUME CacheAssumption, NEW b \in Blocks
  PROVE  b.src \in Sources
<1> DEFINE Block == [kind : {"code", "mermaid"}, src : Sources, dir : Directives]
<1>1. PICK doc \in Docs : b \in {doc.blocks[i] : i \in DOMAIN doc.blocks}
  BY DEF Blocks
<1>2. doc.blocks \in Seq(Block)
  BY DEF CacheAssumption
<1>3. b \in Block
  <2> HIDE DEF Block
  <2> QED BY <1>1, <1>2
<1> QED BY <1>3

(* Running a source or an expression leaves a thread state.                *)
LEMMA RanTypes ==
  ASSUME NEW s, s.th \in ThreadState, NEW p, NEW b, NEW table
  PROVE  Said(p, s, table).th \in ThreadState /\ After(b, s, table).th \in ThreadState
<1>1. \A src : Ran(src, s, table).th = DrawOn(src, s.th)
  BY DEF Ran, State
<1>2. \A src : Ran(src, s, table).th \in ThreadState
  BY <1>1, ThreadTypes
<1> QED BY <1>2, Zenon DEF Said, After

LEMMA TypesKept == ASSUME Hypotheses, IInv, Types, [Next]_vars PROVE Types'
<1> USE DEF historyVars
<1>0. MaxRenders \in Nat /\ Shape /\ Len(cache) \in Nat
  BY AppendFacts DEF Hypotheses, CacheAssumption, IInv, Shape
<1>1. ASSUME NEW t \in Threads, NEW doc \in Docs, NEW table \in TablesOf(doc),
             NEW force \in 0..Len(doc.blocks), Begin(t, doc, table, force)
      PROVE  Types'
  <2>1. PICK k \in 0..Len(cache) : /\ cache' = Kept(Clamp(k, force))
                                  /\ above' = SubSeq(above, 1, Clamp(k, force))
    BY <1>1 DEF Begin
  <2>2. Clamp(k, force) \in 0..Len(cache) /\ Clamp(k, force) \in Nat
    BY <1>0 DEF Clamp, Hypotheses, CacheAssumption
  <2>3. Len(cache') = Clamp(k, force) /\ \A i \in 1..Clamp(k, force) : cache'[i] = cache[i]
    BY <1>0, <2>1, <2>2, SubSeqFacts DEF Kept, Shape
  <2>4. CacheTypes'
    BY <2>2, <2>3, <1>0 DEF Types, CacheTypes
  <2>5. ResetFigure(thread[t]) \in ThreadState
    BY ThreadTypes DEF Types
  <2>6. thread' \in [Threads -> ThreadState] /\ origin' \in ThreadState
    BY <1>1, <2>5 DEF Begin, Types
  <2>7. renders' \in 0..MaxRenders
    BY <1>0, <1>1 DEF Begin, Types
  <2>8. above' \in Seq(Lead)
    <3>1. above \in Seq(Lead) /\ Len(above) = Len(cache)
      BY DEF Types, IInv, CacheSound
    <3> DEFINE n == Clamp(k, force)
    <3> HIDE DEF n
    <3>2. n \in 0..Len(above) /\ above' = SubSeq(above, 1, n)
      BY <2>1, <2>2, <3>1 DEF n
    <3> QED BY <3>1, <3>2
  <2>9. render'.start \in ThreadState
    BY <1>1, <2>5 DEF Begin
  <2> QED BY <2>4, <2>6, <2>7, <2>8, <2>9 DEF Types
<1>7. CASE Tell
  <2>1. /\ UNCHANGED <<cache, above, origin, renders, render>> /\ Running
        /\ Becomes(Said(render.doc.proses[Here], Live, ev.widgets), ev.widgets)
    BY <1>7 DEF Tell
  <2>2. render.thr \in Threads /\ Live.th \in ThreadState
    BY <1>0, <2>1 DEF Shape, Types, Live, State
  <2>3. thread' \in [Threads -> ThreadState]
    BY <2>1, <2>2, RanTypes DEF Types, Becomes
  <2> QED BY <2>1, <2>3 DEF Types, CacheTypes, Running
<1>2. CASE Replay
  <2>1. /\ UNCHANGED <<cache, above, origin, renders, render>> /\ Here \in 1..Len(cache)
        /\ Running
        /\ thread' = [thread EXCEPT ![render.thr] = cache[Here].snapshot.th]
    BY <1>0, <1>2, AppendFacts
       DEF Replay, Emit, Becomes, RestoreThread, Refresh, State, Here, InProgress, Shape
  <2>2. cache[Here].snapshot.th \in ThreadState
    BY <2>1 DEF Types, CacheTypes
  <2>3. thread' \in [Threads -> ThreadState]
    BY <2>1, <2>2 DEF Types
  <2> QED BY <2>1, <2>3 DEF Types, CacheTypes, Running
<1>3. CASE Execute
  <2> DEFINE after == After(Current, Live, ev.widgets)
             evaluator == [env |-> after.env, widgets |-> ev.widgets]
             reads == IF Current.kind = "code" THEN ReadsOf(Current.src, ev.env, ev.widgets)
                      ELSE {}
             output == Output(Current, after)
             new == Entry(Current, output, evaluator, after.th, reads, render.table)
             lead == [prose |-> render.doc.proses[Here], table |-> render.table]
  <2>1. /\ cache' = Append(cache, new) /\ above' = Append(above, lead)
        /\ UNCHANGED <<origin, renders, render>>
        /\ thread' = [thread EXCEPT ![render.thr] = after.th]
        /\ InProgress
    BY <1>3 DEF Execute, Emit, Becomes
  <2>2. /\ render.thr \in Threads /\ render.doc \in Docs /\ render.table \in TablesOf(render.doc)
        /\ ev.widgets = render.table /\ Current \in Blocks /\ render.table \in Table
        /\ Here \in 1..Len(render.doc.blocks)
    BY <1>0, <2>1, SameStart DEF Shape, InProgress
  <2>3. after.th \in ThreadState
    <3>1. Live.th \in ThreadState
      BY <2>2 DEF Types, Live, State
    <3> QED BY <3>1, RanTypes
  <2>4. reads \subseteq Widgets
    BY <2>2 DEF Hypotheses, ReadsDeclared
  <2>5. /\ new.hash \in Sources /\ new.snapshot.th \in ThreadState
        /\ DOMAIN new.reads \subseteq Widgets
    <3>1. new.hash = Current.src /\ new.snapshot.th = after.th
      BY DEF Entry
    <3>2. DOMAIN new.reads = {w \in reads : render.table[w] # None}
      BY DEF Entry, WidgetReadsWithValues, Lookup
    <3> QED BY <2>2, <2>3, <2>4, <3>1, <3>2, SourceTypes DEF Hypotheses
  <2>8. lead \in Lead
    <3>1. /\ render.doc.proses \in Seq(Proses) /\ Len(render.doc.blocks) \in Nat
          /\ Len(render.doc.proses) = Len(render.doc.blocks) + 1
      BY <2>2, ProsesOf DEF Hypotheses
    <3>2. Here \in 1..Len(render.doc.proses)
      BY <2>2, <3>1
    <3>3. render.doc.proses[Here] \in Proses
      BY <3>1, <3>2
    <3> QED BY <2>2, <3>3 DEF Lead
  <2> HIDE DEF new, after, lead
  <2>6. CacheTypes'
    BY <1>0, <2>1, <2>5, AppendFacts DEF Types, CacheTypes, Shape
  <2>7. thread' \in [Threads -> ThreadState]
    BY <2>1, <2>2, <2>3 DEF Types
  <2>9. above' \in Seq(Lead)
    BY <2>1, <2>8 DEF Types
  <2> QED BY <2>1, <2>6, <2>7, <2>9 DEF Types, Running, InProgress
<1>4. CASE Finish \/ AbandonBetween
  BY <1>4 DEF Finish, AbandonBetween, Leave, KeptOnCancel, Types, CacheTypes, Running, Idle
<1>5. CASE AbandonInBlock
  <2>1. /\ UNCHANGED <<cache, above, origin, renders>> /\ Running /\ ~Running'
        /\ thread' = [thread EXCEPT ![render.thr] = DrawOn(Current.src, @)]
    BY <1>5 DEF AbandonInBlock, Leave, KeptOnCancel, InProgress, Running, Idle
  <2>2. render.thr \in Threads /\ DrawOn(Current.src, thread[render.thr]) \in ThreadState
    BY <1>0, <2>1, ThreadTypes DEF Shape, Types
  <2>3. thread' \in [Threads -> ThreadState]
    BY <2>1, <2>2 DEF Types
  <2> QED BY <2>1, <2>3 DEF Types, CacheTypes
<1>6. CASE UNCHANGED vars
  BY <1>6 DEF vars, Types, CacheTypes, Running
<1> QED BY <1>1, <1>2, <1>3, <1>4, <1>5, <1>6, <1>7 DEF Next

(* The state keeps its types, whatever is edited, dragged, forced and      *)
(* cancelled, and while a render runs its evaluator reads the widget table *)
(* of this render, never the one a restored state was captured with.       *)
THEOREM TypeCorrect ==
  ASSUME CacheAssumption, SteadyBlocks, ReadsDeclared, ReadsLocal
  PROVE  Spec => []TypeOK
<1> Hypotheses
  BY DEF Hypotheses
<1>1. Init => IInv /\ Types
  <2> SUFFICES ASSUME Init PROVE Types
    BY InitSound
  <2>1. \A t \in Threads : Fresh(t) \in ThreadState
    BY DEF Fresh, ThreadState
  <2>2. ~Running
    BY DEF Init, Running, Idle
  <2> QED BY <2>1, <2>2 DEF Init, Types, CacheTypes, Hypotheses, CacheAssumption
<1>2. IInv /\ Types /\ [Next]_vars => IInv' /\ Types'
  BY StepKeeps, TypesKept
<1>3. IInv /\ Types => TypeOK
  <2> SUFFICES ASSUME IInv, Types PROVE TypeOK
    OBVIOUS
  <2>1. Running => render.table \in Table
    BY TableType DEF IInv, Shape, Hypotheses
  <2>2. DOMAIN cache = 1..Len(cache)
    BY AppendFacts DEF IInv, Shape
  <2>3. above \in Seq([prose : Proses, table : Table])
    BY DEF Types, Lead
  <2> QED BY <2>1, <2>2, <2>3 DEF IInv, Shape, Types, CacheTypes, TypeOK
<1> QED BY <1>1, <1>2, <1>3, PTL DEF Spec

-----------------------------------------------------------------------------
(* Histories.                                                              *)

SeqStates(states) == \A i \in 1..Len(states) : IsSeq(states[i].env)

LEMMA RanContinues ==
  ASSUME NEW src, NEW s, NEW table, IsSeq(s.env)
  PROVE  IsSeq(Ran(src, s, table).env) /\ Continues(Ran(src, s, table).env, s.env)
<1> DEFINE x == Execution(src, s.env, table, s.th)
<1>1. Ran(src, s, table).env = Append(s.env, x)
  BY DEF Ran, State
<1> HIDE DEF x
<1> QED BY <1>1, AppendFacts DEF Continues

(* The prose before a block, and the block, only add to the history.       *)
LEMMA AfterContinues ==
  ASSUME NEW b, NEW p, NEW s, NEW t, NEW table, IsSeq(s.env)
  PROVE  LET after == After(b, Said(p, s, t), table)
         IN  IsSeq(after.env) /\ Continues(after.env, s.env)
<1> DEFINE said == Said(p, s, t)
           after == After(b, said, table)
<1>1. Continues(s.env, s.env) /\ Len(s.env) \in Nat
  BY AppendFacts DEF Continues
<1>2. IsSeq(said.env) /\ Continues(said.env, s.env)
  BY <1>1, RanContinues DEF Said
<1>3. Len(said.env) \in Nat /\ Continues(said.env, said.env)
  BY <1>2, AppendFacts DEF Continues
<1> HIDE DEF said
<1>4. IsSeq(after.env) /\ Continues(after.env, said.env)
  BY <1>2, <1>3, RanContinues DEF After
<1>5. Len(after.env) \in Nat
  BY <1>4, AppendFacts
<1> HIDE DEF after
<1>6. Continues(after.env, s.env)
  BY <1>1, <1>2, <1>3, <1>4, <1>5 DEF Continues
<1> QED BY <1>4, <1>6 DEF after, said

LEMMA GrowsByOne ==
  ASSUME NEW old, NEW new, NEW n \in Nat \ {0}, Len(old) = n, Len(new) = n + 1,
         \A i \in 1..n : new[i] = old[i],
         Grows(old), SeqStates(old),
         IsSeq(new[n + 1].env), Continues(new[n + 1].env, old[n].env)
  PROVE  Grows(new) /\ SeqStates(new)
<1>1. SeqStates(new)
  BY DEF SeqStates
<1>2. ASSUME NEW i \in 1..(n + 1), NEW j \in 1..i
      PROVE  Continues(new[i].env, new[j].env)
  <2>1. CASE i <= n
    BY <2>1 DEF Grows
  <2>2. CASE i = n + 1 /\ j = n + 1
    <3>1. Len(new[i].env) \in Nat
      BY <2>2, AppendFacts
    <3> QED BY <2>2, <3>1 DEF Continues
  <2>3. CASE i = n + 1 /\ j <= n
    <3>1. Continues(old[n].env, old[j].env) /\ new[j] = old[j]
      BY <2>3 DEF Grows
    <3>2. Len(old[j].env) \in Nat /\ Len(old[n].env) \in Nat /\ Len(new[i].env) \in Nat
      BY <2>2, <2>3, AppendFacts DEF SeqStates
    <3> QED BY <2>3, <3>1, <3>2 DEF Continues
  <2> QED BY <2>1, <2>2, <2>3
<1> QED BY <1>1, <1>2 DEF Grows

(* The state that the block whose turn it is runs, or ran, on.             *)
LedHere == Said(above'[Here].prose, trace[Here], above'[Here].table)

(* One more block, replayed or executed, is one more state of the run.     *)
LEMMA RunStep ==
  ASSUME Hypotheses, IInv, IInv', Replay \/ Execute
  PROVE  /\ Running /\ Running' /\ Here \in Nat /\ Here >= 1
         /\ Len(out) = Here - 1 /\ Here <= Len(render.doc.blocks)
         /\ UNCHANGED <<render, prev, told>>
         /\ Len(trace) = Here /\ Len(trace') = Here + 1 /\ Len(out') = Here
         /\ \A i \in 1..Here : trace'[i] = trace[i]
         /\ \A i \in 1..Len(out) : above'[i] = above[i]
         /\ trace'[Here + 1] = After(Current, LedHere, render.table)
<1>1. /\ InProgress /\ UNCHANGED <<render, prev, told>> /\ \E o : out' = Append(out, o)
      /\ \E x : trace' = Append(trace, x)
      /\ UNCHANGED above \/ \E x : above' = Append(above, x)
  BY DEF Replay, Execute, Emit
<1>2. /\ Running /\ Running' /\ Shape /\ Shape' /\ IsRunOf(render.doc, render.table)'
  BY <1>1 DEF InProgress, IInv, RenderSound, Running
<1>3. Len(out) \in Nat /\ Here \in Nat /\ Here >= 1 /\ Len(out) = Here - 1 /\ Len(trace) = Here
  BY <1>2, AppendFacts DEF Shape, Here
<1>4. Len(trace') = Here + 1 /\ \A i \in 1..Here : trace'[i] = trace[i]
  BY <1>1, <1>2, <1>3, AppendFacts DEF Shape
<1>5. Len(out') = Here /\ DOMAIN out' = 1..Here
  <2>1. PICK o : out' = Append(out, o)
    BY <1>1
  <2>2. Len(out') = Len(out) + 1 /\ IsSeq(out')
    BY <1>2, <2>1, AppendFacts DEF Shape
  <2> QED BY <1>3, <2>2, AppendFacts
<1>6. trace'[Here + 1] = After(Current, LedHere, render.table)
  <2>1. PICK n \in Nat : n = Here
    BY <1>3
  <2>2. trace'[n + 1] = After(render'.doc.blocks[n], Led(n)', render'.table)
    BY <1>2, <1>3, <1>5, <2>1 DEF IsRunOf
  <2>3. trace'[n] = trace[n]
    BY <1>3, <1>4, <2>1
  <2>4. Led(n)' = LedHere
    BY <2>1, <2>3 DEF Led, LedHere
  <2> QED BY <1>1, <2>1, <2>2, <2>4 DEF Current
<1>7. \A i \in 1..Len(out) : above'[i] = above[i]
  <2>1. IsSeq(above) /\ Len(out) <= Len(above) /\ Len(above) \in Nat
    BY <1>2, AppendFacts DEF Shape, IInv, CacheSound, RenderSound
  <2>2. ASSUME NEW x, above' = Append(above, x)
        PROVE  \A i \in 1..Len(above) : above'[i] = above[i]
    BY <2>1, <2>2, AppendFacts
  <2>3. \A i \in 1..Len(above) : above'[i] = above[i]
    BY <1>1, <2>2
  <2> QED BY <1>3, <2>1, <2>3
<1> QED BY <1>1, <1>2, <1>3, <1>4, <1>5, <1>6, <1>7 DEF InProgress

-----------------------------------------------------------------------------
(* No needless run.                                                        *)

Recorded ==
  /\ ReadsSeen /\ RunRecorded /\ MissesHaveReasons
  /\ Running => SeqStates(trace)
  /\ ~Running /\ prev # Idle => SeqStates(prev.trace) /\ IsSeq(prev.trace)

(* An entry of the previous render that is not valid any more is a reason  *)
(* for its block and for all below.                                        *)
LEMMA InvalidIsReason ==
  ASSUME NEW doc, NEW table, NEW j \in Nat, NEW i \in Nat, 1 <= j, j <= i, i < Len(prev.trace),
         Len(prev.trace) \in Nat, SeqStates(prev.trace),
         Grows(prev.trace), CachedRun(prev.doc, prev.trace, Len(prev.trace) - 1), ReadsSeen,
         ~EntryValid(cache[j], doc.blocks[j], table),
         render'.doc = doc, render'.table = table, prev' = prev, Len(cache) \in Nat
  PROVE  Reason(i)'
<1>1. /\ j \in 1..Len(cache) /\ cache[j].hash = prev.doc.blocks[j].src
      /\ prev.trace[j + 1].env = cache[j].snapshot.ev.env
  BY DEF CachedRun
<1>2. CASE cache[j].hash # doc.blocks[j].src
  BY <1>1, <1>2 DEF Reason
<1>3. CASE cache[j].hash = doc.blocks[j].src
  <2>1. PICK w \in DOMAIN cache[j].reads : table[w] # cache[j].reads[w]
    BY <1>3 DEF EntryValid
  <2>2. SeenIn(cache[j].snapshot.ev.env, w, cache[j].reads[w])
    BY <1>1, <2>1 DEF ReadsSeen
  <2>3. PICK e \in 1..Len(prev.trace[j + 1].env) :
          /\ prev.trace[j + 1].env[e].src \in Sources
          /\ w \in DOMAIN prev.trace[j + 1].env[e].seen
          /\ prev.trace[j + 1].env[e].seen[w] = cache[j].reads[w]
    BY <1>1, <2>2 DEF SeenIn
  <2> DEFINE m == Len(prev.trace)
  <2>9. j + 1 \in 1..m /\ i + 1 \in 1..m /\ j + 1 \in 1..(i + 1)
    OBVIOUS
  <2>4. Continues(prev.trace[i + 1].env, prev.trace[j + 1].env)
    BY <2>9 DEF Grows
  <2>5. Len(prev.trace[j + 1].env) \in Nat /\ Len(prev.trace[i + 1].env) \in Nat
    <3>1. IsSeq(prev.trace[j + 1].env) /\ IsSeq(prev.trace[i + 1].env)
      BY <2>9 DEF SeqStates
    <3> QED BY <3>1, AppendFacts
  <2>6. /\ e \in 1..Len(prev.trace[i + 1].env)
        /\ prev.trace[i + 1].env[e] = prev.trace[j + 1].env[e]
    <3> DEFINE early == prev.trace[j + 1].env
               late == prev.trace[i + 1].env
    <3>1. /\ Len(early) \in Nat /\ Len(late) \in Nat /\ e \in 1..Len(early)
          /\ Len(early) <= Len(late) /\ \A x \in 1..Len(early) : late[x] = early[x]
      BY <2>3, <2>4, <2>5 DEF Continues
    <3> HIDE DEF early, late
    <3>2. e \in 1..Len(late) /\ late[e] = early[e]
      BY <3>1
    <3> QED BY <3>2 DEF early, late
  <2>7. /\ prev.trace[i + 1].env[e].src \in Sources
        /\ w \in DOMAIN prev.trace[i + 1].env[e].seen
        /\ table[w] # prev.trace[i + 1].env[e].seen[w]
    BY <2>1, <2>3, <2>6
  <2> QED BY <2>6, <2>7 DEF Reason
<1> QED BY <1>2, <1>3

LEMMA BeginRecords ==
  ASSUME Hypotheses, IInv, Recorded, NEW t \in Threads, NEW doc \in Docs,
         NEW table \in TablesOf(doc), NEW force \in 0..Len(doc.blocks),
         Begin(t, doc, table, force)
  PROVE  Recorded'
<1>1. /\ render' = [thr |-> t, doc |-> doc, table |-> table, force |-> force,
                     start |-> ResetFigure(thread[t])]
      /\ ~Running /\ out' = <<>> /\ trace' = <<State(<<>>, origin')>> /\ prev' = prev
  BY DEF Begin
<1>2. PICK k \in 0..Len(cache) : ValidPrefix(doc, table, k) /\ cache' = Kept(Clamp(k, force))
  BY DEF Begin
<1> DEFINE n == Clamp(k, force)
<1>3. /\ n \in 0..Len(cache) /\ n <= k /\ n \in Nat /\ k \in Nat /\ force \in Nat
      /\ Len(doc.blocks) \in Nat /\ IsSeq(cache) /\ Len(cache) \in Nat
      /\ n = force \/ n = k
  BY <1>2, AppendFacts DEF Clamp, Hypotheses, CacheAssumption, IInv, Shape
<1>4. /\ Len(cache') = n /\ \A i \in 1..n : cache'[i] = cache[i]
  BY <1>2, <1>3, SubSeqFacts DEF Kept
<1>5. /\ Running' /\ render'.doc = doc /\ render'.table = table /\ render'.force = force
  BY <1>1 DEF Running, Hypotheses, CacheAssumption
<1>6. ReadsSeen'
  BY <1>3, <1>4 DEF Recorded, ReadsSeen
<1>7. /\ Len(trace') = 1 /\ Len(out') = 0 /\ IsSeq(trace'[1].env) /\ trace'[1].env = <<>>
  <2>1. trace'[1].env = <<>> /\ <<>> \in Seq({})
    BY <1>1 DEF State
  <2> QED BY <1>1, <2>1 DEF IsSeq
<1>8. SeqStates(trace') /\ Grows(trace')
  BY <1>7 DEF SeqStates, Grows, Continues
<1>9. CachedRun(render.doc, trace, Len(out))'
  BY <1>3, <1>4, <1>7 DEF CachedRun
<1>10. ASSUME NEW i \in (n + 1)..Len(doc.blocks) PROVE Reason(i)'
  <2>1. i \in Nat /\ i > n /\ i <= Len(doc.blocks)
    BY <1>3, <1>10
  <2>2. CASE n = force
    <3>1. render'.force < i
      BY <1>5, <2>1, <2>2
    <3> QED BY <3>1 DEF Reason
  <2>3. CASE prev = Idle \/ i >= Len(prev.trace)
    <3>1. prev' = Idle \/ i >= Len(prev'.trace)
      BY <1>1, <2>3
    <3> QED BY <3>1 DEF Reason, Idle
  <2>4. CASE n = k /\ ~(prev = Idle \/ i >= Len(prev.trace))
    <3>1. /\ Len(prev.trace) \in Nat /\ SeqStates(prev.trace) /\ Grows(prev.trace)
          /\ CachedRun(prev.doc, prev.trace, Len(prev.trace) - 1)
      BY <1>1, <2>4, AppendFacts DEF Recorded, RunRecorded
    <3>2. i < Len(prev.trace) /\ i <= Len(cache)
      BY <1>3, <2>1, <2>4, <3>1 DEF CachedRun
    <3>3. ~EntryValid(cache[k + 1], doc.blocks[k + 1], table)
      BY <1>2, <1>3, <2>1, <2>4, <3>2 DEF ValidPrefix
    <3> HIDE DEF n
    <3>4. k + 1 \in Nat /\ 1 <= k + 1 /\ k + 1 <= i
      BY <1>3, <2>1, <2>4
    <3>5. ReadsSeen /\ prev' = prev
      BY <1>1 DEF Recorded
    <3> QED BY <1>3, <1>5, <2>1, <3>1, <3>2, <3>3, <3>4, <3>5, InvalidIsReason
  <2> QED BY <1>3, <2>2, <2>3, <2>4
<1>11. MissesHaveReasons'
  BY <1>4, <1>5, <1>10 DEF MissesHaveReasons
<1> QED BY <1>5, <1>6, <1>8, <1>9, <1>11 DEF Recorded, RunRecorded

LEMMA ReplayRecords ==
  ASSUME Hypotheses, IInv, IInv', Recorded, Replay
  PROVE  Recorded'
<1>1. /\ Running /\ Running' /\ Here \in Nat /\ Here >= 1
      /\ Len(out) = Here - 1 /\ Here <= Len(render.doc.blocks)
      /\ UNCHANGED <<render, prev>>
      /\ Len(trace) = Here /\ Len(trace') = Here + 1 /\ Len(out') = Here
      /\ \A i \in 1..Here : trace'[i] = trace[i]
      /\ trace'[Here + 1] = After(Current, LedHere, render.table)
  BY RunStep
<1>2. UNCHANGED cache /\ Here <= Len(cache) /\ Len(cache) \in Nat
  BY AppendFacts DEF Replay, IInv, Shape
<1>3. /\ SeqStates(trace) /\ Grows(trace) /\ CachedRun(render.doc, trace, Len(out))
  BY <1>1 DEF Recorded, RunRecorded
<1>4. IsSeq(trace'[Here + 1].env) /\ Continues(trace'[Here + 1].env, trace[Here].env)
  <2>1. IsSeq(trace[Here].env)
    BY <1>1, <1>3 DEF SeqStates
  <2> QED BY <1>1, <2>1, AfterContinues DEF LedHere
<1>5. Grows(trace') /\ SeqStates(trace')
  BY <1>1, <1>3, <1>4, GrowsByOne
<1>6. cache[Here].hash = render.doc.blocks[Here].src
  BY <1>1, <1>2 DEF IInv, RenderSound, EntryValid
<1>7. trace'[Here + 1].env = cache[Here].snapshot.ev.env
  <2>0. PICK n \in Nat : n = Here
    BY <1>1
  <2>1. trace'[n + 1] = Snapshot(n)'
    BY <1>1, <1>2, <2>0 DEF IInv, RenderSound
  <2> QED BY <1>1, <1>2, <2>0, <2>1 DEF Snapshot, State
<1>8. CachedRun(render.doc, trace, Len(out))'
  <2>1. PICK n \in Nat : n = Here /\ n >= 1 /\ Len(out') = n /\ Len(out) = n - 1
    BY <1>1
  <2>2. ASSUME NEW i \in 1..n
        PROVE  /\ cache[i].hash = render.doc.blocks[i].src
               /\ trace'[i + 1].env = cache[i].snapshot.ev.env
    <3>1. CASE i = n
      BY <1>6, <1>7, <2>1, <3>1
    <3>2. CASE i # n
      <4>1. i \in 1..Len(out) /\ i + 1 \in 1..Here
        BY <2>1, <3>2
      <4>2. trace'[i + 1] = trace[i + 1]
        BY <1>1, <4>1
      <4> QED BY <1>3, <4>1, <4>2 DEF CachedRun
    <3> QED BY <3>1, <3>2
  <2> QED BY <1>1, <1>2, <2>1, <2>2 DEF CachedRun
<1>9. MissesHaveReasons' /\ ReadsSeen'
  <2>1. \A i : Reason(i)' <=> Reason(i)
    BY <1>1 DEF Reason, Idle
  <2>2. MissesHaveReasons'
    BY <1>1, <1>2, <2>1 DEF Recorded, MissesHaveReasons
  <2> QED BY <1>2, <2>2 DEF Recorded, ReadsSeen
<1> QED BY <1>1, <1>5, <1>8, <1>9 DEF Recorded, RunRecorded

LEMMA ExecuteRecords ==
  ASSUME Hypotheses, IInv, IInv', Recorded, Execute
  PROVE  Recorded'
<1>1. /\ Running /\ Running' /\ Here \in Nat /\ Here >= 1
      /\ Len(out) = Here - 1 /\ Here <= Len(render.doc.blocks)
      /\ UNCHANGED <<render, prev>>
      /\ Len(trace) = Here /\ Len(trace') = Here + 1 /\ Len(out') = Here
      /\ \A i \in 1..Here : trace'[i] = trace[i]
      /\ trace'[Here + 1] = After(Current, LedHere, render.table)
  BY RunStep
<1> DEFINE after == After(Current, Live, ev.widgets)
           evaluator == [env |-> after.env, widgets |-> ev.widgets]
           reads == IF Current.kind = "code" THEN ReadsOf(Current.src, ev.env, ev.widgets)
                    ELSE {}
           output == Output(Current, after)
           new == Entry(Current, output, evaluator, after.th, reads, render.table)
<1>2. cache' = Append(cache, new) /\ Here > Len(cache) /\ IsSeq(cache)
  BY DEF Execute, IInv, Shape
<1>3. Len(cache) = Len(out) /\ ev.widgets = render.table
  <2>1. Len(cache) \in Nat
    BY <1>2, AppendFacts
  <2> QED BY <1>1, <1>2, <2>1 DEF IInv, RenderSound, Shape
<1>4. /\ SeqStates(trace) /\ Grows(trace) /\ CachedRun(render.doc, trace, Len(out))
  BY <1>1 DEF Recorded, RunRecorded
<1>5. IsSeq(ev.env) /\ Current.src \in Sources
  <2>1. InProgress /\ Running
    BY <1>1 DEF Execute
  <2>2. Current \in Blocks
    BY <2>1, SameStart
  <2>3. Live = Said(render.doc.proses[Here], Stage(Here), render.table)
    <3>1. Len(told) # Len(out)
      BY <2>1, SameStart
    <3> QED BY <1>1, <3>1 DEF IInv, RenderSound
  <2>4. IsSeq(Stage(Here).env)
    <3>1. <<>> \in Seq({})
      OBVIOUS
    <3>2. IsSeq(trace[Here].env)
      BY <1>1, <1>4 DEF SeqStates
    <3> QED BY <3>1, <3>2 DEF Stage, State, IsSeq
  <2>5. IsSeq(Live.env)
    BY <2>3, <2>4, RanContinues DEF Said
  <2> QED BY <2>2, <2>5, SourceTypes DEF Live, State, Hypotheses
<1>6. ASSUME NEW w \in DOMAIN new.reads
      PROVE  SeenIn(new.snapshot.ev.env, w, new.reads[w])
  <2>1. new.reads = Lookup(render.table, {v \in reads : render.table[v] # None})
    BY DEF Entry, WidgetReadsWithValues
  <2>2. w \in reads /\ new.reads[w] = render.table[w] /\ Current.kind = "code"
    BY <1>6, <2>1 DEF Lookup
  <2> DEFINE x == Execution(Current.src, ev.env, render.table, thread[render.thr])
  <2>3. new.snapshot.ev.env = Append(ev.env, x)
    BY <1>3, <2>2 DEF Entry, After, Ran, Live, State
  <2>4. w \in DOMAIN x.seen /\ x.seen[w] = render.table[w] /\ x.src \in Sources
    BY <1>3, <1>5, <2>2 DEF Execution, Lookup
  <2> HIDE DEF x, new
  <2>5. Len(Append(ev.env, x)) = Len(ev.env) + 1 /\ Len(ev.env) \in Nat
        /\ Append(ev.env, x)[Len(ev.env) + 1] = x
    BY <1>5, AppendFacts
  <2> QED BY <2>2, <2>3, <2>4, <2>5 DEF SeenIn
<1>7. new.hash = Current.src
  BY DEF Entry
<1> HIDE DEF after, evaluator, reads, output, new
<1>8. /\ Len(cache') = Here /\ \A i \in 1..Len(cache) : cache'[i] = cache[i]
      /\ cache'[Here] = new
  BY <1>1, <1>2, <1>3, AppendFacts
<1>9. IsSeq(trace'[Here + 1].env) /\ Continues(trace'[Here + 1].env, trace[Here].env)
  <2>1. IsSeq(trace[Here].env)
    BY <1>1, <1>4 DEF SeqStates
  <2> QED BY <1>1, <2>1, AfterContinues DEF LedHere
<1>10. Grows(trace') /\ SeqStates(trace')
  BY <1>1, <1>4, <1>9, GrowsByOne
<1>11. trace'[Here + 1].env = cache'[Here].snapshot.ev.env
  <2>0. PICK n \in Nat : n = Here
    BY <1>1
  <2>1. trace'[n + 1] = Snapshot(n)'
    BY <1>1, <1>8, <2>0 DEF IInv, RenderSound
  <2> QED BY <1>1, <1>8, <2>0, <2>1 DEF Snapshot, State
<1>12. CachedRun(render.doc, trace, Len(out))'
  <2>1. cache'[Here].hash = render'.doc.blocks[Here].src
    BY <1>1, <1>7, <1>8 DEF Current
  <2>2. PICK n \in Nat : /\ n = Here /\ n >= 1 /\ Len(out') = n /\ Len(out) = n - 1
                         /\ Len(cache) = n - 1 /\ Len(cache') = n
    BY <1>1, <1>3, <1>8
  <2>3. ASSUME NEW i \in 1..n
        PROVE  /\ cache'[i].hash = render'.doc.blocks[i].src
               /\ trace'[i + 1].env = cache'[i].snapshot.ev.env
    <3>1. CASE i = n
      BY <1>11, <2>1, <2>2, <3>1
    <3>2. CASE i # n
      <4>1. i \in 1..Len(cache) /\ i \in 1..Len(out) /\ i + 1 \in 1..Here
        BY <2>2, <3>2
      <4>2. cache'[i] = cache[i] /\ trace'[i + 1] = trace[i + 1] /\ render' = render
        BY <1>1, <1>8, <4>1
      <4>3. cache[i].hash = render.doc.blocks[i].src /\ trace[i + 1].env = cache[i].snapshot.ev.env
        BY <1>4, <4>1 DEF CachedRun
      <4> QED BY <4>2, <4>3
    <3> QED BY <3>1, <3>2
  <2> QED BY <2>2, <2>3 DEF CachedRun
<1>13. MissesHaveReasons'
  <2>1. \A i : Reason(i)' <=> Reason(i)
    BY <1>1 DEF Reason, Idle
  <2>2. /\ render' = render /\ Running /\ Len(cache') = Len(cache) + 1
        /\ Len(cache) \in Nat /\ Len(render.doc.blocks) \in Nat
    BY <1>1, <1>2, <1>3, <1>8, AppendFacts, ProsesOf DEF IInv, Shape, Hypotheses
  <2>3. \A i \in (Len(cache) + 1)..Len(render.doc.blocks) : Reason(i)
    BY <2>2 DEF Recorded, MissesHaveReasons
  <2>4. \A i \in (Len(cache') + 1)..Len(render'.doc.blocks) :
          i \in (Len(cache) + 1)..Len(render.doc.blocks)
    BY <2>2
  <2> QED BY <2>1, <2>3, <2>4 DEF MissesHaveReasons
<1>14. ReadsSeen'
  BY <1>1, <1>3, <1>6, <1>8 DEF Recorded, ReadsSeen
<1> QED BY <1>1, <1>10, <1>12, <1>13, <1>14 DEF Recorded, RunRecorded

LEMMA RecordsKept ==
  ASSUME Hypotheses, IInv, IInv', Recorded, [Next]_vars
  PROVE  Recorded'
<1>1. ASSUME NEW t \in Threads, NEW doc \in Docs, NEW table \in TablesOf(doc),
             NEW force \in 0..Len(doc.blocks), Begin(t, doc, table, force)
      PROVE  Recorded'
  BY <1>1, BeginRecords
<1>2. CASE Running /\ Leave /\ UNCHANGED cache
  <2>1. /\ ~Running' /\ prev'.doc = render.doc /\ prev'.trace = trace /\ cache' = cache
    BY <1>2 DEF Leave, Running, Idle
  <2>2. IsSeq(trace) /\ Len(trace) - 1 = Len(out)
    BY <1>2, AppendFacts DEF IInv, Shape, Here
  <2>3. RunRecorded'
    BY <1>2, <2>1, <2>2 DEF Recorded, RunRecorded, CachedRun
  <2> QED BY <1>2, <2>1, <2>2, <2>3 DEF Recorded, ReadsSeen, MissesHaveReasons
<1>3. CASE UNCHANGED vars
  BY <1>3 DEF vars, historyVars, Recorded, ReadsSeen, RunRecorded, CachedRun,
     MissesHaveReasons, Reason, Running, Idle
<1>4. CASE Tell
  <2>1. UNCHANGED <<cache, render, out, trace, prev>>
    BY <1>4 DEF Tell, historyVars
  <2> QED BY <2>1 DEF Recorded, ReadsSeen, RunRecorded, CachedRun, MissesHaveReasons, Reason,
                      Running, Idle
<1> QED BY <1>1, <1>2, <1>3, <1>4, ReplayRecords, ExecuteRecords
        DEF Next, Finish, AbandonBetween, AbandonInBlock, KeptOnCancel, InProgress

(* A block is executed again only if the render before did not get to it,  *)
(* or the run was forced from it or above, or it or a block above changed  *)
(* or read a widget value that is another now: a cancelled render loses    *)
(* nothing of what it had finished.                                        *)
THEOREM RunsForAReason ==
  ASSUME CacheAssumption, SteadyBlocks, ReadsDeclared, ReadsLocal
  PROVE  Spec => NoNeedlessRun
<1> Hypotheses
  BY DEF Hypotheses
<1>1. Init => IInv /\ Recorded
  <2> SUFFICES ASSUME Init PROVE Recorded
    BY InitSound
  <2>1. ~Running /\ prev = Idle /\ cache = <<>>
    BY DEF Init, Running, Idle
  <2> QED BY <2>1 DEF Recorded, ReadsSeen, RunRecorded, MissesHaveReasons
<1>2. IInv /\ Recorded /\ [Next]_vars => IInv' /\ Recorded'
  BY StepKeeps, RecordsKept
<1>3. IInv /\ Recorded /\ [Next]_vars => [Execute => Reason(Here)]_vars
  <2> SUFFICES ASSUME IInv, Recorded, Execute PROVE Reason(Here)
    OBVIOUS
  <2>1. Running /\ Here > Len(cache) /\ Here <= Len(render.doc.blocks)
    BY DEF Execute, InProgress
  <2>2. Here \in Nat /\ Len(cache) \in Nat
    BY AppendFacts DEF Here, IInv, Shape
  <2>3. render.doc \in Docs /\ Len(render.doc.blocks) \in Nat
    BY <2>1 DEF IInv, Shape, Hypotheses, CacheAssumption
  <2> QED BY <2>1, <2>2, <2>3 DEF Recorded, MissesHaveReasons
<1> QED BY <1>1, <1>2, <1>3, PTL DEF Spec, NoNeedlessRun

-----------------------------------------------------------------------------
(* A page shown again.  The states of the render that produced it, and of  *)
(* the one that repeats it, are the same one after the other.              *)

LeadOf(page, s, i) == Said(page.above[i].prose, s, page.above[i].table)

Shows(states, page) ==
  /\ states[1] = State(<<>>, page.origin)
  /\ \A i \in 1..Len(page.doc.blocks) :
       LET b == page.doc.blocks[i] IN
       /\ states[i + 1] = After(b, LeadOf(page, states[i], i), page.table)
       /\ page.out[i] = Output(b, states[i + 1])
  /\ \A i \in 1..(Len(page.doc.blocks) + 1) :
       \/ i = 1 /\ page.doc.proses[1] \in Acts
       \/ page.told[i] = Interpolated(page.doc.proses[i], states[i], page.table)

Repeating == Running /\ SameInputs /\ shown.origin = origin /\ SameLeads

Repeated ==
  shown # Idle =>
    /\ IsSeq(shown.out) /\ Len(shown.out) = Len(shown.doc.blocks)
    /\ shown.doc \in Docs
    /\ \E states : /\ Shows(states, shown)
                   /\ Repeating => \A i \in 1..Here : trace[i] = states[i]

LEMMA SeqsEqual ==
  ASSUME NEW s, NEW t, IsSeq(s), IsSeq(t), Len(s) = Len(t),
         \A i \in 1..Len(s) : s[i] = t[i]
  PROVE  s = t
<1>1. PICK S : s \in Seq(S)
  BY DEF IsSeq
<1>2. PICK T : t \in Seq(T)
  BY DEF IsSeq
<1>3. s \in Seq(S \cup T) /\ t \in Seq(S \cup T)
  BY <1>1, <1>2
<1> QED BY <1>3

LEMMA FinishRepeats ==
  ASSUME Hypotheses, IInv, Repeated, Finish
  PROVE  /\ Repeated'
         /\ SameInputs /\ shown.origin = origin /\ SameLeads => Repeats(shown, shown')
<1>1. /\ Running /\ ~Running' /\ Len(told) > Len(render.doc.blocks)
      /\ shown'.doc = render.doc /\ shown'.table = render.table
      /\ shown'.out = out /\ shown'.origin = origin
      /\ shown'.told = told /\ shown'.above = above
  BY DEF Finish, Leave, Running, Idle
<1>2. /\ Shape /\ IsRunOf(render.doc, render.table) /\ render.doc \in Docs
      /\ IsSeq(out) /\ Len(out) \in Nat /\ DOMAIN out = 1..Len(out)
      /\ IsSeq(told) /\ DOMAIN told = 1..Len(told)
  BY <1>1, AppendFacts DEF IInv, RenderSound, Shape
<1> DEFINE n == Len(render.doc.blocks)
<1>3. n \in Nat /\ Len(out) = n /\ Here = n + 1 /\ Len(told) = n + 1
  <2>1. /\ n \in Nat /\ Len(out) <= n /\ Len(told) \in Nat
        /\ Len(told) = Len(out) \/ Len(told) = Len(out) + 1
    BY <1>1, <1>2, ProsesOf, AppendFacts DEF Hypotheses, Shape, Here
  <2>2. Len(told) > n /\ Len(out) \in Nat
    BY <1>1, <1>2, Zenon
  <2> HIDE DEF n
  <2> QED BY <2>1, <2>2 DEF Here
<1> HIDE DEF n
<1>4. ASSUME NEW i \in 1..n
      PROVE  LET b == render.doc.blocks[i] IN
             /\ trace[i + 1] = After(b, LeadOf(shown', trace[i], i), render.table)
             /\ out[i] = Output(b, trace[i + 1])
  <2>1. i \in DOMAIN out /\ LeadOf(shown', trace[i], i) = Led(i)
    BY <1>1, <1>2, <1>3 DEF LeadOf, Led
  <2> QED BY <1>2, <2>1 DEF IsRunOf
<1>5. ASSUME NEW i \in 1..(n + 1)
      PROVE  \/ i = 1 /\ render.doc.proses[1] \in Acts
             \/ told[i] = Interpolated(render.doc.proses[i], trace[i], render.table)
  <2>1. told[i] = Interpolated(render.doc.proses[i], Stage(i), render.table)
    BY <1>2, <1>3 DEF IsRunOf
  <2>2. CASE i # 1
    BY <2>1, <2>2 DEF Stage
  <2>3. CASE i = 1 /\ render.doc.proses[1] \notin Acts
    <3>1. Stage(1).env = <<>> /\ trace[1].env = <<>>
      BY <1>2 DEF Stage, State, IsRunOf
    <3> QED BY <2>1, <2>3, <3>1 DEF Interpolated, Said
  <2> QED BY <2>2, <2>3
<1>6. Shows(trace, shown')
  <2>1. trace[1] = State(<<>>, shown'.origin)
    BY <1>1, <1>2 DEF IsRunOf
  <2> QED BY <1>1, <1>4, <1>5, <2>1 DEF Shows, n
<1>7. Repeated'
  BY <1>1, <1>2, <1>3, <1>6 DEF Repeated, Repeating, n
<1>8. ASSUME SameInputs, shown.origin = origin, SameLeads PROVE Repeats(shown, shown')
  <2>1. PICK states : Shows(states, shown) /\ \A i \in 1..Here : trace[i] = states[i]
    BY <1>1, <1>8 DEF Repeated, Repeating, SameInputs
  <2>2. /\ IsSeq(shown.out) /\ Len(shown.out) = Len(out)
        /\ shown.doc = render.doc /\ shown.table = render.table
    BY <1>3, <1>8 DEF Repeated, SameInputs, n
  <2>3. ASSUME NEW i \in 1..Len(out) PROVE out[i] = shown.out[i]
    <3>1. i \in 1..n /\ trace[i + 1] = states[i + 1]
      BY <1>3, <2>1
    <3>2. shown.out[i] = Output(render.doc.blocks[i], trace[i + 1])
      BY <2>1, <2>2, <3>1 DEF Shows, n
    <3> QED BY <1>4, <3>1, <3>2
  <2>4. out = shown.out
    BY <1>2, <2>2, <2>3, SeqsEqual
  <2>5. ASSUME NEW i \in 1..(n + 1)
        PROVE  (i = 1 /\ render.doc.proses[1] \in Acts) \/ told[i] = shown.told[i]
    <3>1. trace[i] = states[i]
      BY <1>3, <2>1
    <3>2. \/ i = 1 /\ render.doc.proses[1] \in Acts
          \/ shown.told[i] = Interpolated(render.doc.proses[i], trace[i], render.table)
      BY <2>1, <2>2, <3>1 DEF Shows, n
    <3> QED BY <1>5, <3>2
  <2>6. shown'.out = shown.out
    BY <1>1, <2>4
  <2>7. ASSUME NEW i \in DOMAIN shown'.told
        PROVE  (i = 1 /\ shown'.doc.proses[1] \in Acts) \/ shown'.told[i] = shown.told[i]
    <3>1. i \in 1..(n + 1)
      BY <1>1, <1>2, <1>3
    <3> QED BY <1>1, <2>5, <3>1
  <2> QED BY <2>6, <2>7 DEF Repeats
<1> QED BY <1>7, <1>8

LEMMA StepRepeats ==
  ASSUME Hypotheses, IInv, IInv', Repeated, Replay \/ Execute
  PROVE  Repeated'
<1>1. /\ Running /\ Running' /\ Here \in Nat /\ Here >= 1
      /\ Len(out) = Here - 1 /\ Here <= Len(render.doc.blocks)
      /\ UNCHANGED <<render, prev>>
      /\ Len(trace) = Here /\ Len(trace') = Here + 1 /\ Len(out') = Here
      /\ \A i \in 1..Here : trace'[i] = trace[i]
      /\ \A i \in 1..Len(out) : above'[i] = above[i]
      /\ trace'[Here + 1] = After(Current, LedHere, render.table)
  BY RunStep
<1>2. UNCHANGED <<shown, origin>>
  BY DEF Replay, Execute, Emit
<1>3. PICK n \in Nat : n = Here
  BY <1>1
<1>4. DOMAIN out = 1..(n - 1) /\ DOMAIN out' = 1..n
  BY <1>1, <1>3, AppendFacts DEF IInv, Shape
<1>5. ASSUME shown # Idle
      PROVE  \E states : /\ Shows(states, shown)
                         /\ Repeating' => \A i \in 1..(n + 1) : trace'[i] = states[i]
  <2>1. PICK states : /\ Shows(states, shown)
                      /\ Repeating => \A i \in 1..n : trace[i] = states[i]
    BY <1>3, <1>5 DEF Repeated
  <2>2. ASSUME Repeating' PROVE \A i \in 1..(n + 1) : trace'[i] = states[i]
    <3>1. SameLeads
      <4>1. ASSUME NEW i \in 1..(n - 1)
            PROVE  Said(shown.above[i].prose, trace[i], shown.above[i].table) = Led(i)
        <5>1. i \in 1..n /\ i \in 1..Len(out) /\ i \in DOMAIN out'
          BY <1>1, <1>3, <1>4
        <5>2. Said(shown.above[i].prose, trace'[i], shown.above[i].table) = Led(i)'
          BY <1>2, <2>2, <5>1 DEF Repeating, SameLeads
        <5>3. trace'[i] = trace[i] /\ above'[i] = above[i]
          BY <1>1, <1>3, <5>1
        <5> QED BY <5>2, <5>3 DEF Led
      <4> QED BY <1>4, <4>1 DEF SameLeads
    <3>2. Repeating
      BY <1>1, <1>2, <2>2, <3>1 DEF Repeating, SameInputs, Idle
    <3>3. LedHere = LeadOf(shown, trace[n], n)
      <4>1. n \in DOMAIN out'
        BY <1>1, <1>3, <1>4
      <4>2. Said(shown.above[n].prose, trace'[n], shown.above[n].table) = Led(n)'
        BY <1>2, <2>2, <4>1 DEF Repeating, SameLeads
      <4>3. trace'[n] = trace[n]
        BY <1>1, <1>3
      <4> QED BY <1>3, <4>2, <4>3 DEF Led, LedHere, LeadOf
    <3>4. states[n + 1] = After(Current, LeadOf(shown, states[n], n), render.table)
      <4>1. shown.doc = render.doc /\ shown.table = render.table
        BY <3>2 DEF Repeating, SameInputs
      <4>2. Len(render.doc.blocks) \in Nat
        BY <1>1, ProsesOf DEF IInv, Shape, Hypotheses
      <4>3. n \in 1..Len(shown.doc.blocks)
        BY <1>1, <1>3, <4>1, <4>2
      <4> QED BY <1>3, <2>1, <4>1, <4>3 DEF Shows, Current
    <3>5. trace[n] = states[n] /\ trace'[n + 1] = states[n + 1]
      BY <1>1, <1>3, <2>1, <3>2, <3>3, <3>4
    <3>6. \A i \in 1..n : trace'[i] = states[i]
      BY <1>1, <1>3, <2>1, <3>2
    <3> QED BY <3>5, <3>6
  <2> QED BY <2>1, <2>2
<1>6. Here' = n + 1
  BY <1>1, <1>3 DEF Here
<1>7. shown' # Idle' => shown # Idle
  BY <1>2 DEF Idle
<1> HIDE DEF Here
<1> QED BY <1>2, <1>5, <1>6, <1>7 DEF Repeated

LEMMA RepeatedKept ==
  ASSUME Hypotheses, IInv, IInv', Repeated, [Next]_vars
  PROVE  Repeated'
<1>1. ASSUME NEW t \in Threads, NEW doc \in Docs, NEW table \in TablesOf(doc),
             NEW force \in 0..Len(doc.blocks), Begin(t, doc, table, force)
      PROVE  Repeated'
  <2>1. /\ out' = <<>> /\ trace' = <<State(<<>>, origin')>> /\ UNCHANGED shown
    BY <1>1 DEF Begin
  <2>2. Here' = 1
    BY <2>1 DEF Here
  <2>3. ASSUME shown # Idle
        PROVE  \E states : /\ Shows(states, shown)
                           /\ Repeating' => \A i \in 1..1 : trace'[i] = states[i]
    <3>1. PICK states : Shows(states, shown)
      BY <2>3 DEF Repeated
    <3>2. Repeating' => trace'[1] = states[1]
      BY <2>1, <3>1 DEF Repeating, Shows
    <3> QED BY <3>1, <3>2
  <2>4. shown' # Idle' => shown # Idle
    BY <2>1 DEF Idle
  <2> HIDE DEF Here
  <2> QED BY <2>1, <2>2, <2>3, <2>4 DEF Repeated
<1>2. CASE AbandonBetween \/ AbandonInBlock
  <2>1. ~Running' /\ UNCHANGED shown
    BY <1>2 DEF AbandonBetween, AbandonInBlock, Leave, Running, Idle
  <2>2. shown' # Idle' => shown # Idle
    BY <2>1 DEF Idle
  <2> QED BY <2>1, <2>2 DEF Repeated, Repeating
<1>3. CASE Tell \/ UNCHANGED vars
  <2>1. UNCHANGED <<render, out, trace, above, origin, shown>>
    BY <1>3 DEF Tell, vars, historyVars
  <2>2. Here' = Here /\ (Repeating' <=> Repeating)
    BY <2>1 DEF Repeating, SameInputs, SameLeads, Led, Running, Idle, Here
  <2> QED BY <2>1, <2>2 DEF Repeated, Idle
<1> QED BY <1>1, <1>2, <1>3, StepRepeats, FinishRepeats DEF Next

(* A render of what is shown already, with the same source and the same    *)
(* widget values, shows it again, random draws included, unless its first  *)
(* block ran again, or a block ran again below prose that acts and was     *)
(* edited; prose that acts and stands before every block draws anew.       *)
THEOREM DrawsReplayed ==
  ASSUME CacheAssumption, SteadyBlocks, ReadsDeclared, ReadsLocal
  PROVE  Spec => ReplaysDraws
<1> Hypotheses
  BY DEF Hypotheses
<1>1. Init => IInv /\ Repeated
  <2> SUFFICES ASSUME Init PROVE Repeated
    BY InitSound
  <2>1. shown = Idle
    BY DEF Init
  <2> QED BY <2>1 DEF Repeated
<1>2. IInv /\ Repeated /\ [Next]_vars => IInv' /\ Repeated'
  BY StepKeeps, RepeatedKept
<1>3. IInv /\ Repeated /\ [Next]_vars
        => [Finish /\ SameInputs /\ shown.origin = origin /\ SameLeads
              => Repeats(shown, shown')]_vars
  BY FinishRepeats
<1> QED BY <1>1, <1>2, <1>3, PTL DEF Spec, ReplaysDraws
=============================================================================
