---------------------------- MODULE LiveSyncProof ----------------------------
(***************************************************************************)
(* A tab that keeps up shows the published pages in order, for any tabs,   *)
(* documents, channel and number of messages: LiveSync implements          *)
(* PageView.                                                               *)
(*                                                                         *)
(* The proof looks at the queue of a tab, the envelopes on its socket and  *)
(* those it has not read: each update in it was made for the page that the *)
(* one before it leads to, the first for the page the tab shows, and the   *)
(* last leads to the published page.  What breaks the chain (a lag, a      *)
(* refusal, a page kept) is recorded in "lost", and everything after the   *)
(* break is chained again.                                                 *)
(***************************************************************************)
EXTENDS LiveSync, FiniteSetTheorems, SequenceTheorems, WellFoundedInduction, TLAPS

-----------------------------------------------------------------------------
(* Messages, and what a queue of them must be like.                        *)

Kinds == {"full", "partial", "reconcile", "status"}
Block == [id : Contents \X Nat, idx : Nat]
Page == [blocks : Seq(Block), nested : SUBSET Nat, chrome : Chromes]
Rendered == {Render(d) : d \in Docs}
Message == {m \in [kind : Kinds, at : Nat, doc : Rendered, carried : SUBSET Nat] :
              m.carried \subseteq DOMAIN m.doc.blocks}

(* Envelope m updates a page that shows what p shows.                      *)
Follows(p, m) ==
  /\ m.kind = "partial" =>
       /\ DOMAIN p.blocks = DOMAIN m.doc.blocks /\ p.chrome = m.doc.chrome
       /\ m.carried = ComputeChanges(p, m.doc)
  /\ m.kind = "reconcile" =>
       /\ p.chrome = m.doc.chrome
       /\ m.carried = FreshItems(p, m.doc)

NoneIn(q, from, to) == \A k \in from..to : ~IsContent(q[k])

(* Of the updates of q, each follows the one before it, if that one was    *)
(* published after message a; the first follows p; the last leads to p.    *)
Chain(q, a) ==
  \A i, j \in Updates(q) :
    j < i /\ NoneIn(q, j + 1, i - 1) /\ q[j].at > a => Follows(q[j].doc, q[i])
Starts(q, p) == \A i \in Updates(q) : NoneIn(q, 1, i - 1) => Follows(p, q[i])
Ends(q, p) ==
  \A i \in Updates(q) : NoneIn(q, i + 1, Len(q)) => View(q[i].doc) = View(p)

Ascending(q) == \A i, j \in Updates(q) : j < i => q[j].at < q[i].at

SameLayout(m, p) ==
  /\ IsFlat(m.doc) <=> IsFlat(p)
  /\ m.kind = "reconcile" => IsFlat(p)

(* The queue q of a tab that shows d when p is published: what comes after *)
(* message a is chained, and if the tab follows so is what it shows.       *)
Sound(q, p, a, follows, d) ==
  /\ \A i \in Updates(q) : SameLayout(q[i], p)
  /\ Ascending(q) /\ Ends(q, p) /\ Chain(q, a)
  /\ follows => Starts(q, d) /\ (Updates(q) = {} => View(d) = View(p))

-----------------------------------------------------------------------------
(* The inductive invariant.                                                *)

ServerTyped ==
  /\ page \in Rendered /\ log \in Seq(Message) /\ Len(log) <= MaxMessages
  /\ \A k \in Updates(log) : log[k].at = k

VarsTyped ==
  /\ st \in [Tabs -> {"loaded", "live", "down", "gone"}]
  /\ dom \in [Tabs -> Page] /\ cursor \in [Tabs -> Nat] /\ sock \in [Tabs -> Seq(Message)]
  /\ edit \in [Tabs -> [pos : Nat, dirty : BOOLEAN]] /\ edits \in 0..MaxEdits
  /\ marked \in [Tabs -> BOOLEAN] /\ deferred \in [Tabs -> BOOLEAN]
  /\ lost \in [Tabs -> [at : Nat, why : {"none", "gap", "lag", "kept", "veto"}]]

TabTyped(t) ==
  /\ dom[t].nested \subseteq DOMAIN dom[t].blocks
  /\ cursor[t] <= Len(log)
  /\ Len(sock[t]) <= SocketBound /\ (st[t] # "live" => sock[t] = <<>>)
  /\ \A i \in Updates(sock[t]) : sock[t][i].at \in 1..cursor[t]
  /\ edit[t].pos <= Len(dom[t].blocks)
  /\ edit[t].dirty => edit[t].pos # 0
  /\ marked[t] => edit[t].pos # 0
  /\ lost[t].at <= cursor[t] /\ (lost[t].why = "none" => lost[t].at = 0)

TypeInv == ServerTyped /\ VarsTyped /\ \A t \in Tabs : TabTyped(t)

(* With the premise on the layout: a loaded page that nothing was          *)
(* broadcast after is current, and the queues of connected tabs are sound. *)
TabSound(t) ==
  /\ IsFlat(dom[t]) <=> IsFlat(page)
  /\ st[t] = "loaded" =>
       lost[t].why = "none" /\ (~HasContent(Unread(t)) => View(dom[t]) = View(page))
  /\ st[t] = "live" =>
       Sound(Queue(t), page, lost[t].at, lost[t].why = "none", dom[t])

Sounds == \A t \in Tabs : TabSound(t)

-----------------------------------------------------------------------------
(* Places in a set of positions.                                           *)

(* A finite set of numbers that is not empty has a last element: the one   *)
(* with the fewest elements above it.                                      *)
LEMMA LastExists ==
  ASSUME NEW S \in SUBSET Nat, IsFiniteSet(S), S # {}
  PROVE  \E i \in S : \A j \in S : j <= i
<1> DEFINE Above(i) == {j \in S : i < j}
           Aboves == {Above(i) : i \in S}
<1>1. Aboves \subseteq FiniteSubsetsOf(S) /\ Aboves # {}
  <2>1. ASSUME NEW i \in S PROVE Above(i) \in FiniteSubsetsOf(S)
    BY FS_Subset DEF FiniteSubsetsOf
  <2> QED BY <2>1
<1>2. PICK A \in Aboves : \A B \in Aboves : <<B, A>> \notin StrictSubsetOrdering(S)
  <2> HIDE DEF Aboves
  <2> QED BY <1>1, FS_StrictSubsetOrderingWellFounded, WFMin
<1>3. PICK i \in S : A = Above(i)
  OBVIOUS
<1>4. ASSUME NEW j \in S, i < j PROVE FALSE
  <2>1. j \in Above(i) /\ j \notin Above(j)
    BY <1>4
  <2>2. ASSUME NEW k \in Above(j) PROVE k \in Above(i)
    <3>1. i \in Nat /\ j \in Nat /\ k \in Nat /\ k \in S /\ j < k
      OBVIOUS
    <3> QED BY <1>4, <3>1
  <2>3. Above(j) \in Aboves /\ Above(i) \in SUBSET S /\ Above(j) \in SUBSET S
    OBVIOUS
  <2>4. <<Above(j), Above(i)>> \in StrictSubsetOrdering(S)
    <3> HIDE DEF Above
    <3> QED BY <2>1, <2>2, <2>3 DEF StrictSubsetOrdering
  <2> QED BY <1>2, <1>3, <2>3, <2>4
<1>5. ASSUME NEW j \in S PROVE j <= i
  <2>1. i \in Nat /\ j \in Nat
    OBVIOUS
  <2> QED BY <1>4, <2>1
<1> QED BY <1>5
(* The same, read downwards: a set of positions has a first element.       *)
LEMMA FirstExists ==
  ASSUME NEW n \in Nat, NEW S \in SUBSET (1..n), S # {}
  PROVE  \E i \in S : \A j \in S : i <= j
<1> DEFINE T == {n - i : i \in S}
<1>1. T \in SUBSET Nat /\ T # {} /\ \A t \in T : t <= n
  <2>1. ASSUME NEW i \in S PROVE n - i \in Nat /\ n - i <= n
    <3>1. i \in Nat /\ 1 <= i /\ i <= n
      OBVIOUS
    <3> QED BY <3>1
  <2> QED BY <2>1
<1>2. IsFiniteSet(T)
  <2> HIDE DEF T
  <2> QED BY <1>1, FS_BoundedSetOfNaturals
<1>3. PICK t \in T : \A u \in T : u <= t
  <2> HIDE DEF T
  <2> QED BY <1>1, <1>2, LastExists
<1>4. PICK i \in S : t = n - i
  OBVIOUS
<1>5. ASSUME NEW j \in S PROVE i <= j
  <2>1. i \in Nat /\ j \in Nat /\ n - j \in T
    OBVIOUS
  <2>2. n - j <= n - i
    BY <1>3, <1>4, <2>1
  <2> QED BY <2>1, <2>2
<1> QED BY <1>5

LEMMA BoundedFinite ==
  ASSUME NEW n \in Nat, NEW S \in SUBSET (1..n)
  PROVE  IsFiniteSet(S) /\ Cardinality(S) \in Nat
<1>1. IsFiniteSet(1..n)
  BY FS_Interval
<1> QED BY <1>1, FS_Subset, FS_CardinalityType

Rank(S, i) == Cardinality({j \in S : j < i})

LEMMA RankType ==
  ASSUME NEW S \in SUBSET Nat, IsFiniteSet(S), NEW i
  PROVE  Rank(S, i) \in Nat /\ IsFiniteSet({j \in S : j < i})
BY FS_Subset, FS_CardinalityType DEF Rank

(* Ranks are below the number of elements, and ascend.                     *)
LEMMA RankLess ==
  ASSUME NEW S \in SUBSET Nat, IsFiniteSet(S), NEW i \in S
  PROVE  /\ Rank(S, i) < Cardinality(S)
         /\ \A j \in S : i < j => Rank(S, i) < Rank(S, j)
<1> DEFINE Below(k) == {j \in S : j < k}
<1>1. ASSUME NEW T \in SUBSET S, Below(i) \subseteq T, i \in T
      PROVE  Cardinality(Below(i)) < Cardinality(T)
  <2>1. IsFiniteSet(T) /\ IsFiniteSet(Below(i))
    BY FS_Subset
  <2>2. i \notin Below(i)
    OBVIOUS
  <2>3. Cardinality(Below(i)) <= Cardinality(T) /\ Cardinality(Below(i)) # Cardinality(T)
    <3> HIDE DEF Below
    <3> QED BY <1>1, <2>1, <2>2, FS_Subset
  <2>4. Cardinality(T) \in Nat /\ Cardinality(Below(i)) \in Nat
    BY <2>1, FS_CardinalityType
  <2> QED BY <2>3, <2>4
<1>2. Rank(S, i) < Cardinality(S)
  BY <1>1 DEF Rank
<1>3. ASSUME NEW j \in S, i < j PROVE Rank(S, i) < Rank(S, j)
  <2>1. i \in Below(j) /\ Below(i) \subseteq Below(j) /\ Below(j) \in SUBSET S
    <3>1. ASSUME NEW x \in Below(i) PROVE x \in Below(j)
      <4>1. x \in Nat /\ i \in Nat /\ j \in Nat
        OBVIOUS
      <4> QED BY <1>3, <4>1
    <3> QED BY <1>3, <3>1
  <2>2. Cardinality(Below(i)) < Cardinality(Below(j))
    <3> HIDE DEF Below
    <3> QED BY <1>1, <2>1
  <2> QED BY <2>2 DEF Rank
<1> QED BY <1>2, <1>3

(* Every rank is somebody's.                                               *)
LEMMA RankOnto ==
  ASSUME NEW n \in Nat, NEW S \in SUBSET (1..n), NEW k \in Nat, k < Cardinality(S)
  PROVE  \E i \in S : Rank(S, i) = k
<1> DEFINE Below(x) == {j \in S : j < x}
           U == {i \in S : Rank(S, i) >= k}
<1>1. S \in SUBSET Nat /\ IsFiniteSet(S) /\ Cardinality(S) \in Nat
  <2>1. S \in SUBSET Nat
    OBVIOUS
  <2> QED BY <2>1, BoundedFinite
<1>2. S # {}
  BY <1>1, FS_EmptySet
<1>3. ASSUME NEW i \in S, NEW v \in S, v < i, \A j \in S : j < i => j <= v
      PROVE  Rank(S, i) = Rank(S, v) + 1
  <2>1. ASSUME NEW j PROVE j \in Below(i) <=> j \in Below(v) \cup {v}
    <3>1. i \in Nat /\ v \in Nat /\ (j \in S => j \in Nat)
      BY <1>1
    <3>2. ASSUME j \in Below(i) PROVE j \in Below(v) \cup {v}
      <4>1. j \in S /\ j < i /\ j <= v
        BY <1>3, <3>2
      <4> QED BY <3>1, <4>1
    <3>3. ASSUME j \in Below(v) \cup {v} PROVE j \in Below(i)
      <4>1. j \in S /\ j <= v
        BY <3>1, <3>3
      <4> QED BY <1>3, <3>1, <4>1
    <3> QED BY <3>2, <3>3
  <2>2. Below(i) = Below(v) \cup {v}
    BY <2>1
  <2>3. v \notin Below(v) /\ IsFiniteSet(Below(v))
    BY <1>1, RankType
  <2> QED BY <2>2, <2>3, FS_AddElement DEF Rank
<1>4. U # {} /\ U \in SUBSET (1..n)
  <2>1. PICK z \in S : \A j \in S : j <= z
    BY <1>1, <1>2, LastExists
  <2>2. S = Below(z) \cup {z} /\ z \notin Below(z)
    <3>1. ASSUME NEW j \in S PROVE j < z \/ j = z
      <4>1. j \in Nat /\ z \in Nat /\ j <= z
        BY <1>1, <2>1
      <4> QED BY <4>1
    <3>2. z \in Nat /\ ~(z < z)
      BY <1>1
    <3> QED BY <3>1, <3>2
  <2>3. IsFiniteSet(Below(z)) /\ Rank(S, z) \in Nat
    BY <1>1, RankType
  <2>4. Cardinality(Below(z) \cup {z}) = Cardinality(Below(z)) + 1
    <3> HIDE DEF Below
    <3> QED BY <2>2, <2>3, FS_AddElement
  <2>5. Cardinality(S) = Rank(S, z) + 1
    BY <2>2, <2>4 DEF Rank
  <2>6. z \in U
    BY <1>1, <2>3, <2>5
  <2> QED BY <2>6
<1>5. PICK u \in U : \A j \in U : u <= j
  <2> HIDE DEF U
  <2> QED BY <1>4, FirstExists
<1>6. u \in S /\ u \in Nat /\ Rank(S, u) \in Nat /\ Rank(S, u) >= k
  BY <1>1, RankType
<1>7. CASE Below(u) = {}
  <2>1. Rank(S, u) = 0
    BY <1>7, FS_EmptySet DEF Rank
  <2> QED BY <1>6, <2>1
<1>8. CASE Below(u) # {}
  <2>1. Below(u) \in SUBSET Nat /\ IsFiniteSet(Below(u))
    BY <1>1, RankType
  <2>2. PICK v \in Below(u) : \A j \in Below(u) : j <= v
    <3> HIDE DEF Below
    <3> QED BY <1>8, <2>1, LastExists
  <2>3. v \in S /\ v < u /\ v \in Nat /\ \A j \in S : j < u => j <= v
    BY <1>1, <2>2
  <2>4. Rank(S, u) = Rank(S, v) + 1
    BY <1>3, <1>6, <2>3
  <2>5. Rank(S, v) \in Nat
    BY <1>1, RankType
  <2>6. v \notin U
    BY <1>5, <1>6, <2>3
  <2>7. Rank(S, v) < k
    BY <2>3, <2>5, <2>6
  <2> QED BY <1>6, <2>4, <2>5, <2>7
<1> QED BY <1>7, <1>8

(* The place of the element of rank k - 1 is that element.                 *)
LEMMA PlaceIs ==
  ASSUME NEW S \in SUBSET Nat, IsFiniteSet(S), NEW i \in S
  PROVE  Place(S, Rank(S, i) + 1) = i
<1>1. Rank(S, i) \in Nat
  BY RankType
<1>2. ASSUME NEW j \in S, Rank(S, j) = (Rank(S, i) + 1) - 1 PROVE j = i
  <2>1. i \in Nat /\ j \in Nat /\ Rank(S, j) \in Nat
    BY RankType
  <2>2. ~(Rank(S, i) < Rank(S, j)) /\ ~(Rank(S, j) < Rank(S, i))
    BY <1>1, <1>2, <2>1
  <2>3. ~(i < j) /\ ~(j < i)
    BY <2>2, RankLess
  <2> QED BY <2>1, <2>3
<1>3. Rank(S, i) = (Rank(S, i) + 1) - 1
  BY <1>1
<1> DEFINE P(j) == Cardinality({x \in S : x < j}) = (Rank(S, i) + 1) - 1
<1>4. P(i) /\ \A j \in S : P(j) => j = i
  BY <1>2, <1>3 DEF Rank
<1>5. (CHOOSE j \in S : P(j)) = i
  <2> HIDE DEF P
  <2> QED BY <1>4
<1> QED BY <1>5 DEF Place

LEMMA PlaceType ==
  ASSUME NEW n \in Nat, NEW S \in SUBSET (1..n), NEW k \in 1..Cardinality(S)
  PROVE  Place(S, k) \in S /\ Rank(S, Place(S, k)) = k - 1
<1>1. IsFiniteSet(S) /\ Cardinality(S) \in Nat
  BY BoundedFinite
<1>2. k - 1 \in Nat /\ k - 1 < Cardinality(S)
  BY <1>1
<1>3. \E i \in S : Rank(S, i) = k - 1
  BY <1>2, RankOnto
<1> DEFINE P(j) == Cardinality({x \in S : x < j}) = k - 1
<1>4. \E i \in S : P(i)
  BY <1>3 DEF Rank
<1>5. (CHOOSE j \in S : P(j)) \in S /\ P(CHOOSE j \in S : P(j))
  <2> HIDE DEF P
  <2> QED BY <1>4
<1> QED BY <1>5 DEF Place, Rank

(* The elements at all places of q are q.                                  *)
LEMMA ChosenAll ==
  ASSUME NEW B, NEW q \in Seq(B)
  PROVE  Chosen(q, DOMAIN q) = q
<1>1. PICK n \in Nat : n = Len(q)
  OBVIOUS
<1>2. DOMAIN q = 1..n /\ q = [k \in 1..n |-> q[k]]
  BY <1>1
<1>3. Cardinality(1..n) = n /\ IsFiniteSet(1..n)
  BY FS_Interval
<1>4. ASSUME NEW k \in 1..n PROVE Place(1..n, k) = k
  <2>1. {j \in 1..n : j < k} = 1..(k - 1)
    OBVIOUS
  <2>2. Rank(1..n, k) = k - 1
    <3>1. Cardinality(1..(k - 1)) = k - 1
      <4>1. k - 1 \in Int /\ 1 \in Int /\ (1 > k - 1 => k - 1 = 0) /\ (k - 1) - 1 + 1 = k - 1
        OBVIOUS
      <4> QED BY <4>1, FS_Interval
    <3> QED BY <2>1, <3>1 DEF Rank
  <2>3. Rank(1..n, k) + 1 = k
    BY <2>2
  <2> QED BY <1>3, <2>3, PlaceIs
<1>5. [k \in 1..n |-> q[Place(1..n, k)]] = [k \in 1..n |-> q[k]]
  BY <1>4
<1> QED BY <1>2, <1>3, <1>5 DEF Chosen

LEMMA ChosenType ==
  ASSUME NEW B, NEW q \in Seq(B), NEW S \in SUBSET (DOMAIN q)
  PROVE  /\ Cardinality(S) \in Nat
         /\ Chosen(q, S) \in Seq(B) /\ Len(Chosen(q, S)) = Cardinality(S)
         /\ DOMAIN Chosen(q, S) = 1..Cardinality(S)
<1>1. PICK n \in Nat : n = Len(q)
  OBVIOUS
<1>2. S \in SUBSET (1..n)
  BY <1>1
<1>3. Cardinality(S) \in Nat
  BY <1>2, BoundedFinite
<1>4. ASSUME NEW k \in 1..Cardinality(S) PROVE q[Place(S, k)] \in B
  <2>1. Place(S, k) \in S
    BY <1>2, PlaceType
  <2> QED BY <2>1
<1>5. Chosen(q, S) \in [1..Cardinality(S) -> B]
  BY <1>4 DEF Chosen
<1> QED BY <1>3, <1>5

-----------------------------------------------------------------------------
(* The pages of a queue.                                                   *)

LEMMA UpdatesType ==
  ASSUME NEW B, NEW q \in Seq(B)
  PROVE  /\ Updates(q) \in SUBSET (1..Len(q)) /\ Updates(q) \in SUBSET Nat
         /\ Updates(q) \in SUBSET (DOMAIN q)
         /\ IsFiniteSet(Updates(q)) /\ Cardinality(Updates(q)) \in Nat
<1>1. Updates(q) \in SUBSET (1..Len(q)) /\ Len(q) \in Nat
  BY DEF Updates
<1>2. Updates(q) \in SUBSET (DOMAIN q) /\ Updates(q) \in SUBSET Nat
  BY <1>1 DEF Updates
<1>3. IsFiniteSet(Updates(q)) /\ Cardinality(Updates(q)) \in Nat
  <2> HIDE DEF Updates
  <2> QED BY <1>1, BoundedFinite
<1> QED BY <1>1, <1>2, <1>3

LEMMA PagesType ==
  ASSUME NEW q \in Seq(Message)
  PROVE  /\ PagesIn(q) \in Seq(DocPages) /\ Len(PagesIn(q)) = Cardinality(Updates(q))
         /\ \A k \in 1..Cardinality(Updates(q)) :
              PagesIn(q)[k] = View(q[Place(Updates(q), k)].doc)
<1> DEFINE S == Updates(q)
<1>1. S \in SUBSET (DOMAIN q) /\ Cardinality(S) \in Nat
  BY UpdatesType
<1>2. ASSUME NEW k \in 1..Cardinality(S) PROVE View(Chosen(q, S)[k].doc) \in DocPages
  <2>1. Chosen(q, S) \in Seq(Message) /\ k \in DOMAIN Chosen(q, S)
    <3> HIDE DEF S
    <3> QED BY <1>1, ChosenType
  <2>2. Chosen(q, S)[k] \in Message
    <3> HIDE DEF S
    <3> QED BY <2>1
  <2>3. Chosen(q, S)[k].doc \in Rendered
    <3> HIDE DEF S
    <3> QED BY <2>2 DEF Message
  <2> QED BY <2>3 DEF Rendered, DocPages
<1>3. PagesIn(q) = [k \in 1..Cardinality(S) |-> View(Chosen(q, S)[k].doc)]
  BY DEF PagesIn
<1>4. PagesIn(q) \in [1..Cardinality(S) -> DocPages]
  <2> HIDE DEF S
  <2> QED BY <1>2, <1>3
<1>5. ASSUME NEW k \in 1..Cardinality(S) PROVE PagesIn(q)[k] = View(q[Place(S, k)].doc)
  <2> HIDE DEF S
  <2> QED BY <1>3 DEF Chosen
<1> QED BY <1>1, <1>4, <1>5

Shifted(n, B) == {n + i : i \in B}

(* Counting a set and another one moved behind it.                         *)
LEMMA ShiftedCardinality ==
  ASSUME NEW n \in Nat, NEW m \in Nat, NEW A \in SUBSET (1..n), NEW B \in SUBSET (1..m)
  PROVE  Cardinality(A \cup Shifted(n, B)) = Cardinality(A) + Cardinality(B)
<1> DEFINE T == {n + i : i \in B}
           f == [i \in B |-> n + i]
<1>1. IsFiniteSet(A) /\ IsFiniteSet(B) /\ Cardinality(A) \in Nat /\ Cardinality(B) \in Nat
  BY BoundedFinite
<1>2. f \in Bijection(B, T)
  <2>1. f \in [B -> T]
    OBVIOUS
  <2>2. ASSUME NEW i \in B, NEW j \in B, f[i] = f[j] PROVE i = j
    <3>1. i \in Nat /\ j \in Nat /\ n + i = n + j
      BY <2>2
    <3> QED BY <3>1
  <2>3. ASSUME NEW x \in T PROVE \E i \in B : f[i] = x
    OBVIOUS
  <2> QED
    <3> HIDE DEF f, T
    <3> QED BY <2>1, <2>2, <2>3 DEF Bijection, Injection, Surjection, IsInjective
<1>3. IsFiniteSet(T) /\ Cardinality(T) = Cardinality(B)
  <2> HIDE DEF f, T
  <2> QED BY <1>1, <1>2, FS_Bijection DEF ExistsBijection
<1>4. A \cap T = {}
  <2>1. ASSUME NEW x \in A, x \in T PROVE FALSE
    <3>1. PICK i \in B : x = n + i
      BY <2>1
    <3>2. x \in Nat /\ x <= n /\ i \in Nat /\ 1 <= i
      OBVIOUS
    <3> QED BY <3>1, <3>2
  <2> QED BY <2>1
<1>5. Cardinality(A \cap T) = 0
  BY <1>4, FS_EmptySet
<1>6. Cardinality(A \cup T) = Cardinality(A) + Cardinality(T) - Cardinality(A \cap T)
  <2> HIDE DEF T
  <2> QED BY <1>1, <1>3, FS_Union
<1>7. Shifted(n, B) = T
  BY DEF Shifted
<1> QED BY <1>1, <1>3, <1>5, <1>6, <1>7

LEMMA UpdatesConcat ==
  ASSUME NEW B, NEW a \in Seq(B), NEW b \in Seq(B)
  PROVE  Updates(a \o b) = Updates(a) \cup Shifted(Len(a), Updates(b))
<1>1. a \o b \in Seq(B) /\ Len(a \o b) = Len(a) + Len(b) /\ Len(a) \in Nat /\ Len(b) \in Nat
  OBVIOUS
<1>2. /\ DOMAIN a = 1..Len(a) /\ DOMAIN b = 1..Len(b)
      /\ DOMAIN (a \o b) = 1..(Len(a) + Len(b))
  BY <1>1
<1>3. \A i \in 1..Len(a) : i \in 1..(Len(a) + Len(b)) /\ (a \o b)[i] = a[i]
  BY <1>1, ConcatProperties
<1>4. \A i \in 1..Len(b) : Len(a) + i \in 1..(Len(a) + Len(b)) /\ (a \o b)[Len(a) + i] = b[i]
  BY <1>1, ConcatProperties
<1>5. ASSUME NEW x \in Updates(a \o b)
      PROVE  x \in Updates(a) \cup Shifted(Len(a), Updates(b))
  <2>1. x \in 1..(Len(a) + Len(b)) /\ IsContent((a \o b)[x])
    BY <1>2 DEF Updates
  <2>2. CASE x <= Len(a)
    <3>1. x \in 1..Len(a)
      BY <1>1, <2>1, <2>2
    <3> QED BY <1>2, <1>3, <2>1, <3>1 DEF Updates
  <2>3. CASE x > Len(a)
    <3>1. x - Len(a) \in 1..Len(b) /\ Len(a) + (x - Len(a)) = x
      BY <1>1, <2>1, <2>3
    <3> QED BY <1>2, <1>4, <2>1, <3>1 DEF Updates, Shifted
  <2> QED BY <1>1, <2>1, <2>2, <2>3
<1>6. ASSUME NEW x \in Updates(a) PROVE x \in Updates(a \o b)
  BY <1>2, <1>3 DEF Updates
<1>7. ASSUME NEW i \in Updates(b) PROVE Len(a) + i \in Updates(a \o b)
  BY <1>2, <1>4 DEF Updates
<1> QED BY <1>5, <1>6, <1>7 DEF Shifted

LEMMA PagesConcat ==
  ASSUME NEW a \in Seq(Message), NEW b \in Seq(Message)
  PROVE  PagesIn(a \o b) = PagesIn(a) \o PagesIn(b)
<1> DEFINE A == Updates(a)
           B == Updates(b)
           C == Updates(a \o b)
<1>1. PICK n \in Nat : n = Len(a)
  OBVIOUS
<1>2. PICK m \in Nat : m = Len(b)
  OBVIOUS
<1>3. /\ a \o b \in Seq(Message) /\ DOMAIN a = 1..n /\ DOMAIN b = 1..m
      /\ \A i \in 1..n : (a \o b)[i] = a[i]
      /\ \A i \in 1..m : (a \o b)[n + i] = b[i]
  <2>1. \A i \in 1..m : n + i \in 1..(n + m) /\ ~(n + i <= n) /\ (n + i) - n = i
    OBVIOUS
  <2>2. \A i \in 1..n : i \in 1..(n + m) /\ i <= n
    OBVIOUS
  <2>3. \A i \in 1..(n + m) : (a \o b)[i] = IF i <= n THEN a[i] ELSE b[i - n]
    BY <1>1, <1>2, ConcatProperties
  <2> QED BY <1>1, <1>2, <2>1, <2>2, <2>3
<1>4. /\ A \in SUBSET (1..n) /\ A \in SUBSET Nat /\ IsFiniteSet(A) /\ Cardinality(A) \in Nat
      /\ B \in SUBSET (1..m) /\ B \in SUBSET Nat /\ IsFiniteSet(B) /\ Cardinality(B) \in Nat
      /\ C \in SUBSET Nat /\ IsFiniteSet(C) /\ Cardinality(C) \in Nat
  BY <1>1, <1>2, <1>3, UpdatesType
<1>5. C = A \cup Shifted(n, B)
  BY <1>1, UpdatesConcat
<1>6. Cardinality(C) = Cardinality(A) + Cardinality(B)
  <2> HIDE DEF A, B, C
  <2>1. Cardinality(A \cup Shifted(n, B)) = Cardinality(A) + Cardinality(B)
    <3>1. A \in SUBSET (1..n) /\ B \in SUBSET (1..m)
      BY <1>4
    <3>2. ASSUME NEW X \in SUBSET (1..n), NEW Y \in SUBSET (1..m)
          PROVE  Cardinality(X \cup Shifted(n, Y)) = Cardinality(X) + Cardinality(Y)
      BY ShiftedCardinality, ZenonT(60)
    <3> QED BY <3>1, <3>2
  <2> QED BY <1>5, <2>1
<1>7. ASSUME NEW k \in 1..Cardinality(A)
      PROVE  PagesIn(a \o b)[k] = PagesIn(a)[k]
  <2>1. PICK i \in A : i = Place(A, k) /\ Rank(A, i) = k - 1
    <3> HIDE DEF A
    <3> QED BY <1>4, PlaceType
  <2>2. i \in Nat /\ i <= n /\ i \in 1..n
    BY <1>4
  <2>3. ASSUME NEW j PROVE j \in C /\ j < i <=> j \in A /\ j < i
    <3>1. ASSUME NEW x \in B PROVE ~(n + x < i)
      <4>1. x \in Nat
        BY <1>4
      <4> QED BY <2>2, <4>1
    <3> QED
      <4> HIDE DEF A, B, C
      <4> QED BY <1>5, <3>1 DEF Shifted
  <2>4. {j \in C : j < i} = {j \in A : j < i}
    <3> HIDE DEF A, C
    <3> QED BY <2>3
  <2>5. Rank(C, i) = k - 1 /\ i \in C
    <3> HIDE DEF A, B, C
    <3> QED BY <1>5, <2>1, <2>4 DEF Rank
  <2>6. Rank(C, i) + 1 = k
    <3> HIDE DEF A, B, C
    <3> QED BY <1>4, <2>5
  <2>7. Place(C, k) = i
    <3> HIDE DEF A, B, C
    <3> QED BY <1>4, <2>5, <2>6, PlaceIs
  <2>8. k \in 1..Cardinality(C)
    <3> HIDE DEF A, B, C
    <3> QED BY <1>4, <1>6
  <2>9. PagesIn(a \o b)[k] = View((a \o b)[i].doc)
    BY <1>3, <2>7, <2>8, PagesType
  <2>10. PagesIn(a)[k] = View(a[i].doc)
    BY <2>1, PagesType
  <2> QED BY <1>3, <2>2, <2>9, <2>10
<1>8. ASSUME NEW h \in 1..Cardinality(B)
      PROVE  PagesIn(a \o b)[Cardinality(A) + h] = PagesIn(b)[h]
  <2>1. PICK i \in B : i = Place(B, h) /\ Rank(B, i) = h - 1
    <3> HIDE DEF B
    <3> QED BY <1>4, PlaceType
  <2>2. i \in Nat /\ i \in 1..m
    BY <1>4
  <2>3. ASSUME NEW j
        PROVE  j \in C /\ j < n + i <=> j \in A \cup Shifted(n, {y \in B : y < i})
    <3>1. ASSUME NEW x \in B PROVE n + x < n + i <=> x < i
      <4>1. x \in Nat
        BY <1>4
      <4> QED BY <2>2, <4>1
    <3>2. ASSUME NEW x \in A PROVE x < n + i
      <4>1. x \in Nat /\ x <= n
        BY <1>4
      <4> QED BY <2>2, <4>1
    <3> QED
      <4> HIDE DEF A, B, C
      <4> QED BY <1>5, <3>1, <3>2 DEF Shifted
  <2>4. {j \in C : j < n + i} = A \cup Shifted(n, {y \in B : y < i})
    <3> HIDE DEF A, B, C
    <3> QED BY <2>3
  <2>5. Rank(C, n + i) = Cardinality(A) + (h - 1)
    <3> HIDE DEF A, B, C
    <3>1. {y \in B : y < i} \in SUBSET (1..m)
      BY <1>4
    <3>2. Cardinality(A \cup Shifted(n, {y \in B : y < i}))
            = Cardinality(A) + Cardinality({y \in B : y < i})
      <4> DEFINE Low == {y \in B : y < i}
      <4>1. A \in SUBSET (1..n) /\ Low \in SUBSET (1..m)
        BY <1>4, <3>1
      <4> HIDE DEF Low
      <4>2. Cardinality(A \cup Shifted(n, Low)) = Cardinality(A) + Cardinality(Low)
        BY <4>1, ShiftedCardinality, ZenonT(60)
      <4> QED BY <4>2 DEF Low
    <3>3. Rank(C, n + i) = Cardinality(A) + Cardinality({y \in B : y < i})
      BY <2>4, <3>2 DEF Rank
    <3> QED BY <2>1, <3>3 DEF Rank
  <2>6. n + i \in C /\ Rank(C, n + i) + 1 = Cardinality(A) + h
    <3>1. n + i \in C
      <4> HIDE DEF A, B, C
      <4> QED BY <1>5 DEF Shifted
    <3> HIDE DEF A, B, C
    <3> QED BY <1>4, <2>5, <3>1
  <2>7. Place(C, Cardinality(A) + h) = n + i
    <3> HIDE DEF A, B, C
    <3> QED BY <1>4, <2>6, PlaceIs
  <2>8. Cardinality(A) + h \in 1..Cardinality(C)
    <3> HIDE DEF A, B, C
    <3> QED BY <1>4, <1>6
  <2>9. PagesIn(a \o b)[Cardinality(A) + h] = View((a \o b)[n + i].doc)
    BY <1>3, <2>7, <2>8, PagesType
  <2>10. PagesIn(b)[h] = View(b[i].doc)
    BY <2>1, PagesType
  <2> QED BY <1>3, <2>2, <2>9, <2>10
<1>9. /\ PagesIn(a \o b) \in Seq(DocPages) /\ Len(PagesIn(a \o b)) = Cardinality(C)
      /\ PagesIn(a) \in Seq(DocPages) /\ Len(PagesIn(a)) = Cardinality(A)
      /\ PagesIn(b) \in Seq(DocPages) /\ Len(PagesIn(b)) = Cardinality(B)
  BY <1>3, PagesType
<1> HIDE DEF A, B, C
<1>10. /\ PagesIn(a) \o PagesIn(b) \in Seq(DocPages)
       /\ Len(PagesIn(a) \o PagesIn(b)) = Cardinality(A) + Cardinality(B)
       /\ \A k \in 1..(Cardinality(A) + Cardinality(B)) :
            (PagesIn(a) \o PagesIn(b))[k] =
              IF k <= Cardinality(A) THEN PagesIn(a)[k] ELSE PagesIn(b)[k - Cardinality(A)]
  <2>1. ASSUME NEW s \in Seq(DocPages), NEW r \in Seq(DocPages)
        PROVE  /\ s \o r \in Seq(DocPages) /\ Len(s \o r) = Len(s) + Len(r)
               /\ \A k \in 1..(Len(s) + Len(r)) :
                    (s \o r)[k] = IF k <= Len(s) THEN s[k] ELSE r[k - Len(s)]
    BY ConcatProperties
  <2> DEFINE pa == PagesIn(a)
             pb == PagesIn(b)
  <2>2. pa \in Seq(DocPages) /\ pb \in Seq(DocPages)
        /\ Len(pa) = Cardinality(A) /\ Len(pb) = Cardinality(B)
    BY <1>9
  <2> HIDE DEF pa, pb
  <2>3. /\ pa \o pb \in Seq(DocPages) /\ Len(pa \o pb) = Len(pa) + Len(pb)
        /\ \A k \in 1..(Len(pa) + Len(pb)) :
             (pa \o pb)[k] = IF k <= Len(pa) THEN pa[k] ELSE pb[k - Len(pa)]
    BY <2>1, <2>2
  <2> QED BY <2>2, <2>3 DEF pa, pb
<1>11. ASSUME NEW k \in 1..Cardinality(C)
       PROVE  PagesIn(a \o b)[k] = (PagesIn(a) \o PagesIn(b))[k]
  <2>1. k \in 1..(Cardinality(A) + Cardinality(B))
    BY <1>6
  <2>2. CASE k <= Cardinality(A)
    <3>1. k \in 1..Cardinality(A)
      BY <1>4, <2>1, <2>2
    <3> QED BY <1>7, <1>10, <2>1, <2>2, <3>1
  <2>3. CASE ~(k <= Cardinality(A))
    <3>1. PICK h \in 1..Cardinality(B) : h = k - Cardinality(A) /\ Cardinality(A) + h = k
      <4>1. k - Cardinality(A) \in 1..Cardinality(B) /\ Cardinality(A) + (k - Cardinality(A)) = k
        BY <1>4, <2>1, <2>3
      <4> QED BY <4>1
    <3>2. PagesIn(a \o b)[k] = PagesIn(b)[h]
      BY <1>8, <3>1
    <3>3. (PagesIn(a) \o PagesIn(b))[k] = PagesIn(b)[h]
      BY <1>10, <2>1, <2>3, <3>1
    <3> QED BY <3>2, <3>3
  <2> QED BY <2>2, <2>3
<1> QED BY <1>6, <1>9, <1>10, <1>11, SeqEqual

(* Messages that are not updates bring no page, an update brings its own.  *)
LEMMA PagesFew ==
  ASSUME NEW q \in Seq(Message)
  PROVE  /\ Updates(q) = {} => PagesIn(q) = <<>>
         /\ Len(q) = 1 /\ IsContent(q[1]) => PagesIn(q) = <<View(q[1].doc)>>
<1>1. ASSUME Updates(q) = {} PROVE PagesIn(q) = <<>>
  <2>1. Len(PagesIn(q)) = 0 /\ PagesIn(q) \in Seq(DocPages)
    BY <1>1, PagesType, FS_EmptySet
  <2> QED BY <2>1
<1>2. ASSUME Len(q) = 1, IsContent(q[1]) PROVE PagesIn(q) = <<View(q[1].doc)>>
  <2>1. Updates(q) = {1}
    <3>1. DOMAIN q = {1}
      BY <1>2
    <3> QED BY <1>2, <3>1 DEF Updates
  <2>2. Cardinality({1}) = 1 /\ {1} \in SUBSET (1..1) /\ 1 \in 1..Cardinality({1})
    <3>1. Cardinality({1}) = 1
      BY FS_Singleton
    <3> QED BY <3>1
  <2>3. Place({1}, 1) \in {1}
    BY <2>2, PlaceType
  <2>4. Len(PagesIn(q)) = 1 /\ PagesIn(q) \in Seq(DocPages) /\ PagesIn(q)[1] = View(q[1].doc)
    <3>1. Place({1}, 1) = 1
      BY <2>3
    <3>2. PagesIn(q)[1] = View(q[Place(Updates(q), 1)].doc)
      BY <2>1, <2>2, PagesType
    <3>3. Len(PagesIn(q)) = Cardinality(Updates(q)) /\ PagesIn(q) \in Seq(DocPages)
      BY PagesType
    <3> QED BY <2>1, <2>2, <3>1, <3>2, <3>3
  <2> QED BY <2>4
<1> QED BY <1>1, <1>2

-----------------------------------------------------------------------------
(* Rendering and deciding.                                                 *)

LEMMA PageFacts ==
  ASSUME NEW p \in Page
  PROVE  /\ p.blocks \in Seq(Block) /\ Len(p.blocks) \in Nat
         /\ DOMAIN p.blocks = 1..Len(p.blocks)
         /\ p.nested \in SUBSET Nat /\ p.chrome \in Chromes
BY DEF Page

LEMMA RenderType ==
  ASSUME NEW d \in Docs
  PROVE  Render(d) \in Page /\ Render(d).nested \subseteq DOMAIN Render(d).blocks
<1>1. d.contents \in Seq(Contents) /\ d.nested \in SUBSET Nat /\ d.chrome \in Chromes
  BY DocsAssumption
<1>2. PICK n \in Nat : n = Len(d.contents)
  BY <1>1
<1>3. DOMAIN d.contents = 1..n
  BY <1>1, <1>2
<1>4. ASSUME NEW i \in 1..n PROVE FinalizeBlock(d.contents, i) \in Block
  <2>1. d.contents[i] \in Contents
    BY <1>1, <1>3
  <2>2. Cardinality({j \in 1..(i - 1) : d.contents[j] = d.contents[i]}) \in Nat
    <3> DEFINE S == {j \in 1..(i - 1) : d.contents[j] = d.contents[i]}
    <3>1. i - 1 \in Nat /\ S \in SUBSET (1..(i - 1))
      OBVIOUS
    <3> HIDE DEF S
    <3>2. Cardinality(S) \in Nat
      BY <3>1, BoundedFinite
    <3> QED BY <3>2 DEF S
  <2>3. Cardinality({j \in 1..i : d.contents[j] \in Codes}) \in Nat
    <3> DEFINE S == {j \in 1..i : d.contents[j] \in Codes}
    <3>1. i \in Nat /\ S \in SUBSET (1..i)
      OBVIOUS
    <3> HIDE DEF S
    <3>2. Cardinality(S) \in Nat
      BY <3>1, BoundedFinite
    <3> QED BY <3>2 DEF S
  <2> QED BY <2>1, <2>2, <2>3 DEF FinalizeBlock, Block, NoIdx
<1>5. Render(d).blocks \in [1..n -> Block]
  <2> HIDE DEF FinalizeBlock
  <2> QED BY <1>3, <1>4 DEF Render
<1>6. Render(d).blocks \in Seq(Block) /\ DOMAIN Render(d).blocks = 1..n
  BY <1>5
<1>7. Render(d).nested = d.nested /\ Render(d).chrome = d.chrome
      /\ Render(d) = [blocks |-> Render(d).blocks, nested |-> d.nested, chrome |-> d.chrome]
  BY DEF Render
<1>8. d.nested \subseteq 1..n
  BY <1>3, NestedAssumption
<1> QED BY <1>1, <1>6, <1>7, <1>8 DEF Page

LEMMA RenderedType ==
  ASSUME NEW p \in Rendered
  PROVE  p \in Page /\ p.nested \subseteq DOMAIN p.blocks
BY RenderType DEF Rendered

(* What an envelope was made for depends on what the page shows only.      *)
LEMMA FollowsView ==
  ASSUME NEW p, NEW r, NEW m, View(p) = View(r), Follows(p, m)
  PROVE  Follows(r, m)
<1>1. p.blocks = r.blocks /\ p.chrome = r.chrome
  BY DEF View
<1>2. ComputeChanges(p, m.doc) = ComputeChanges(r, m.doc)
  BY <1>1 DEF ComputeChanges
<1>3. FreshItems(p, m.doc) = FreshItems(r, m.doc)
  BY <1>1 DEF FreshItems, Ids
<1> QED BY <1>1, <1>2, <1>3 DEF Follows

(* Nothing is broadcast only if no block changed; what is broadcast was    *)
(* made for the old page.                                                  *)
LEMMA DecideFollows ==
  ASSUME NEW old \in Page, NEW new \in Rendered, NEW at \in Nat
  PROVE  LET kind == Decide(old, new)
             m == Envelope(kind, old, new, at)
         IN  /\ kind = "none" => new.blocks = old.blocks
             /\ kind # "none" => /\ m \in Message /\ IsContent(m) /\ Follows(old, m)
                                 /\ m.at = at /\ m.doc = new
                                 /\ m.kind = "reconcile" => IsFlat(new)
<1> DEFINE kind == Decide(old, new)
           m == Envelope(kind, old, new, at)
<1>1. /\ new \in Page /\ DOMAIN old.blocks = 1..Len(old.blocks)
      /\ DOMAIN new.blocks = 1..Len(new.blocks) /\ old.blocks \in Seq(Block)
      /\ new.blocks \in Seq(Block) /\ Len(new.blocks) \in Nat /\ Len(old.blocks) \in Nat
  BY RenderedType, PageFacts
<1>2. kind \in {"none", "full", "partial", "reconcile"}
  BY DEF Decide, Classify
<1>3. kind = "none" => /\ Len(old.blocks) = Len(new.blocks)
                       /\ ComputeChanges(old, new) = {}
  BY DEF Decide, Classify
<1>4. kind = "partial" => Len(old.blocks) = Len(new.blocks) /\ old.chrome = new.chrome
  BY DEF Decide, Classify
<1>5. kind = "reconcile" => old.chrome = new.chrome /\ IsFlat(new)
  BY DEF Decide, Classify
<1> HIDE DEF kind
<1>6. ASSUME kind = "none" PROVE new.blocks = old.blocks
  <2>1. \A i \in 1..Len(new.blocks) : new.blocks[i] = old.blocks[i]
    BY <1>1, <1>3, <1>6 DEF ComputeChanges
  <2>2. Len(old.blocks) = Len(new.blocks)
    BY <1>3, <1>6
  <2> QED BY <1>1, <2>1, <2>2
<1>7. ASSUME kind # "none"
      PROVE  /\ m \in Message /\ IsContent(m) /\ Follows(old, m)
             /\ m.at = at /\ m.doc = new
             /\ m.kind = "reconcile" => IsFlat(new)
  <2>1. m.kind = kind /\ m.at = at /\ m.doc = new /\ m.carried = Carried(kind, old, new)
        /\ m = [kind |-> kind, at |-> at, doc |-> new, carried |-> Carried(kind, old, new)]
    BY DEF Envelope
  <2>2. Carried(kind, old, new) \subseteq DOMAIN new.blocks
    BY DEF Carried, ComputeChanges, FreshItems
  <2>3. Carried(kind, old, new) \in SUBSET Nat
    BY <1>1, <2>2
  <2>4. kind \in Kinds /\ kind # "status"
    BY <1>2, <1>7 DEF Kinds
  <2> HIDE DEF m
  <2>5. m \in Message
    BY <2>1, <2>2, <2>3, <2>4 DEF Message
  <2>6. IsContent(m)
    BY <2>1, <2>4 DEF IsContent
  <2>7. kind = "partial" => Carried(kind, old, new) = ComputeChanges(old, new)
    BY DEF Carried
  <2>8. kind = "reconcile" => Carried(kind, old, new) = FreshItems(old, new)
    BY DEF Carried
  <2>9. Follows(old, m)
    BY <1>1, <1>4, <1>5, <2>1, <2>7, <2>8, SMTT(30) DEF Follows
  <2> QED BY <1>5, <2>1, <2>5, <2>6, <2>9
<1> QED BY <1>6, <1>7 DEF kind

-----------------------------------------------------------------------------
(* Applying.                                                               *)

LEMMA ReconcileShape ==
  ASSUME NEW d \in Page, d.nested \subseteq DOMAIN d.blocks, NEW m \in Message
  PROVE  LET e == ApplyReconcile(d, m)
             there == {d.blocks[i].id : i \in DOMAIN d.blocks \ d.nested}
             listed == {i \in DOMAIN m.doc.blocks :
                          i \in m.carried \/ m.doc.blocks[i].id \in there}
         IN  /\ e \in Page /\ e.nested \subseteq DOMAIN e.blocks /\ e.chrome = d.chrome
             /\ IsFlat(d) => IsFlat(e) /\ e.blocks = Chosen(m.doc.blocks, listed)
<1> DEFINE direct == DOMAIN d.blocks \ d.nested
           there == {d.blocks[i].id : i \in direct}
           before == {i \in d.nested : \A j \in direct : i < j}
           after == d.nested \ before
           listed == {i \in DOMAIN m.doc.blocks :
                        i \in m.carried \/ m.doc.blocks[i].id \in there}
           shown == Chosen(m.doc.blocks, listed)
           b == Cardinality(before)
           l == Cardinality(listed)
           a == Cardinality(after)
           e == ApplyReconcile(d, m)
<1>1. /\ d.blocks \in Seq(Block) /\ d.nested \in SUBSET Nat /\ d.chrome \in Chromes
      /\ m.doc \in Page
  BY PageFacts, RenderedType DEF Message
<1>2. m.doc.blocks \in Seq(Block)
  BY <1>1, PageFacts
<1>3. before \in SUBSET (DOMAIN d.blocks) /\ after \in SUBSET (DOMAIN d.blocks)
      /\ listed \in SUBSET (DOMAIN m.doc.blocks)
  OBVIOUS
<1>4. e = [blocks |-> Chosen(d.blocks, before) \o [k \in DOMAIN shown |-> Restamp(d, shown[k])]
                        \o Chosen(d.blocks, after),
           nested |-> (1..b) \cup ((b + l + 1)..(b + l + a)),
           chrome |-> d.chrome]
  BY DEF ApplyReconcile
<1>5. IsFlat(d) => before = {} /\ after = {}
  BY DEF IsFlat
<1> HIDE DEF before, after, listed, e, direct, there
<1>6. /\ Chosen(d.blocks, before) \in Seq(Block) /\ Len(Chosen(d.blocks, before)) = b /\ b \in Nat
      /\ Chosen(d.blocks, after) \in Seq(Block) /\ Len(Chosen(d.blocks, after)) = a /\ a \in Nat
      /\ shown \in Seq(Block) /\ Len(shown) = l /\ l \in Nat
  BY <1>1, <1>2, <1>3, ChosenType
<1> HIDE DEF b, l, a, shown
<1>7. [k \in DOMAIN shown |-> Restamp(d, shown[k])] = shown
  BY <1>6 DEF Restamp
<1>8. /\ e.blocks = Chosen(d.blocks, before) \o shown \o Chosen(d.blocks, after)
      /\ e.nested = (1..b) \cup ((b + l + 1)..(b + l + a)) /\ e.chrome = d.chrome
      /\ e = [blocks |-> e.blocks, nested |-> e.nested, chrome |-> e.chrome]
  BY <1>4, <1>7
<1>9. e.blocks \in Seq(Block) /\ Len(e.blocks) = b + l + a
  <2>1. ASSUME NEW x \in Seq(Block), NEW y \in Seq(Block), NEW z \in Seq(Block)
        PROVE  x \o y \o z \in Seq(Block) /\ Len(x \o y \o z) = Len(x) + Len(y) + Len(z)
    OBVIOUS
  <2>2. PICK x \in Seq(Block) : x = Chosen(d.blocks, before) /\ Len(x) = b
    BY <1>6
  <2>3. PICK y \in Seq(Block) : y = shown /\ Len(y) = l
    BY <1>6
  <2>4. PICK z \in Seq(Block) : z = Chosen(d.blocks, after) /\ Len(z) = a
    BY <1>6
  <2>5. e.blocks = x \o y \o z
    BY <1>8, <2>2, <2>3, <2>4
  <2>6. x \o y \o z \in Seq(Block) /\ Len(x \o y \o z) = Len(x) + Len(y) + Len(z)
    BY <2>1
  <2> QED BY <2>2, <2>3, <2>4, <2>5, <2>6
<1>10. DOMAIN e.blocks = 1..(b + l + a)
  BY <1>9
<1>11. e.nested \subseteq DOMAIN e.blocks /\ e.nested \in SUBSET Nat
  BY <1>6, <1>8, <1>10
<1>12. e \in Page
  BY <1>1, <1>8, <1>9, <1>11 DEF Page
<1>13. ASSUME IsFlat(d) PROVE IsFlat(e) /\ e.blocks = shown
  <2>1. b = 0 /\ a = 0
    BY <1>5, <1>13, FS_EmptySet DEF b, a
  <2>2. e.nested = {}
    BY <1>6, <1>8, <2>1
  <2>3. Chosen(d.blocks, before) = <<>> /\ Chosen(d.blocks, after) = <<>>
    BY <1>6, <2>1
  <2>4. <<>> \o shown \o <<>> = shown
    BY <1>6
  <2> QED BY <1>8, <2>2, <2>3, <2>4 DEF IsFlat
<1> QED BY <1>8, <1>11, <1>12, <1>13 DEF e, shown, listed, there, direct

LEMMA AppliedType ==
  ASSUME NEW d \in Page, d.nested \subseteq DOMAIN d.blocks, NEW m \in Message, NEW v
  PROVE  LET e == Applied(d, m, v)
         IN  /\ e \in Page /\ e.nested \subseteq DOMAIN e.blocks
             /\ m.kind = "partial" => DOMAIN e.blocks = DOMAIN d.blocks
             /\ (m.kind = "full" => IsFlat(m.doc) = IsFlat(d))
                  /\ (m.kind = "reconcile" => IsFlat(d)) => IsFlat(e) = IsFlat(d)
<1>1. /\ d.blocks \in Seq(Block) /\ d.nested \in SUBSET Nat /\ d.chrome \in Chromes
      /\ m.doc \in Page /\ m.doc.nested \subseteq DOMAIN m.doc.blocks
      /\ m.carried \subseteq DOMAIN m.doc.blocks /\ m.kind \in Kinds
  BY PageFacts, RenderedType DEF Message
<1>2. CASE m.kind = "full"
  BY <1>1, <1>2 DEF Applied
<1>3. CASE m.kind = "partial"
  <2> DEFINE e == ApplyPartial(d, m, v)
  <2>1. PICK n \in Nat : n = Len(d.blocks) /\ DOMAIN d.blocks = 1..n
    BY <1>1
  <2>2. \A i \in m.carried : m.doc.blocks[i] \in Block
    BY <1>1, PageFacts
  <2>3. \A i \in 1..n : d.blocks[i] \in Block
    BY <1>1, <2>1
  <2>4. e.blocks \in [1..n -> Block]
    BY <2>1, <2>2, <2>3 DEF ApplyPartial
  <2>5. e.blocks \in Seq(Block) /\ DOMAIN e.blocks = DOMAIN d.blocks
    BY <2>1, <2>4
  <2>6. e.nested = d.nested /\ e.chrome = d.chrome
        /\ e = [blocks |-> e.blocks, nested |-> e.nested, chrome |-> e.chrome]
    BY DEF ApplyPartial
  <2>7. e \in Page
    <3> HIDE DEF e
    <3> QED BY <1>1, <2>5, <2>6 DEF Page
  <2>8. Applied(d, m, v) = e
    BY <1>3 DEF Applied
  <2> HIDE DEF e
  <2> QED BY <1>3, <2>5, <2>6, <2>7, <2>8 DEF IsFlat
<1>4. CASE m.kind = "reconcile"
  <2>1. Applied(d, m, v) = ApplyReconcile(d, m)
    BY <1>4 DEF Applied
  <2>2. /\ ApplyReconcile(d, m) \in Page
        /\ ApplyReconcile(d, m).nested \subseteq DOMAIN ApplyReconcile(d, m).blocks
        /\ IsFlat(d) => IsFlat(ApplyReconcile(d, m))
    BY ReconcileShape
  <2> HIDE DEF ApplyReconcile
  <2>3. IsFlat(d) => IsFlat(ApplyReconcile(d, m)) = IsFlat(d)
    BY <2>2 DEF IsFlat
  <2> QED BY <1>4, <2>1, <2>2, <2>3
<1>5. CASE m.kind = "status"
  BY <1>1, <1>5 DEF Applied
<1> QED BY <1>1, <1>2, <1>3, <1>4, <1>5 DEF Kinds

(* An update that was made for what the page shows leads to its document.  *)
LEMMA AppliedView ==
  ASSUME NEW d \in Page, d.nested \subseteq DOMAIN d.blocks, NEW m \in Message, NEW v,
         IsContent(m), Follows(d, m), m.kind = "reconcile" => IsFlat(d),
         m.kind = "partial" => m.carried \ v = m.carried
  PROVE  View(Applied(d, m, v)) = View(m.doc)
<1>1. /\ d.blocks \in Seq(Block) /\ m.doc \in Page
      /\ m.doc.blocks \in Seq(Block) /\ m.kind \in Kinds
  BY PageFacts, RenderedType DEF Message
<1>2. CASE m.kind = "full"
  BY <1>2 DEF Applied
<1>3. CASE m.kind = "partial"
  <2>1. /\ DOMAIN d.blocks = DOMAIN m.doc.blocks /\ d.chrome = m.doc.chrome
        /\ m.carried = ComputeChanges(d, m.doc)
    BY <1>3 DEF Follows
  <2>2. \A i \in DOMAIN d.blocks :
          (IF i \in m.carried THEN m.doc.blocks[i] ELSE d.blocks[i]) = m.doc.blocks[i]
    BY <2>1 DEF ComputeChanges
  <2>3. ApplyPartial(d, m, v).blocks
          = [i \in DOMAIN d.blocks |-> IF i \in m.carried THEN m.doc.blocks[i] ELSE d.blocks[i]]
    BY <1>3 DEF ApplyPartial
  <2>4. m.doc.blocks = [i \in DOMAIN m.doc.blocks |-> m.doc.blocks[i]]
    BY <1>1
  <2>5. ApplyPartial(d, m, v).blocks = m.doc.blocks
    BY <2>1, <2>2, <2>3, <2>4
  <2>6. ApplyPartial(d, m, v).chrome = d.chrome /\ Applied(d, m, v) = ApplyPartial(d, m, v)
    BY <1>3 DEF ApplyPartial, Applied
  <2> QED BY <2>1, <2>5, <2>6 DEF View
<1>4. CASE m.kind = "reconcile"
  <2> DEFINE there == {d.blocks[i].id : i \in DOMAIN d.blocks \ d.nested}
             listed == {i \in DOMAIN m.doc.blocks :
                          i \in m.carried \/ m.doc.blocks[i].id \in there}
  <2>1. d.chrome = m.doc.chrome /\ m.carried = FreshItems(d, m.doc) /\ d.nested = {}
    BY <1>4 DEF Follows, IsFlat
  <2>2. there = Ids(d)
    BY <2>1 DEF Ids
  <2>3. listed = DOMAIN m.doc.blocks
    BY <2>1, <2>2 DEF FreshItems
  <2>4. /\ ApplyReconcile(d, m).chrome = d.chrome
        /\ ApplyReconcile(d, m).blocks = Chosen(m.doc.blocks, listed)
    BY <1>4, ReconcileShape
  <2>5. Chosen(m.doc.blocks, DOMAIN m.doc.blocks) = m.doc.blocks
    BY <1>1, ChosenAll
  <2>6. Applied(d, m, v) = ApplyReconcile(d, m)
    BY <1>4 DEF Applied
  <2> HIDE DEF ApplyReconcile, listed
  <2> QED BY <2>1, <2>3, <2>4, <2>5, <2>6 DEF View
<1> QED BY <1>1, <1>2, <1>3, <1>4 DEF Kinds, IsContent

-----------------------------------------------------------------------------
(* Queues: what is on the socket, and after it the log from a cursor on.   *)

Flow(s, l, c) == s \o SubSeq(l, c + 1, Len(l))

LEMMA FlowShape ==
  ASSUME NEW B, NEW s \in Seq(B), NEW l \in Seq(B), NEW c \in 0..Len(l)
  PROVE  /\ Flow(s, l, c) \in Seq(B)
         /\ Len(Flow(s, l, c)) = Len(s) + (Len(l) - c)
         /\ \A i \in 1..(Len(s) + (Len(l) - c)) :
              Flow(s, l, c)[i] = IF i <= Len(s) THEN s[i] ELSE l[c + (i - Len(s))]
<1> DEFINE r == SubSeq(l, c + 1, Len(l))
<1>1. c \in Nat /\ Len(l) \in Nat /\ c <= Len(l) /\ Len(s) \in Nat
  OBVIOUS
<1>2. r \in Seq(B) /\ Len(r) = Len(l) - c
      /\ \A k \in 1..(Len(l) - c) : r[k] = l[c + k]
  <2>1. ASSUME NEW k \in (c + 1)..Len(l) PROVE l[k] \in B
    BY <1>1
  <2>2. c + 1 \in 1..(Len(l) + 1) /\ Len(l) \in c..Len(l)
    BY <1>1
  <2>3. SubSeq(l, c + 1, Len(l)) = [k \in 1..((Len(l) - (c + 1)) + 1) |-> l[(k + (c + 1)) - 1]]
    BY <1>1
  <2>4. (Len(l) - (c + 1)) + 1 = Len(l) - c /\ Len(l) - c \in Nat
    BY <1>1
  <2>5. ASSUME NEW k \in 1..(Len(l) - c) PROVE (k + (c + 1)) - 1 = c + k /\ c + k \in (c + 1)..Len(l)
    BY <1>1
  <2>6. r = [k \in 1..(Len(l) - c) |-> l[c + k]]
    BY <2>3, <2>4, <2>5
  <2>7. r \in [1..(Len(l) - c) -> B]
    BY <2>1, <2>5, <2>6
  <2>8. r \in Seq(B)
    BY <2>4, <2>7
  <2>9. DOMAIN r = 1..(Len(l) - c)
    BY <2>6
  <2>10. Len(r) = Len(l) - c
    <3> HIDE DEF r
    <3>1. DOMAIN r = 1..Len(r) /\ Len(r) \in Nat
      BY <2>8
    <3>2. PICK n \in Nat : n = Len(l) - c
      BY <2>4
    <3> QED BY <2>9, <3>1, <3>2
  <2>11. \A k \in 1..(Len(l) - c) : r[k] = l[c + k]
    BY <2>6
  <2> QED BY <2>8, <2>10, <2>11
<1> HIDE DEF r
<1>3. /\ s \o r \in Seq(B) /\ Len(s \o r) = Len(s) + Len(r)
      /\ \A i \in 1..(Len(s) + Len(r)) :
           (s \o r)[i] = IF i <= Len(s) THEN s[i] ELSE r[i - Len(s)]
  BY <1>2, ConcatProperties
<1>4. Flow(s, l, c) = s \o r
  BY DEF Flow, r
<1>5. ASSUME NEW i \in 1..(Len(s) + (Len(l) - c))
      PROVE  Flow(s, l, c)[i] = IF i <= Len(s) THEN s[i] ELSE l[c + (i - Len(s))]
  <2>1. CASE i <= Len(s)
    BY <1>2, <1>3, <1>4, <2>1
  <2>2. CASE ~(i <= Len(s))
    <3>1. i - Len(s) \in 1..(Len(l) - c)
      BY <1>1, <2>2
    <3> QED BY <1>2, <1>3, <1>4, <2>2, <3>1
  <2> QED BY <2>1, <2>2
<1> QED BY <1>2, <1>3, <1>4, <1>5

LEMMA FlowMessages ==
  ASSUME NEW s \in Seq(Message), NEW l \in Seq(Message), NEW c \in 0..Len(l)
  PROVE  /\ Flow(s, l, c) \in Seq(Message)
         /\ Len(Flow(s, l, c)) = Len(s) + (Len(l) - c)
         /\ \A i \in 1..(Len(s) + (Len(l) - c)) :
              Flow(s, l, c)[i] = IF i <= Len(s) THEN s[i] ELSE l[c + (i - Len(s))]
BY FlowShape

(* Forwarding does not change a queue, a broadcast appends to it, and the  *)
(* tab takes its head.                                                     *)
LEMMA FlowForward ==
  ASSUME NEW B, NEW s \in Seq(B), NEW l \in Seq(B), NEW c \in 0..Len(l), c < Len(l)
  PROVE  Flow(Append(s, l[c + 1]), l, c + 1) = Flow(s, l, c)
<1> DEFINE s1 == Append(s, l[c + 1])
           f == Flow(s, l, c)
           g == Flow(s1, l, c + 1)
<1>0. ASSUME NEW S \in Seq(B), NEW L \in Seq(B), NEW C \in 0..Len(L)
      PROVE  /\ Flow(S, L, C) \in Seq(B) /\ Len(Flow(S, L, C)) = Len(S) + (Len(L) - C)
             /\ \A i \in 1..(Len(S) + (Len(L) - C)) :
                  Flow(S, L, C)[i] = IF i <= Len(S) THEN S[i] ELSE L[C + (i - Len(S))]
  BY FlowShape
<1>1. c \in Nat /\ Len(l) \in Nat /\ Len(s) \in Nat /\ c + 1 \in 1..Len(l) /\ c + 1 \in 0..Len(l)
  OBVIOUS
<1>2. s1 \in Seq(B) /\ Len(s1) = Len(s) + 1 /\ s1[Len(s) + 1] = l[c + 1]
      /\ \A i \in 1..Len(s) : s1[i] = s[i]
  BY <1>1
<1> HIDE DEF s1
<1>3. /\ g \in Seq(B) /\ Len(g) = Len(s1) + (Len(l) - (c + 1))
      /\ \A i \in 1..(Len(s1) + (Len(l) - (c + 1))) :
           g[i] = IF i <= Len(s1) THEN s1[i] ELSE l[(c + 1) + (i - Len(s1))]
  BY <1>0, <1>1, <1>2
<1>4. /\ f \in Seq(B) /\ Len(f) = Len(s) + (Len(l) - c)
      /\ \A i \in 1..(Len(s) + (Len(l) - c)) :
           f[i] = IF i <= Len(s) THEN s[i] ELSE l[c + (i - Len(s))]
  BY <1>0
<1> HIDE DEF f, g
<1>5. Len(f) = Len(g)
  BY <1>1, <1>2, <1>3, <1>4
<1>6. ASSUME NEW i \in 1..Len(f) PROVE f[i] = g[i]
  <2>1. i \in Nat /\ i \in 1..(Len(s) + (Len(l) - c)) /\ i \in 1..(Len(s1) + (Len(l) - (c + 1)))
    BY <1>1, <1>2, <1>4
  <2>2. CASE i <= Len(s)
    <3>1. i <= Len(s1) /\ i \in 1..Len(s)
      BY <1>1, <1>2, <2>1, <2>2
    <3> QED BY <1>2, <1>3, <1>4, <2>1, <2>2, <3>1
  <2>3. CASE i = Len(s) + 1
    <3>1. c + (i - Len(s)) = c + 1 /\ ~(i <= Len(s)) /\ i <= Len(s1)
      BY <1>1, <1>2, <2>3
    <3> QED BY <1>2, <1>3, <1>4, <2>1, <2>3, <3>1
  <2>4. CASE i > Len(s) + 1
    <3>1. c + (i - Len(s)) = (c + 1) + (i - Len(s1)) /\ ~(i <= Len(s)) /\ ~(i <= Len(s1))
      BY <1>1, <1>2, <2>1, <2>4
    <3> QED BY <1>3, <1>4, <2>1, <3>1
  <2> QED BY <1>1, <2>1, <2>2, <2>3, <2>4, SMTT(30)
<1>7. f = g
  BY <1>3, <1>4, <1>5, <1>6, SeqEqual
<1> QED BY <1>7 DEF f, g, s1

LEMMA FlowAppend ==
  ASSUME NEW B, NEW s \in Seq(B), NEW l \in Seq(B), NEW c \in 0..Len(l), NEW m \in B
  PROVE  Flow(s, Append(l, m), c) = Append(Flow(s, l, c), m)
<1> DEFINE l1 == Append(l, m)
           f == Flow(s, l, c)
           h == Append(f, m)
           g == Flow(s, l1, c)
<1>0. ASSUME NEW S \in Seq(B), NEW L \in Seq(B), NEW C \in 0..Len(L)
      PROVE  /\ Flow(S, L, C) \in Seq(B) /\ Len(Flow(S, L, C)) = Len(S) + (Len(L) - C)
             /\ \A i \in 1..(Len(S) + (Len(L) - C)) :
                  Flow(S, L, C)[i] = IF i <= Len(S) THEN S[i] ELSE L[C + (i - Len(S))]
  BY FlowShape
<1>1. c \in Nat /\ Len(l) \in Nat /\ Len(s) \in Nat /\ c <= Len(l)
  OBVIOUS
<1>2. l1 \in Seq(B) /\ Len(l1) = Len(l) + 1 /\ l1[Len(l) + 1] = m
      /\ \A i \in 1..Len(l) : l1[i] = l[i]
  BY <1>1
<1> HIDE DEF l1
<1>3. c \in 0..Len(l1)
  BY <1>1, <1>2
<1>4. /\ g \in Seq(B) /\ Len(g) = Len(s) + (Len(l1) - c)
      /\ \A i \in 1..(Len(s) + (Len(l1) - c)) :
           g[i] = IF i <= Len(s) THEN s[i] ELSE l1[c + (i - Len(s))]
  BY <1>0, <1>2, <1>3
<1>5. /\ f \in Seq(B) /\ Len(f) = Len(s) + (Len(l) - c)
      /\ \A i \in 1..(Len(s) + (Len(l) - c)) :
           f[i] = IF i <= Len(s) THEN s[i] ELSE l[c + (i - Len(s))]
  BY <1>0
<1> HIDE DEF f, g
<1>6. h \in Seq(B) /\ Len(h) = Len(f) + 1 /\ h[Len(f) + 1] = m
      /\ \A i \in 1..Len(f) : h[i] = f[i]
  BY <1>5
<1> HIDE DEF h
<1>7. Len(g) = Len(h) /\ Len(f) \in Nat
  BY <1>1, <1>2, <1>4, <1>5, <1>6
<1>8. ASSUME NEW i \in 1..Len(g) PROVE g[i] = h[i]
  <2>1. i \in Nat /\ i \in 1..(Len(s) + (Len(l1) - c)) /\ 1 <= i
    BY <1>4
  <2>2. CASE i <= Len(s)
    <3>1. i \in 1..Len(f) /\ i \in 1..(Len(s) + (Len(l) - c))
      BY <1>1, <1>5, <2>1, <2>2
    <3> QED BY <1>4, <1>5, <1>6, <2>1, <2>2, <3>1
  <2>3. CASE i > Len(s) /\ i <= Len(f)
    <3>1. /\ i \in 1..Len(f) /\ i \in 1..(Len(s) + (Len(l) - c)) /\ ~(i <= Len(s))
          /\ c + (i - Len(s)) \in 1..Len(l)
      BY <1>1, <1>5, <2>1, <2>3
    <3> QED BY <1>2, <1>4, <1>5, <1>6, <2>1, <3>1
  <2>4. CASE i = Len(f) + 1
    <3>1. c + (i - Len(s)) = Len(l) + 1 /\ ~(i <= Len(s))
      BY <1>1, <1>5, <2>4
    <3> QED BY <1>2, <1>4, <1>6, <2>1, <2>4, <3>1
  <2>5. i <= Len(f) + 1
    BY <1>6, <1>7
  <2> QED BY <1>1, <1>7, <2>1, <2>2, <2>3, <2>4, <2>5
<1>9. g = h
  BY <1>4, <1>6, <1>7, <1>8, SeqEqual
<1> QED BY <1>9 DEF f, g, h, l1

LEMMA FlowTail ==
  ASSUME NEW s \in Seq(Message), NEW l \in Seq(Message), NEW c \in 0..Len(l), s # <<>>
  PROVE  /\ Flow(Tail(s), l, c) = Tail(Flow(s, l, c))
         /\ Flow(s, l, c) # <<>> /\ Flow(s, l, c)[1] = Head(s)
<1> DEFINE s1 == Tail(s)
           f == Flow(s, l, c)
           h == Tail(f)
           g == Flow(s1, l, c)
<1>0. ASSUME NEW S \in Seq(Message), NEW L \in Seq(Message), NEW C \in 0..Len(L)
      PROVE  /\ Flow(S, L, C) \in Seq(Message) /\ Len(Flow(S, L, C)) = Len(S) + (Len(L) - C)
             /\ \A i \in 1..(Len(S) + (Len(L) - C)) :
                  Flow(S, L, C)[i] = IF i <= Len(S) THEN S[i] ELSE L[C + (i - Len(S))]
  BY FlowMessages
<1>1. c \in Nat /\ Len(l) \in Nat /\ Len(s) \in Nat /\ c <= Len(l) /\ Len(s) >= 1
      /\ Head(s) = s[1]
  OBVIOUS
<1>2. s1 \in Seq(Message) /\ Len(s1) = Len(s) - 1 /\ \A i \in 1..(Len(s) - 1) : s1[i] = s[i + 1]
  BY <1>1
<1> HIDE DEF s1
<1>3. /\ g \in Seq(Message) /\ Len(g) = Len(s1) + (Len(l) - c)
      /\ \A i \in 1..(Len(s1) + (Len(l) - c)) :
           g[i] = IF i <= Len(s1) THEN s1[i] ELSE l[c + (i - Len(s1))]
  BY <1>0, <1>1, <1>2
<1>4. /\ f \in Seq(Message) /\ Len(f) = Len(s) + (Len(l) - c)
      /\ \A i \in 1..(Len(s) + (Len(l) - c)) :
           f[i] = IF i <= Len(s) THEN s[i] ELSE l[c + (i - Len(s))]
  BY <1>0
<1> HIDE DEF f, g
<1>5. f # <<>> /\ Len(f) \in Nat /\ Len(f) >= 1 /\ f[1] = Head(s)
  BY <1>1, <1>4
<1>6. h \in Seq(Message) /\ Len(h) = Len(f) - 1 /\ \A i \in 1..(Len(f) - 1) : h[i] = f[i + 1]
  BY <1>4, <1>5
<1> HIDE DEF h
<1>7. Len(g) = Len(h)
  BY <1>1, <1>2, <1>3, <1>4, <1>6
<1>8. ASSUME NEW i \in 1..Len(g) PROVE g[i] = h[i]
  <2>1. /\ i \in Nat /\ i \in 1..(Len(s1) + (Len(l) - c)) /\ i \in 1..(Len(f) - 1)
        /\ i + 1 \in 1..(Len(s) + (Len(l) - c))
    BY <1>1, <1>2, <1>3, <1>4, <1>6, <1>7
  <2>2. CASE i <= Len(s1)
    <3>1. i + 1 <= Len(s) /\ i \in 1..(Len(s) - 1)
      BY <1>1, <1>2, <2>1, <2>2
    <3> QED BY <1>2, <1>3, <1>4, <1>6, <2>1, <2>2, <3>1
  <2>3. CASE ~(i <= Len(s1))
    <3>1. ~(i + 1 <= Len(s)) /\ c + ((i + 1) - Len(s)) = c + (i - Len(s1))
      BY <1>1, <1>2, <2>1, <2>3
    <3> QED BY <1>3, <1>4, <1>6, <2>1, <2>3, <3>1
  <2> QED BY <2>2, <2>3
<1>9. g = h
  BY <1>3, <1>6, <1>7, <1>8, SeqEqual
<1> QED BY <1>5, <1>9 DEF f, g, h, s1

-----------------------------------------------------------------------------
(* What happens to the chain.                                              *)

LEMMA NoneShift ==
  ASSUME NEW q, NEW r, NEW k \in Nat, NEW x \in Nat, NEW y \in Nat,
         \A i \in x..y : r[i] = q[i + k]
  PROVE  NoneIn(r, x, y) <=> NoneIn(q, x + k, y + k)
<1>1. ASSUME NoneIn(r, x, y), NEW j \in (x + k)..(y + k) PROVE ~IsContent(q[j])
  <2>1. j - k \in x..y /\ (j - k) + k = j
    OBVIOUS
  <2> QED BY <1>1, <2>1 DEF NoneIn
<1>2. ASSUME NoneIn(q, x + k, y + k), NEW i \in x..y PROVE ~IsContent(r[i])
  <2>1. i + k \in (x + k)..(y + k)
    OBVIOUS
  <2> QED BY <1>2, <2>1 DEF NoneIn
<1> QED BY <1>1, <1>2 DEF NoneIn

(* A message that is broadcast: an update of the old page that leads to    *)
(* the new one, or a status.                                               *)
Leads(m, old, new) ==
  /\ IsContent(m) => Follows(old, m) /\ View(m.doc) = View(new)
  /\ ~IsContent(m) => View(old) = View(new)

Newer(m, q) == IsContent(m) => \A i \in Updates(q) : q[i].at < m.at

LEMMA ChainAppend ==
  ASSUME NEW q \in Seq(Message), NEW m \in Message, NEW a \in Nat, NEW old, NEW new,
         Ascending(q), Ends(q, old), Chain(q, a), Newer(m, q), Leads(m, old, new)
  PROVE  LET r == Append(q, m) IN
         /\ Ascending(r) /\ Ends(r, new) /\ Chain(r, a)
         /\ \A p : (Starts(q, p) /\ (Updates(q) = {} => View(p) = View(old))) =>
                     Starts(r, p) /\ (Updates(r) = {} => View(p) = View(new))
<1> USE DEF Leads, Newer
<1> DEFINE r == Append(q, m)
<1>1. PICK n \in Nat : n = Len(q)
  OBVIOUS
<1>2. /\ r \in Seq(Message) /\ Len(r) = n + 1 /\ DOMAIN r = 1..(n + 1) /\ DOMAIN q = 1..n
      /\ r[n + 1] = m /\ \A i \in 1..n : r[i] = q[i]
  BY <1>1
<1> HIDE DEF r
<1>3. \A i \in Updates(r) : (i \in 1..n /\ i \in Updates(q)) \/ (i = n + 1 /\ IsContent(m))
  <2> SUFFICES ASSUME NEW i \in Updates(r)
               PROVE  (i \in 1..n /\ i \in Updates(q)) \/ (i = n + 1 /\ IsContent(m))
    OBVIOUS
  <2>1. i \in 1..(n + 1) /\ IsContent(r[i])
    BY <1>2 DEF Updates
  <2>2. CASE i = n + 1
    BY <1>2, <2>1, <2>2
  <2>3. CASE i \in 1..n
    <3>1. r[i] = q[i]
      BY <1>2, <2>3
    <3>2. i \in DOMAIN q /\ IsContent(q[i])
      BY <1>2, <2>1, <2>3, <3>1
    <3>3. i \in Updates(q)
      BY <3>2, Zenon DEF Updates
    <3> QED BY <2>3, <3>3
  <2> QED BY <2>1, <2>2, <2>3
<1>4. \A i \in Updates(q) : i \in 1..n /\ i \in Updates(r) /\ r[i] = q[i]
  BY <1>2 DEF Updates
<1>5. ASSUME IsContent(m) PROVE n + 1 \in Updates(r)
  <2>1. n + 1 \in DOMAIN r /\ r[n + 1] = m
    BY <1>2
  <2>2. IsContent(r[n + 1])
    BY <1>5, <2>1
  <2> QED BY <2>1, <2>2 DEF Updates
<1>6. ASSUME NEW x \in Nat, NEW y \in 0..n, x >= 1 PROVE NoneIn(r, x, y) <=> NoneIn(q, x, y)
  <2>1. \A i \in x..y : r[i] = q[i]
    BY <1>2, <1>6
  <2> QED BY <2>1 DEF NoneIn
<1>7. Ascending(r)
  <2> SUFFICES ASSUME NEW i \in Updates(r), NEW j \in Updates(r), j < i
               PROVE  r[j].at < r[i].at
    BY DEF Ascending
  <2>1. CASE i = n + 1
    <3>1. IsContent(m)
      BY <1>2, <2>1 DEF Updates
    <3>2. j \in Updates(q) /\ r[j] = q[j]
      BY <1>3, <1>4, <2>1
    <3> QED BY <1>2, <2>1, <3>1, <3>2
  <2>2. CASE i \in Updates(q)
    <3>1. j \in Updates(q)
      BY <1>3, <1>4, <2>2
    <3> QED BY <1>4, <2>2, <3>1 DEF Ascending
  <2> QED BY <1>3, <2>1, <2>2
<1>8. Ends(r, new)
  <2> SUFFICES ASSUME NEW i \in Updates(r), NoneIn(r, i + 1, Len(r))
               PROVE  View(r[i].doc) = View(new)
    BY DEF Ends
  <2>1. CASE i = n + 1
    <3>1. IsContent(m)
      BY <1>2, <2>1 DEF Updates
    <3> QED BY <1>2, <2>1, <3>1
  <2>2. CASE i \in 1..n /\ i \in Updates(q)
    <3>1. n + 1 \in (i + 1)..Len(r)
      BY <1>2, <2>2
    <3>2. ~IsContent(m)
      BY <1>2, <3>1 DEF NoneIn
    <3>3. NoneIn(r, i + 1, n)
      <4>1. \A k \in (i + 1)..n : k \in (i + 1)..Len(r)
        BY <1>2, <2>2
      <4> QED BY <4>1 DEF NoneIn
    <3>4. i + 1 \in Nat /\ i + 1 >= 1 /\ n \in 0..n
      BY <2>2
    <3>5. NoneIn(q, i + 1, Len(q))
      BY <1>1, <1>6, <3>3, <3>4
    <3>6. View(q[i].doc) = View(old)
      BY <2>2, <3>5 DEF Ends
    <3> QED BY <1>2, <2>2, <3>2, <3>6
  <2> QED BY <1>3, <2>1, <2>2
<1>9. Chain(r, a)
  <2> SUFFICES ASSUME NEW i \in Updates(r), NEW j \in Updates(r),
                      j < i, NoneIn(r, j + 1, i - 1), r[j].at > a
               PROVE  Follows(r[j].doc, r[i])
    BY DEF Chain
  <2>1. CASE i = n + 1
    <3>1. IsContent(m) /\ r[i] = m
      BY <1>2, <2>1 DEF Updates
    <3>2. j \in Updates(q) /\ j \in 1..n /\ r[j] = q[j]
      BY <1>3, <1>4, <2>1
    <3>3. NoneIn(r, j + 1, n) /\ j + 1 \in Nat /\ j + 1 >= 1 /\ n \in 0..n
      <4>1. i - 1 = n
        BY <2>1
      <4> QED BY <3>2, <4>1
    <3>4. NoneIn(q, j + 1, Len(q))
      BY <1>1, <1>6, <3>3
    <3>5. View(q[j].doc) = View(old)
      BY <3>2, <3>4 DEF Ends
    <3>6. Follows(old, m)
      BY <3>1
    <3> QED BY <3>1, <3>2, <3>5, <3>6, FollowsView
  <2>2. CASE i \in 1..n /\ i \in Updates(q)
    <3>1. j \in Updates(q) /\ j \in 1..n /\ r[j] = q[j] /\ r[i] = q[i]
      BY <1>3, <1>4, <2>2
    <3>2. j + 1 \in Nat /\ j + 1 >= 1 /\ i - 1 \in 0..n
      BY <2>2, <3>1
    <3>3. NoneIn(q, j + 1, i - 1)
      BY <1>6, <3>2
    <3> QED BY <2>2, <3>1, <3>3 DEF Chain
  <2> QED BY <1>3, <2>1, <2>2
<1>10. ASSUME NEW p, Starts(q, p), Updates(q) = {} => View(p) = View(old)
       PROVE  Starts(r, p) /\ (Updates(r) = {} => View(p) = View(new))
  <2>1. ASSUME NEW i \in Updates(r), NoneIn(r, 1, i - 1) PROVE Follows(p, r[i])
    <3>1. CASE i = n + 1
      <4>1. IsContent(m) /\ r[i] = m
        BY <1>2, <3>1 DEF Updates
      <4>2. NoneIn(r, 1, n)
        <5>1. i - 1 = n
          BY <3>1
        <5> QED BY <2>1, <5>1
      <4>3. NoneIn(q, 1, n)
        <5>1. 1 \in Nat /\ 1 >= 1 /\ n \in 0..n
          OBVIOUS
        <5> QED BY <1>6, <4>2, <5>1
      <4>4. Updates(q) = {}
        BY <1>2, <4>3 DEF Updates, NoneIn
      <4>5. View(p) = View(old) /\ Follows(old, m)
        BY <1>10, <4>1, <4>4
      <4> QED BY <4>1, <4>5, FollowsView
    <3>2. CASE i \in 1..n /\ i \in Updates(q)
      <4>1. 1 \in Nat /\ 1 >= 1 /\ i - 1 \in 0..n
        BY <3>2
      <4>2. NoneIn(q, 1, i - 1)
        BY <1>6, <2>1, <4>1
      <4> QED BY <1>2, <1>10, <3>2, <4>2 DEF Starts
    <3> QED BY <1>3, <3>1, <3>2
  <2>2. ASSUME Updates(r) = {} PROVE View(p) = View(new)
    <3>1. ~IsContent(m) /\ Updates(q) = {}
      BY <1>4, <1>5, <2>2
    <3> QED BY <1>10, <3>1
  <2> QED BY <2>1, <2>2 DEF Starts
<1> QED BY <1>7, <1>8, <1>9, <1>10 DEF r

(* The head is taken.                                                      *)
LEMMA ChainTail ==
  ASSUME NEW q \in Seq(Message), q # <<>>, NEW a \in Nat, NEW p, NEW new,
         Ascending(q), Ends(q, new), Chain(q, a)
  PROVE  LET r == Tail(q) IN
         /\ Ascending(r) /\ Ends(r, new) /\ \A b \in Nat : b >= a => Chain(r, b)
         /\ ~IsContent(q[1]) => /\ Starts(q, p) => Starts(r, p)
                                /\ Updates(r) = {} => Updates(q) = {}
         /\ IsContent(q[1]) /\ Updates(r) = {} => View(q[1].doc) = View(new)
         /\ IsContent(q[1]) /\ q[1].at > a => Chain(r, 0) /\ Starts(r, q[1].doc)
<1> DEFINE r == Tail(q)
<1>1. PICK n \in Nat : n = Len(q) - 1
  OBVIOUS
<1>2. /\ r \in Seq(Message) /\ Len(r) = n /\ DOMAIN r = 1..n /\ DOMAIN q = 1..(n + 1)
      /\ Len(q) = n + 1 /\ \A i \in 1..n : r[i] = q[i + 1]
  BY <1>1
<1> HIDE DEF r
<1>3. \A i \in Updates(r) : i \in 1..n /\ i + 1 \in Updates(q) /\ r[i] = q[i + 1]
  BY <1>2 DEF Updates
<1>4. \A i \in Updates(q) : i = 1 \/ (i - 1 \in Updates(r) /\ i \in 2..(n + 1))
  <2>1. ASSUME NEW i \in Updates(q), i # 1 PROVE i - 1 \in Updates(r) /\ i \in 2..(n + 1)
    <3>1. i \in 1..(n + 1) /\ IsContent(q[i])
      BY <1>2 DEF Updates
    <3>2. i - 1 \in 1..n /\ (i - 1) + 1 = i /\ i \in 2..(n + 1)
      BY <2>1, <3>1
    <3> QED BY <1>2, <3>1, <3>2 DEF Updates
  <2> QED BY <2>1
<1>5. ASSUME NEW x \in 1..(n + 1), NEW y \in 0..n PROVE NoneIn(r, x, y) <=> NoneIn(q, x + 1, y + 1)
  <2>1. \A i \in x..y : r[i] = q[i + 1]
    BY <1>2
  <2>2. ASSUME NEW X \in Nat, NEW Y \in Nat, \A i \in X..Y : r[i] = q[i + 1]
        PROVE  NoneIn(r, X, Y) <=> NoneIn(q, X + 1, Y + 1)
    BY <2>2, NoneShift
  <2> QED BY <2>1, <2>2
<1>6. IsContent(q[1]) => 1 \in Updates(q)
  BY <1>2 DEF Updates
<1>7. Ascending(r)
  <2> SUFFICES ASSUME NEW i \in Updates(r), NEW j \in Updates(r), j < i
               PROVE  r[j].at < r[i].at
    BY DEF Ascending
  <2>1. j + 1 < i + 1
    BY <1>3
  <2> QED BY <1>3, <2>1 DEF Ascending
<1>8. Ends(r, new)
  <2> SUFFICES ASSUME NEW i \in Updates(r), NoneIn(r, i + 1, Len(r))
               PROVE  View(r[i].doc) = View(new)
    BY DEF Ends
  <2>1. i + 1 \in 1..(n + 1) /\ n \in 0..n
    BY <1>3
  <2>2. NoneIn(q, (i + 1) + 1, Len(q))
    BY <1>2, <1>5, <2>1
  <2> QED BY <1>3, <2>2 DEF Ends
<1>9. ASSUME NEW i \in Updates(r), NEW j \in Updates(r),
             j < i, NoneIn(r, j + 1, i - 1), r[j].at > a
      PROVE  Follows(r[j].doc, r[i])
  <2>1. j + 1 \in 1..(n + 1) /\ i - 1 \in 0..n /\ j + 1 < i + 1 /\ (i - 1) + 1 = (i + 1) - 1
    BY <1>3, <1>9
  <2>2. NoneIn(q, (j + 1) + 1, (i - 1) + 1)
    BY <1>5, <1>9, <2>1
  <2>3. NoneIn(q, (j + 1) + 1, (i + 1) - 1)
    BY <2>1, <2>2
  <2> QED BY <1>3, <1>9, <2>1, <2>3 DEF Chain
<1>10. ASSUME NEW b \in Nat, b >= a PROVE Chain(r, b)
  <2> SUFFICES ASSUME NEW i \in Updates(r), NEW j \in Updates(r),
                      j < i, NoneIn(r, j + 1, i - 1), r[j].at > b
               PROVE  Follows(r[j].doc, r[i])
    BY DEF Chain
  <2>1. r[j].at \in Nat
    BY <1>2, <1>3 DEF Message
  <2>2. r[j].at > a
    BY <1>10, <2>1
  <2> QED BY <1>9, <2>2
<1>11. ASSUME ~IsContent(q[1]), Starts(q, p) PROVE Starts(r, p)
  <2> SUFFICES ASSUME NEW i \in Updates(r), NoneIn(r, 1, i - 1) PROVE Follows(p, r[i])
    BY DEF Starts
  <2>1. i - 1 \in 0..n /\ 1 \in 1..(n + 1) /\ (i - 1) + 1 = i
    BY <1>3
  <2>2. NoneIn(q, 1 + 1, i)
    BY <1>5, <2>1
  <2>3. \A k \in 1..i : k = 1 \/ k \in 2..i
    BY <2>1
  <2>4. NoneIn(q, 1, i)
    BY <1>11, <2>2, <2>3 DEF NoneIn
  <2>5. (i + 1) - 1 = i
    BY <2>1
  <2> QED BY <1>3, <1>11, <2>4, <2>5 DEF Starts
<1>12. ASSUME ~IsContent(q[1]), Updates(r) = {} PROVE Updates(q) = {}
  <2>1. 1 \notin Updates(q)
    BY <1>12 DEF Updates
  <2> QED BY <1>4, <1>12, <2>1
<1>13. ASSUME IsContent(q[1]), Updates(r) = {} PROVE View(q[1].doc) = View(new)
  <2>1. NoneIn(q, 1 + 1, Len(q))
    <3>1. ASSUME NEW k \in 2..(n + 1), IsContent(q[k]) PROVE FALSE
      <4>1. k \in Updates(q) /\ k # 1
        BY <1>2, <3>1 DEF Updates
      <4> QED BY <1>4, <1>13, <4>1
    <3> QED BY <1>2, <3>1 DEF NoneIn
  <2> QED BY <1>6, <1>13, <2>1 DEF Ends
<1>14. ASSUME IsContent(q[1]), q[1].at > a PROVE Chain(r, 0) /\ Starts(r, q[1].doc)
  <2>1. ASSUME NEW i \in Updates(r) PROVE r[i].at > a
    <3>1. i + 1 \in Updates(q) /\ 1 \in Updates(q) /\ 1 < i + 1 /\ r[i] = q[i + 1]
      BY <1>3, <1>6, <1>14
    <3>2. q[1].at < r[i].at
      BY <3>1 DEF Ascending
    <3>3. q[1].at \in Nat /\ r[i].at \in Nat
      BY <1>2, <1>3 DEF Message
    <3> QED BY <1>14, <3>2, <3>3
  <2>2. Chain(r, 0)
    BY <1>9, <2>1 DEF Chain
  <2>3. ASSUME NEW i \in Updates(r), NoneIn(r, 1, i - 1) PROVE Follows(q[1].doc, r[i])
    <3>1. i - 1 \in 0..n /\ 1 \in 1..(n + 1) /\ (i - 1) + 1 = (i + 1) - 1 /\ 1 < i + 1
      BY <1>3
    <3>2. NoneIn(q, 1 + 1, (i - 1) + 1)
      BY <1>5, <2>3, <3>1
    <3>3. NoneIn(q, 1 + 1, (i + 1) - 1)
      BY <3>1, <3>2
    <3> QED BY <1>3, <1>6, <1>14, <3>1, <3>3 DEF Chain
  <2> QED BY <2>2, <2>3 DEF Starts
<1> QED BY <1>7, <1>8, <1>10, <1>11, <1>12, <1>13, <1>14 DEF r

(* A piece of q, of length e, gave way to one full page, numbered c.       *)
Spliced(q, r, n, N, e, p, c, a, b, f, g) ==
  /\ e >= 1 /\ n < N /\ N = Len(r) /\ n <= Len(q) /\ Len(q) = (N + e) - 1
  /\ \A i \in 1..n : r[i] = q[i]
  /\ \A i \in (n + 2)..N : r[i] = q[i + (e - 1)]
  /\ r[n + 1].kind = "full" /\ r[n + 1].doc = p /\ r[n + 1].at = c
  /\ \A i \in Updates(r) : (i <= n => r[i].at < c) /\ (i > n + 1 => r[i].at > c)
  /\ b = c \/ (b = a /\ NoneIn(r, n + 2, N))
  /\ g => f /\ NoneIn(r, n + 2, N)

(* The whole page takes the place of what the channel dropped: the queue   *)
(* keeps its first n messages and, e - 1 places down, those after it.      *)
LEMMA SoundSplice ==
  ASSUME NEW q \in Seq(Message), NEW r \in Seq(Message), NEW n \in Nat, NEW N \in Nat,
         NEW e \in Nat, NEW p, NEW c \in Nat, NEW a \in 0..c, NEW b \in Nat,
         NEW f, NEW g, Spliced(q, r, n, N, e, p, c, a, b, f, g),
         NEW d, Sound(q, p, a, f, d)
  PROVE  Sound(r, p, b, g, d)
<1> USE DEF Spliced
<1>1. /\ Len(q) \in Nat /\ DOMAIN q = 1..Len(q) /\ DOMAIN r = 1..N
      /\ \A i \in Updates(r) : i \in 1..N /\ r[i] \in Message /\ r[i].at \in Nat
  <2>1. Len(q) \in Nat /\ DOMAIN q = 1..Len(q) /\ DOMAIN r = 1..N
    OBVIOUS
  <2>2. \A i \in 1..N : r[i] \in Message /\ r[i].at \in Nat
    BY SMTT(30) DEF Message
  <2> QED BY <2>1, <2>2 DEF Updates
<1>2. n + 1 \in 1..N /\ n + 1 \in Updates(r) /\ IsContent(r[n + 1])
  <2>1. n + 1 \in 1..N
    OBVIOUS
  <2>2. IsContent(r[n + 1])
    BY DEF IsContent
  <2> QED BY <1>1, <2>1, <2>2 DEF Updates
<1>3. ASSUME NEW i \in Updates(r), i <= n
      PROVE  i \in 1..n /\ i \in Updates(q) /\ r[i] = q[i]
  <2>1. i \in 1..n /\ r[i] = q[i] /\ i \in DOMAIN q
    BY <1>1, <1>3
  <2>2. IsContent(q[i])
    BY <2>1 DEF Updates
  <2> QED BY <2>1, <2>2 DEF Updates
<1>4. ASSUME NEW i \in Updates(r), i > n + 1
      PROVE  i \in (n + 2)..N /\ i + (e - 1) \in Updates(q) /\ r[i] = q[i + (e - 1)]
  <2>1. i \in (n + 2)..N
    BY <1>1, <1>4
  <2>2. r[i] = q[i + (e - 1)] /\ i + (e - 1) \in DOMAIN q
    BY <1>1, <2>1
  <2>3. IsContent(q[i + (e - 1)])
    BY <2>2 DEF Updates
  <2> QED BY <2>1, <2>2, <2>3 DEF Updates
<1>5. ASSUME NEW i \in Updates(r) PROVE i <= n \/ i = n + 1 \/ i > n + 1
  BY <1>1
<1>6. ASSUME NEW x \in Nat, NEW y \in Nat, x >= 1, y <= n
      PROVE  NoneIn(r, x, y) <=> NoneIn(q, x, y)
  <2>1. \A k \in x..y : k \in 1..n
    BY <1>6
  <2>2. \A k \in x..y : r[k] = q[k]
    BY <2>1
  <2> QED BY <2>2 DEF NoneIn
<1>7. ASSUME NEW x \in Nat, NEW y \in Nat, x >= n + 2, y <= N
      PROVE  NoneIn(r, x, y) <=> NoneIn(q, x + (e - 1), y + (e - 1))
  <2>1. \A k \in x..y : k \in (n + 2)..N
    BY <1>7
  <2>2. \A k \in x..y : r[k] = q[k + (e - 1)]
    BY <2>1
  <2>3. PICK k \in Nat : k = e - 1
    OBVIOUS
  <2>4. \A i \in x..y : r[i] = q[i + k]
    BY <2>2, <2>3
  <2>5. NoneIn(r, x, y) <=> NoneIn(q, x + k, y + k)
    BY <2>4, NoneShift
  <2> QED BY <2>3, <2>5
<1>8. \A i \in Updates(r) : SameLayout(r[i], p)
  <2> SUFFICES ASSUME NEW i \in Updates(r) PROVE SameLayout(r[i], p)
    OBVIOUS
  <2>1. CASE i <= n
    BY <1>3, <2>1 DEF Sound
  <2>2. CASE i = n + 1
    BY <2>2 DEF SameLayout
  <2>3. CASE i > n + 1
    BY <1>4, <2>3 DEF Sound
  <2> QED BY <1>5, <2>1, <2>2, <2>3
<1>9. Ascending(r)
  <2> SUFFICES ASSUME NEW i \in Updates(r), NEW j \in Updates(r), j < i
               PROVE  r[j].at < r[i].at
    BY DEF Ascending
  <2>1. i \in 1..N /\ j \in 1..N /\ r[i].at \in Nat /\ r[j].at \in Nat
    BY <1>1
  <2>2. CASE i <= n
    <3>1. j <= n
      BY <2>1, <2>2
    <3> QED BY <1>3, <2>2, <3>1 DEF Sound, Ascending
  <2>3. CASE i = n + 1
    <3>1. j <= n
      BY <2>1, <2>3
    <3> QED BY <2>3, <3>1
  <2>4. CASE i > n + 1
    <3>1. r[i].at > c
      BY <2>4
    <3>2. CASE j <= n
      <4>1. r[j].at < c
        BY <3>2
      <4> QED BY <2>1, <3>1, <4>1
    <3>3. CASE j = n + 1
      BY <3>1, <3>3
    <3>4. CASE j > n + 1
      <4>1. j + (e - 1) < i + (e - 1)
        BY <2>1
      <4> QED BY <1>4, <2>4, <3>4, <4>1 DEF Sound, Ascending
    <3> QED BY <1>5, <3>2, <3>3, <3>4
  <2> QED BY <1>5, <2>2, <2>3, <2>4
<1>10. Ends(r, p)
  <2> SUFFICES ASSUME NEW i \in Updates(r), NoneIn(r, i + 1, Len(r))
               PROVE  View(r[i].doc) = View(p)
    BY DEF Ends
  <2>1. CASE i <= n
    <3>1. n + 1 \in (i + 1)..Len(r)
      BY <1>1, <2>1
    <3> QED BY <1>2, <3>1 DEF NoneIn
  <2>2. CASE i = n + 1
    BY <2>2
  <2>3. CASE i > n + 1
    <3>1. i + 1 \in Nat /\ i + 1 >= n + 2 /\ N <= N
          /\ (i + 1) + (e - 1) = (i + (e - 1)) + 1 /\ N + (e - 1) = Len(q)
      BY <1>1, <2>3
    <3>2. NoneIn(q, (i + (e - 1)) + 1, Len(q))
      BY <1>7, <3>1
    <3> QED BY <1>4, <2>3, <3>2 DEF Sound, Ends
  <2> QED BY <1>5, <2>1, <2>2, <2>3
<1>11. Chain(r, b)
  <2> SUFFICES ASSUME NEW i \in Updates(r), NEW j \in Updates(r),
                      j < i, NoneIn(r, j + 1, i - 1), r[j].at > b
               PROVE  Follows(r[j].doc, r[i])
    BY DEF Chain
  <2>1. i \in 1..N /\ j \in 1..N /\ r[i].at \in Nat /\ r[j].at \in Nat
    BY <1>1
  <2>2. CASE i = n + 1
    BY <2>2 DEF Follows
  <2>3. CASE i <= n
    <3>1. j <= n
      BY <2>1, <2>3
    <3>2. b = a
      <4>1. r[j].at < c
        BY <3>1
      <4> QED BY <2>1, <4>1
    <3>3. j + 1 \in Nat /\ i - 1 \in Nat /\ j + 1 >= 1 /\ i - 1 <= n
      BY <2>1, <2>3
    <3>4. NoneIn(q, j + 1, i - 1)
      BY <1>6, <3>3
    <3> QED BY <1>3, <2>3, <3>1, <3>2, <3>4 DEF Sound, Chain
  <2>4. CASE i > n + 1
    <3>1. b = c
      <4>1. i \in (n + 2)..N
        BY <2>1, <2>4
      <4>2. ~NoneIn(r, n + 2, N)
        BY <4>1 DEF NoneIn, Updates
      <4> QED BY <4>2
    <3>2. j > n + 1
      <4>1. j <= n => r[j].at < c
        OBVIOUS
      <4>2. j # n + 1
        BY <2>1, <3>1, SMTT(30)
      <4> QED BY <2>1, <3>1, <4>1, <4>2
    <3>3. /\ j + 1 \in Nat /\ i - 1 \in Nat /\ j + 1 >= n + 2 /\ i - 1 <= N
          /\ (j + 1) + (e - 1) = (j + (e - 1)) + 1 /\ (i - 1) + (e - 1) = (i + (e - 1)) - 1
          /\ j + (e - 1) < i + (e - 1)
      BY <2>1, <2>4, <3>2
    <3>4. NoneIn(q, (j + (e - 1)) + 1, (i + (e - 1)) - 1)
      BY <1>7, <3>3
    <3>5. r[j].at > a
      BY <2>1, <3>1, SMTT(30)
    <3> QED BY <1>4, <2>4, <3>2, <3>3, <3>4, <3>5 DEF Sound, Chain
  <2> QED BY <1>5, <2>2, <2>3, <2>4
<1>12. ASSUME g PROVE Starts(r, d) /\ (Updates(r) = {} => View(d) = View(p))
  <2>1. f /\ NoneIn(r, n + 2, N)
    BY <1>12
  <2>2. Starts(q, d)
    BY <2>1 DEF Sound
  <2>3. ASSUME NEW i \in Updates(r), NoneIn(r, 1, i - 1) PROVE Follows(d, r[i])
    <3>1. CASE i <= n
      <4>1. i \in 1..n /\ 1 \in Nat /\ i - 1 \in Nat /\ 1 >= 1 /\ i - 1 <= n
        BY <1>3, <3>1
      <4>2. NoneIn(q, 1, i - 1)
        BY <1>6, <2>3, <4>1
      <4> QED BY <1>3, <2>2, <3>1, <4>2 DEF Starts
    <3>2. CASE i = n + 1
      BY <3>2 DEF Follows
    <3>3. CASE i > n + 1
      <4>1. i \in (n + 2)..N
        BY <1>4, <3>3
      <4> QED BY <2>1, <4>1 DEF NoneIn, Updates
    <3> QED BY <1>5, <3>1, <3>2, <3>3
  <2> QED BY <1>2, <2>3 DEF Starts
<1> QED BY <1>8, <1>9, <1>10, <1>11, <1>12 DEF Sound

-----------------------------------------------------------------------------
(* What happens to a sound queue.                                          *)

LEMMA SoundEmpty ==
  ASSUME NEW p, NEW a, NEW f, NEW d, f => View(d) = View(p)
  PROVE  Sound(<<>>, p, a, f, d)
<1>1. Updates(<<>>) = {}
  BY DEF Updates
<1> QED BY <1>1 DEF Sound, Ascending, Ends, Chain, Starts

LEMMA SoundAppend ==
  ASSUME NEW q \in Seq(Message), NEW m \in Message, NEW a \in Nat, NEW f, NEW d,
         NEW old, NEW new, Sound(q, old, a, f, d),
         IsFlat(old) <=> IsFlat(new), SameLayout(m, new), Newer(m, q), Leads(m, old, new)
  PROVE  Sound(Append(q, m), new, a, f, d)
<1> DEFINE r == Append(q, m)
<1>1. Ascending(q) /\ Ends(q, old) /\ Chain(q, a)
  BY DEF Sound
<1>2. /\ Ascending(r) /\ Ends(r, new) /\ Chain(r, a)
      /\ \A p : (Starts(q, p) /\ (Updates(q) = {} => View(p) = View(old))) =>
                  Starts(r, p) /\ (Updates(r) = {} => View(p) = View(new))
  BY <1>1, ChainAppend
<1>3. ASSUME NEW i \in Updates(r) PROVE SameLayout(r[i], new)
  <2>1. PICK n \in Nat : n = Len(q)
    OBVIOUS
  <2>2. /\ DOMAIN r = 1..(n + 1) /\ DOMAIN q = 1..n
        /\ r[n + 1] = m /\ \A k \in 1..n : r[k] = q[k]
    BY <2>1
  <2>3. i \in 1..(n + 1) /\ IsContent(r[i])
    BY <2>2 DEF Updates
  <2>4. CASE i = n + 1
    BY <2>2, <2>4
  <2>5. CASE i \in 1..n
    <3>1. i \in Updates(q) /\ r[i] = q[i]
      BY <2>2, <2>3, <2>5 DEF Updates
    <3>2. SameLayout(q[i], old)
      BY <3>1 DEF Sound
    <3> QED BY <3>1, <3>2 DEF SameLayout
  <2>6. i = n + 1 \/ i \in 1..n
    BY <2>3
  <2> QED BY <2>4, <2>5, <2>6
<1> HIDE DEF r
<1>4. Sound(r, new, a, f, d)
  BY <1>2, <1>3 DEF Sound
<1> QED BY <1>4 DEF r

(* The head of the queue is a status, is refused, or is applied.           *)
LEMMA SoundTail ==
  ASSUME NEW q \in Seq(Message), q # <<>>, NEW a \in Nat, NEW f, NEW d, NEW p,
         Sound(q, p, a, f, d)
  PROVE  /\ ~IsContent(q[1]) => Sound(Tail(q), p, a, f, d)
         /\ \A e : \A b \in Nat : b >= a => Sound(Tail(q), p, b, FALSE, e)
         /\ IsContent(q[1]) /\ q[1].at > a =>
              \A e : View(e) = View(q[1].doc) => Sound(Tail(q), p, 0, TRUE, e)
<1> DEFINE r == Tail(q)
<1>1. Ascending(q) /\ Ends(q, p) /\ Chain(q, a)
  BY DEF Sound
<1>2. /\ Ascending(r) /\ Ends(r, p) /\ \A b \in Nat : b >= a => Chain(r, b)
      /\ ~IsContent(q[1]) => /\ Starts(q, d) => Starts(r, d)
                             /\ Updates(r) = {} => Updates(q) = {}
      /\ IsContent(q[1]) /\ Updates(r) = {} => View(q[1].doc) = View(p)
      /\ IsContent(q[1]) /\ q[1].at > a => Chain(r, 0) /\ Starts(r, q[1].doc)
  BY <1>1, ChainTail
<1>3. ASSUME NEW i \in Updates(r) PROVE SameLayout(r[i], p)
  <2>1. PICK n \in Nat : n = Len(q) - 1
    OBVIOUS
  <2>2. DOMAIN r = 1..n /\ DOMAIN q = 1..(n + 1) /\ \A k \in 1..n : r[k] = q[k + 1]
    BY <2>1
  <2>3. i + 1 \in Updates(q) /\ r[i] = q[i + 1]
    BY <2>2 DEF Updates
  <2> QED BY <2>3 DEF Sound
<1> HIDE DEF r
<1>4. ASSUME ~IsContent(q[1]) PROVE Sound(r, p, a, f, d)
  BY <1>2, <1>3, <1>4 DEF Sound
<1>5. ASSUME NEW b \in Nat, NEW e, b >= a PROVE Sound(r, p, b, FALSE, e)
  BY <1>2, <1>3, <1>5 DEF Sound
<1>6. ASSUME IsContent(q[1]), q[1].at > a, NEW e, View(e) = View(q[1].doc)
      PROVE  Sound(r, p, 0, TRUE, e)
  <2>1. Starts(r, e)
    <3> SUFFICES ASSUME NEW i \in Updates(r), NoneIn(r, 1, i - 1) PROVE Follows(e, r[i])
      BY DEF Starts
    <3>1. Follows(q[1].doc, r[i])
      BY <1>2, <1>6 DEF Starts
    <3> QED BY <1>6, <3>1, FollowsView
  <2> QED BY <1>2, <1>3, <1>6, <2>1 DEF Sound
<1> QED BY <1>4, <1>5, <1>6 DEF r

(* The pages of a queue: appended at its end, taken at its head, and the   *)
(* last one the published page.                                            *)
LEMMA PagesAppend ==
  ASSUME NEW q \in Seq(Message), NEW m \in Message
  PROVE  PagesIn(Append(q, m)) =
           IF IsContent(m) THEN Append(PagesIn(q), View(m.doc)) ELSE PagesIn(q)
<1>1. Append(q, m) = q \o <<m>> /\ <<m>> \in Seq(Message) /\ Len(<<m>>) = 1 /\ <<m>>[1] = m
  OBVIOUS
<1>2. PagesIn(Append(q, m)) = PagesIn(q) \o PagesIn(<<m>>)
  BY <1>1, PagesConcat
<1>3. PagesIn(q) \in Seq(DocPages)
  BY PagesType
<1>4. CASE IsContent(m)
  <2>1. PagesIn(<<m>>) = <<View(m.doc)>>
    BY <1>1, <1>4, PagesFew
  <2>2. View(m.doc) \in DocPages
    BY DEF Message, Rendered, DocPages
  <2>3. ASSUME NEW s \in Seq(DocPages), NEW v \in DocPages PROVE s \o <<v>> = Append(s, v)
    OBVIOUS
  <2> QED BY <1>2, <1>3, <1>4, <2>1, <2>2, <2>3
<1>5. CASE ~IsContent(m)
  <2>1. Updates(<<m>>) = {}
    BY <1>1, <1>5 DEF Updates
  <2>2. PagesIn(<<m>>) = <<>>
    BY <1>1, <2>1, PagesFew
  <2>3. ASSUME NEW s \in Seq(DocPages) PROVE s \o <<>> = s
    OBVIOUS
  <2> QED BY <1>2, <1>3, <1>5, <2>2, <2>3
<1> QED BY <1>4, <1>5

LEMMA PagesHead ==
  ASSUME NEW q \in Seq(Message), q # <<>>
  PROVE  PagesIn(q) = IF IsContent(q[1]) THEN <<View(q[1].doc)>> \o PagesIn(Tail(q))
                      ELSE PagesIn(Tail(q))
<1>1. /\ Tail(q) \in Seq(Message) /\ q[1] \in Message /\ <<q[1]>> \in Seq(Message)
      /\ Len(<<q[1]>>) = 1 /\ <<q[1]>>[1] = q[1]
  OBVIOUS
<1>2. q = <<q[1]>> \o Tail(q)
  OBVIOUS
<1>3. PagesIn(q) = PagesIn(<<q[1]>>) \o PagesIn(Tail(q))
  <2>1. ASSUME NEW x \in Seq(Message), NEW y \in Seq(Message), q = x \o y
        PROVE  PagesIn(q) = PagesIn(x) \o PagesIn(y)
    BY <2>1, PagesConcat
  <2> QED BY <1>1, <1>2, <2>1
<1>4. PagesIn(Tail(q)) \in Seq(DocPages)
  BY <1>1, PagesType
<1>5. CASE IsContent(q[1])
  <2>1. PagesIn(<<q[1]>>) = <<View(q[1].doc)>>
    BY <1>1, <1>5, PagesFew
  <2> QED BY <1>3, <1>5, <2>1
<1>6. CASE ~IsContent(q[1])
  <2>1. Updates(<<q[1]>>) = {}
    BY <1>1, <1>6 DEF Updates
  <2>2. PagesIn(<<q[1]>>) = <<>>
    BY <1>1, <2>1, PagesFew
  <2>3. ASSUME NEW s \in Seq(DocPages) PROVE <<>> \o s = s
    OBVIOUS
  <2> QED BY <1>3, <1>4, <1>6, <2>2, <2>3
<1> QED BY <1>5, <1>6

LEMMA PagesEnd ==
  ASSUME NEW q \in Seq(Message), NEW p, Ends(q, p), Updates(q) # {}
  PROVE  Len(PagesIn(q)) > 0 /\ PagesIn(q)[Len(PagesIn(q))] = View(p)
<1> DEFINE S == Updates(q)
<1>1. /\ S \in SUBSET (1..Len(q)) /\ S \in SUBSET Nat /\ IsFiniteSet(S) /\ Cardinality(S) \in Nat
      /\ Len(q) \in Nat /\ S \in SUBSET (DOMAIN q) /\ DOMAIN q = 1..Len(q)
  BY UpdatesType
<1>2. /\ Len(PagesIn(q)) = Cardinality(S)
      /\ \A k \in 1..Cardinality(S) : PagesIn(q)[k] = View(q[Place(S, k)].doc)
  BY PagesType
<1>3. \A k \in DOMAIN q : IsContent(q[k]) => k \in S
  BY DEF Updates
<1> HIDE DEF S
<1>4. Cardinality(S) # 0
  BY <1>1, FS_EmptySet DEF S
<1>5. Cardinality(S) \in 1..Cardinality(S)
  BY <1>1, <1>4
<1>6. PICK i \in S : i = Place(S, Cardinality(S)) /\ Rank(S, i) = Cardinality(S) - 1
  BY <1>1, <1>5, PlaceType
<1>7. ASSUME NEW j \in S, i < j PROVE FALSE
  <2>1. Rank(S, j) < Cardinality(S) /\ Rank(S, i) < Rank(S, j) /\ Rank(S, j) \in Nat
    BY <1>1, <1>7, RankLess, RankType
  <2> QED BY <1>1, <1>6, <2>1
<1>8. NoneIn(q, i + 1, Len(q))
  <2> SUFFICES ASSUME NEW k \in (i + 1)..Len(q), IsContent(q[k]) PROVE FALSE
    BY DEF NoneIn
  <2>1. i \in Nat /\ k \in 1..Len(q) /\ i < k
    BY <1>1
  <2> QED BY <1>1, <1>3, <1>7, <2>1
<1>9. View(q[i].doc) = View(p)
  BY <1>8 DEF Ends, S
<1> QED BY <1>1, <1>2, <1>4, <1>5, <1>6, <1>9

-----------------------------------------------------------------------------
(* What each action does to its tab; it leaves the other tabs alone.       *)

Others(t) ==
  \A u \in Tabs : u # t =>
    /\ st'[u] = st[u] /\ dom'[u] = dom[u] /\ cursor'[u] = cursor[u] /\ sock'[u] = sock[u]
    /\ edit'[u] = edit[u] /\ marked'[u] = marked[u] /\ lost'[u] = lost[u]

LEMMA TypeStep ==
  ASSUME TypeInv, NEW t \in Tabs, UNCHANGED serverVars, VarsTyped', Others(t), TabTyped(t)'
  PROVE  TypeInv'
<1>1. page' = page /\ log' = log
  BY DEF serverVars
<1>2. ServerTyped'
  BY <1>1 DEF TypeInv, ServerTyped
<1>3. ASSUME NEW u \in Tabs PROVE TabTyped(u)'
  <2>1. CASE u = t
    BY <2>1
  <2>2. CASE u # t
    BY <1>1, <2>2 DEF TypeInv, TabTyped, Others
  <2> QED BY <2>1, <2>2
<1> QED BY <1>2, <1>3 DEF TypeInv

LEMMA ReloadEffect ==
  ASSUME VarsTyped, page \in Page, log \in Seq(Message), NEW t \in Tabs, Reload(t)
  PROVE  /\ UNCHANGED serverVars /\ VarsTyped' /\ Others(t)
         /\ st'[t] = "loaded" /\ dom'[t] = page /\ cursor'[t] = Len(log) /\ sock'[t] = <<>>
         /\ edit'[t] = NoEditor /\ marked'[t] = FALSE /\ lost'[t] = InStep
<1>1. <<>> \in Seq(Message) /\ Len(log) \in Nat
  OBVIOUS
<1>2. NoEditor \in [pos : Nat, dirty : BOOLEAN]
      /\ InStep \in [at : Nat, why : {"none", "gap", "lag", "kept", "veto"}]
  BY DEF NoEditor, InStep
<1> QED BY <1>1, <1>2 DEF Reload, Load, VarsTyped, Others, serverVars

LEMMA SubscribeEffect ==
  ASSUME VarsTyped, log \in Seq(Message), NEW t \in Tabs, Subscribe(t)
  PROVE  /\ UNCHANGED serverVars /\ VarsTyped' /\ Others(t)
         /\ st[t] = "loaded" /\ st'[t] = "live" /\ dom'[t] = dom[t]
         /\ cursor'[t] = Len(log) /\ sock'[t] = sock[t]
         /\ edit'[t] = edit[t] /\ marked'[t] = marked[t]
         /\ lost'[t] = IF HasContent(Unread(t)) THEN [at |-> Len(log), why |-> "gap"] ELSE InStep
<1> DEFINE l == IF HasContent(Unread(t)) THEN [at |-> Len(log), why |-> "gap"] ELSE InStep
<1>1. l \in [at : Nat, why : {"none", "gap", "lag", "kept", "veto"}] /\ Len(log) \in Nat
  BY DEF InStep
<1>2. lost' = [lost EXCEPT ![t] = l]
  BY DEF Subscribe
<1> HIDE DEF l
<1>3. /\ lost' \in [Tabs -> [at : Nat, why : {"none", "gap", "lag", "kept", "veto"}]]
      /\ lost'[t] = l /\ \A u \in Tabs : u # t => lost'[u] = lost[u]
  BY <1>1, <1>2 DEF VarsTyped
<1>4. /\ UNCHANGED serverVars /\ VarsTyped' /\ Others(t)
      /\ st[t] = "loaded" /\ st'[t] = "live" /\ dom'[t] = dom[t]
      /\ cursor'[t] = Len(log) /\ sock'[t] = sock[t]
      /\ edit'[t] = edit[t] /\ marked'[t] = marked[t]
  BY <1>1, <1>3 DEF Subscribe, VarsTyped, Others, serverVars, editVars
<1> QED BY <1>3, <1>4 DEF l

LEMMA ForwardEffect ==
  ASSUME VarsTyped, log \in Seq(Message), NEW t \in Tabs, Forward(t)
  PROVE  /\ UNCHANGED serverVars /\ VarsTyped' /\ Others(t)
         /\ st[t] = "live" /\ cursor[t] < Len(log) /\ Len(sock[t]) < SocketBound
         /\ st'[t] = st[t] /\ dom'[t] = dom[t] /\ cursor'[t] = cursor[t] + 1
         /\ sock'[t] = Append(sock[t], log[cursor[t] + 1])
         /\ edit'[t] = edit[t] /\ marked'[t] = marked[t] /\ lost'[t] = lost[t]
<1>1. cursor[t] \in Nat /\ sock[t] \in Seq(Message) /\ cursor[t] < Len(log)
  BY DEF Forward, VarsTyped
<1>2. log[cursor[t] + 1] \in Message
  BY <1>1
<1>3. Append(sock[t], log[cursor[t] + 1]) \in Seq(Message) /\ cursor[t] + 1 \in Nat
  BY <1>1, <1>2
<1> QED BY <1>1, <1>3 DEF Forward, VarsTyped, Others, serverVars, editVars

LEMMA ResyncEffect ==
  ASSUME VarsTyped, log \in Seq(Message), page \in Rendered, NEW t \in Tabs, Resync(t)
  PROVE  LET from == RetainedFrom
             m == Envelope("full", page, page, from) IN
         /\ UNCHANGED serverVars /\ VarsTyped' /\ Others(t)
         /\ from \in Nat /\ cursor[t] < from /\ from <= Len(log) /\ m \in Message
         /\ st[t] = "live" /\ Len(sock[t]) < SocketBound
         /\ st'[t] = st[t] /\ dom'[t] = dom[t] /\ cursor'[t] = from
         /\ sock'[t] = Append(sock[t], m)
         /\ edit'[t] = edit[t] /\ marked'[t] = marked[t]
         /\ lost'[t] = IF HasContent(SubSeq(log, from + 1, Len(log)))
                       THEN [at |-> from, why |-> "lag"] ELSE lost[t]
<1> DEFINE from == RetainedFrom
           m == Envelope("full", page, page, from)
           h == HasContent(SubSeq(log, from + 1, Len(log)))
           l == [at |-> from, why |-> "lag"]
<1>1. cursor[t] \in Nat /\ sock[t] \in Seq(Message) /\ Len(log) \in Nat
  BY DEF VarsTyped
<1>2. from \in Nat /\ cursor[t] < from /\ from <= Len(log)
  BY <1>1, SyncAssumption DEF Resync, Lagged, RetainedFrom
<1>3. m \in Message
  <2>1. page \in Page
    BY RenderedType
  <2>2. DOMAIN page.blocks \in SUBSET Nat
    BY <2>1, PageFacts
  <2>3. m = [kind |-> "full", at |-> from, doc |-> page, carried |-> DOMAIN page.blocks]
    BY DEF Envelope, Carried
  <2> HIDE DEF from, m
  <2> QED BY <1>2, <2>2, <2>3 DEF Message, Kinds
<1>4. /\ sock' = [sock EXCEPT ![t] = Append(sock[t], m)]
      /\ cursor' = [cursor EXCEPT ![t] = from]
      /\ lost' = IF h THEN [lost EXCEPT ![t] = l] ELSE lost
      /\ st[t] = "live" /\ Len(sock[t]) < SocketBound
      /\ page' = page /\ log' = log /\ st' = st /\ dom' = dom
      /\ edit' = edit /\ marked' = marked /\ deferred' = deferred /\ edits' = edits
  BY DEF Resync, serverVars, editVars
<1>5. l \in [at : Nat, why : {"none", "gap", "lag", "kept", "veto"}]
  BY <1>2
<1> HIDE DEF from, m, h, l
<1>6. /\ lost' \in [Tabs -> [at : Nat, why : {"none", "gap", "lag", "kept", "veto"}]]
      /\ lost'[t] = IF h THEN l ELSE lost[t]
      /\ \A u \in Tabs : u # t => lost'[u] = lost[u]
  <2>1. CASE h
    BY <1>4, <1>5, <2>1 DEF VarsTyped
  <2>2. CASE ~h
    BY <1>4, <2>2 DEF VarsTyped
  <2> QED BY <2>1, <2>2
<1>7. VarsTyped' /\ Others(t) /\ UNCHANGED serverVars
      /\ cursor'[t] = from /\ sock'[t] = Append(sock[t], m)
  <2>1. Append(sock[t], m) \in Seq(Message)
    BY <1>1, <1>3
  <2> QED BY <1>2, <1>4, <1>6, <2>1 DEF VarsTyped, Others, serverVars
<1>8. /\ UNCHANGED serverVars /\ VarsTyped' /\ Others(t)
      /\ from \in Nat /\ cursor[t] < from /\ from <= Len(log) /\ m \in Message
      /\ st[t] = "live" /\ Len(sock[t]) < SocketBound
      /\ st'[t] = st[t] /\ dom'[t] = dom[t] /\ cursor'[t] = from
      /\ sock'[t] = Append(sock[t], m)
      /\ edit'[t] = edit[t] /\ marked'[t] = marked[t]
      /\ lost'[t] = IF h THEN l ELSE lost[t]
  BY <1>2, <1>3, <1>4, <1>6, <1>7
<1> QED BY <1>8 DEF from, m, h, l

(* The socket closes, the tab gives up, or it reconnects and keeps what    *)
(* was typed.                                                              *)
LEMMA NetworkEffect ==
  ASSUME VarsTyped, log \in Seq(Message), page \in Page, NEW t \in Tabs, Network(t), ~Reload(t)
  PROVE  /\ UNCHANGED serverVars /\ VarsTyped' /\ Others(t)
         /\ dom'[t] = dom[t] /\ edit'[t] = edit[t] /\ marked'[t] = marked[t]
         /\ \/ /\ st'[t] \in {"down", "gone"} /\ cursor'[t] = cursor[t] /\ lost'[t] = lost[t]
               /\ sock'[t] = IF st[t] = "live" THEN <<>> ELSE sock[t]
            \/ /\ st[t] = "down" /\ st'[t] = "live" /\ sock'[t] = sock[t]
               /\ cursor'[t] = Len(log) /\ lost'[t] = [at |-> Len(log), why |-> "kept"]
<1>1. <<>> \in Seq(Message) /\ Len(log) \in Nat
      /\ [at |-> Len(log), why |-> "kept"] \in [at : Nat, why : {"none", "gap", "lag", "kept", "veto"}]
  OBVIOUS
<1>2. CASE Drop(t)
  BY <1>1, <1>2 DEF Drop, VarsTyped, Others, serverVars, editVars
<1>3. CASE GiveUp(t)
  BY <1>3 DEF GiveUp, VarsTyped, Others, serverVars, editVars
<1>4. CASE Reconnect(t)
  <2>1. /\ st[t] = "down" /\ page' = page /\ log' = log /\ dom' = dom /\ sock' = sock
        /\ edit' = edit /\ marked' = marked /\ deferred' = deferred /\ edits' = edits
        /\ st' = [st EXCEPT ![t] = "live"] /\ cursor' = [cursor EXCEPT ![t] = Len(log)]
        /\ lost' = [lost EXCEPT ![t] = [at |-> Len(log), why |-> "kept"]]
    BY <1>4 DEF Reconnect, serverVars, editVars
  <2> QED BY <1>1, <2>1 DEF VarsTyped, Others, serverVars
<1> QED BY <1>2, <1>3, <1>4 DEF Network

(* The cell editor opens, changes or closes without a reload.              *)
LEMMA EditingEffect ==
  ASSUME VarsTyped, NEW t \in Tabs, Editing(t), ~Reload(t)
  PROVE  /\ UNCHANGED serverVars /\ VarsTyped' /\ Others(t)
         /\ st'[t] = st[t] /\ dom'[t] = dom[t] /\ cursor'[t] = cursor[t] /\ sock'[t] = sock[t]
         /\ lost'[t] = lost[t] /\ marked'[t] = marked[t]
         /\ \/ /\ edit'[t].pos \in DOMAIN dom[t].blocks
            \/ /\ edit'[t].pos = edit[t].pos /\ edit[t].pos # 0
            \/ /\ edit'[t] = NoEditor /\ ~marked[t]
<1>1. ASSUME NEW i \in DOMAIN dom[t].blocks, OpenEditor(t, i)
      PROVE  /\ UNCHANGED serverVars /\ VarsTyped' /\ Others(t)
             /\ st'[t] = st[t] /\ dom'[t] = dom[t] /\ cursor'[t] = cursor[t] /\ sock'[t] = sock[t]
             /\ lost'[t] = lost[t] /\ marked'[t] = marked[t]
             /\ edit'[t].pos = i
  <2>1. dom[t].blocks \in Seq(Block)
    BY DEF VarsTyped, Page
  <2>2. i \in Nat
    BY <2>1
  <2>3. [pos |-> i, dirty |-> FALSE] \in [pos : Nat, dirty : BOOLEAN]
    BY <2>2
  <2>4. edits + 1 \in 0..MaxEdits
    BY <1>1, SyncAssumption DEF OpenEditor, VarsTyped
  <2> QED BY <1>1, <2>3, <2>4 DEF OpenEditor, VarsTyped, Others, serverVars
<1>2. CASE Type(t)
  <2>1. edit[t] \in [pos : Nat, dirty : BOOLEAN]
    BY DEF VarsTyped
  <2>2. PICK x : x = [edit[t] EXCEPT !.dirty = ~edit[t].dirty]
    OBVIOUS
  <2>3. x \in [pos : Nat, dirty : BOOLEAN] /\ x.pos = edit[t].pos
    BY <2>1, <2>2
  <2>4. edit' = [edit EXCEPT ![t] = x]
    BY <1>2, <2>2 DEF Type, VarsTyped
  <2>5. /\ edit[t].pos # 0 /\ page' = page /\ log' = log /\ st' = st /\ dom' = dom
        /\ cursor' = cursor /\ sock' = sock /\ marked' = marked /\ deferred' = deferred
        /\ edits' = edits /\ lost' = lost
    BY <1>2 DEF Type, serverVars
  <2>6. edit' \in [Tabs -> [pos : Nat, dirty : BOOLEAN]] /\ edit'[t] = x
        /\ \A u \in Tabs : u # t => edit'[u] = edit[u]
    BY <2>3, <2>4 DEF VarsTyped
  <2>7. VarsTyped' /\ Others(t)
    BY <2>5, <2>6 DEF VarsTyped, Others
  <2>8. edit'[t].pos = edit[t].pos
    BY <2>3, <2>6
  <2> QED BY <2>5, <2>7, <2>8 DEF serverVars
<1>3. CASE CloseEditor(t)
  <2>1. /\ ~StaleOnClose(t) /\ edit' = [edit EXCEPT ![t] = NoEditor]
        /\ page' = page /\ log' = log /\ st' = st /\ dom' = dom /\ cursor' = cursor
        /\ sock' = sock /\ marked' = marked /\ deferred' = deferred /\ edits' = edits
        /\ lost' = lost
    BY <1>3 DEF CloseEditor, serverVars
  <2>2. NoEditor \in [pos : Nat, dirty : BOOLEAN]
    BY DEF NoEditor
  <2>3. ~marked[t]
    BY <2>1 DEF StaleOnClose
  <2> QED BY <2>1, <2>2, <2>3 DEF VarsTyped, Others, serverVars
<1> QED BY <1>1, <1>2, <1>3 DEF Editing

(* An envelope is taken: a status, an update that is refused (put off, or  *)
(* skipped in the section being edited), or one that is applied.           *)
LEMMA ApplyEffect ==
  ASSUME VarsTyped, NEW t \in Tabs, Apply(t)
  PROVE  LET m == Head(sock[t])
             v == IF edit[t].dirty THEN {edit[t].pos} ELSE {}
             e == Applied(dom[t], m, v) IN
         /\ UNCHANGED serverVars /\ Others(t)
         /\ st' = st /\ cursor' = cursor /\ edits' = edits
         /\ sock[t] # <<>> /\ sock' = [sock EXCEPT ![t] = Tail(sock[t])]
         /\ \/ /\ ~IsContent(m) /\ dom' = dom /\ lost' = lost
               /\ edit' = edit /\ marked' = marked /\ deferred' = deferred
            \/ /\ IsContent(m) /\ edit[t].dirty /\ edit' = edit
               /\ \/ dom' = dom /\ marked' = marked /\ VetoStructural(t)
                  \/ /\ m.kind = "partial" /\ dom' = [dom EXCEPT ![t] = e]
                     /\ marked' = [marked EXCEPT ![t] = TRUE] /\ deferred' = deferred
               /\ Refuse(t, m)
            \/ /\ IsContent(m) /\ dom' = [dom EXCEPT ![t] = e]
               /\ m.kind = "partial" => m.carried \ v = m.carried
               /\ lost' = IF m.kind = "full" /\ m.at > lost[t].at
                          THEN [lost EXCEPT ![t] = InStep] ELSE lost
               /\ \/ /\ m.kind = "partial"
                     /\ edit' = edit /\ marked' = marked /\ deferred' = deferred
                  \/ ~edit[t].dirty /\ KeepEditor(t, m, e)
<1> DEFINE m == Head(sock[t])
           v == IF edit[t].dirty THEN {edit[t].pos} ELSE {}
           e == Applied(dom[t], m, v)
           touches == m.kind = "partial" /\ edit[t].pos \in m.carried
<1>1. /\ sock[t] # <<>> /\ sock' = [sock EXCEPT ![t] = Tail(sock[t])]
      /\ page' = page /\ log' = log /\ st' = st /\ cursor' = cursor
      /\ \/ ~IsContent(m) /\ UNCHANGED <<dom, editVars, lost>>
         \/ /\ m.kind \in {"full", "reconcile"} /\ edit[t].dirty
            /\ VetoStructural(t) /\ Refuse(t, m)
            /\ UNCHANGED <<dom, edit, marked, edits>>
         \/ /\ touches /\ edit[t].dirty
            /\ dom' = [dom EXCEPT ![t] = e]
            /\ marked' = [marked EXCEPT ![t] = TRUE] /\ Refuse(t, m)
            /\ UNCHANGED <<edit, deferred, edits>>
         \/ /\ IsContent(m)
            /\ edit[t].dirty => m.kind = "partial" /\ ~touches
            /\ dom' = [dom EXCEPT ![t] = e]
            /\ IF edit[t].dirty THEN UNCHANGED editVars ELSE KeepEditor(t, m, e)
            /\ lost' = IF m.kind = "full" /\ m.at > lost[t].at
                       THEN [lost EXCEPT ![t] = InStep] ELSE lost
  BY DEF Apply, serverVars
<1>2. m.kind \in {"full", "reconcile", "partial"} => IsContent(m)
  BY DEF IsContent
<1>3. v = IF edit[t].dirty THEN {edit[t].pos} ELSE {}
  OBVIOUS
<1>4. touches <=> m.kind = "partial" /\ edit[t].pos \in m.carried
  OBVIOUS
<1> HIDE DEF m, e, v, touches
<1>5. CASE ~IsContent(m) /\ UNCHANGED <<dom, editVars, lost>>
  BY <1>1, <1>5 DEF VarsTyped, Others, serverVars, editVars, m, e, v
<1>6. CASE /\ m.kind \in {"full", "reconcile"} /\ edit[t].dirty
           /\ VetoStructural(t) /\ Refuse(t, m)
           /\ UNCHANGED <<dom, edit, marked, edits>>
  <2>1. Others(t)
    BY <1>1, <1>6 DEF VarsTyped, Others, Refuse
  <2> QED BY <1>1, <1>2, <1>6, <2>1 DEF serverVars, m, e, v
<1>7. CASE /\ touches /\ edit[t].dirty
           /\ dom' = [dom EXCEPT ![t] = e]
           /\ marked' = [marked EXCEPT ![t] = TRUE] /\ Refuse(t, m)
           /\ UNCHANGED <<edit, deferred, edits>>
  <2>1. Others(t)
    BY <1>1, <1>7 DEF VarsTyped, Others, Refuse
  <2>2. m.kind = "partial" /\ IsContent(m)
    BY <1>2, <1>4, <1>7
  <2> QED BY <1>1, <1>7, <2>1, <2>2 DEF serverVars, m, e, v
<1>8. CASE /\ IsContent(m)
           /\ edit[t].dirty => m.kind = "partial" /\ ~touches
           /\ dom' = [dom EXCEPT ![t] = e]
           /\ IF edit[t].dirty THEN UNCHANGED editVars ELSE KeepEditor(t, m, e)
           /\ lost' = IF m.kind = "full" /\ m.at > lost[t].at
                      THEN [lost EXCEPT ![t] = InStep] ELSE lost
  <2>1. m.kind = "partial" => m.carried \ v = m.carried
    BY <1>3, <1>4, <1>8
  <2>2. CASE edit[t].dirty
    <3>1. /\ m.kind = "partial"
          /\ edit' = edit /\ marked' = marked /\ deferred' = deferred /\ edits' = edits
      BY <1>8, <2>2 DEF editVars
    <3>2. Others(t)
      BY <1>1, <1>8, <3>1 DEF VarsTyped, Others
    <3> QED BY <1>1, <1>8, <2>1, <3>1, <3>2 DEF serverVars, m, e, v
  <2>3. CASE ~edit[t].dirty
    <3>1. KeepEditor(t, m, e)
      BY <1>8, <2>3
    <3>2. edits' = edits
      BY <3>1 DEF KeepEditor
    <3>3. Others(t)
      BY <1>1, <1>8, <3>1 DEF VarsTyped, Others, KeepEditor
    <3> QED BY <1>1, <1>8, <2>1, <2>3, <3>1, <3>2, <3>3 DEF serverVars, m, e, v
  <2> QED BY <2>2, <2>3
<1> QED BY <1>1, <1>5, <1>6, <1>7, <1>8

-----------------------------------------------------------------------------
(* Type correctness.                                                       *)

LEMMA UpdatesTail ==
  ASSUME NEW q \in Seq(Message), q # <<>>
  PROVE  \A i \in Updates(Tail(q)) : i + 1 \in Updates(q) /\ Tail(q)[i] = q[i + 1]
<1>1. PICK n \in Nat : n = Len(q) - 1
  OBVIOUS
<1>2. DOMAIN Tail(q) = 1..n /\ DOMAIN q = 1..(n + 1) /\ \A k \in 1..n : Tail(q)[k] = q[k + 1]
  BY <1>1
<1> QED BY <1>2 DEF Updates

LEMMA UpdatesAppend ==
  ASSUME NEW q \in Seq(Message), NEW m \in Message, NEW i \in Updates(Append(q, m))
  PROVE  \/ i \in Updates(q) /\ Append(q, m)[i] = q[i]
         \/ i = Len(q) + 1 /\ Append(q, m)[i] = m /\ IsContent(m)
<1> DEFINE r == Append(q, m)
<1>1. PICK n \in Nat : n = Len(q)
  OBVIOUS
<1>2. /\ DOMAIN r = 1..(n + 1) /\ DOMAIN q = 1..n
      /\ r[n + 1] = m /\ \A k \in 1..n : r[k] = q[k]
  BY <1>1
<1>3. i \in 1..(n + 1) /\ IsContent(r[i])
  BY <1>2 DEF Updates
<1>4. CASE i = n + 1
  BY <1>1, <1>2, <1>3, <1>4
<1>5. CASE i \in 1..n
  BY <1>2, <1>3, <1>5 DEF Updates
<1>6. i = n + 1 \/ i \in 1..n
  BY <1>3
<1> QED BY <1>4, <1>5, <1>6

LEMMA KeepEditorEffect ==
  ASSUME VarsTyped, NEW t \in Tabs, NEW m \in Message, NEW e \in Page,
         m.kind = "partial" => DOMAIN e.blocks = DOMAIN dom[t].blocks,
         edit[t].pos <= Len(dom[t].blocks), ~edit[t].dirty, KeepEditor(t, m, e)
  PROVE  /\ edit' \in [Tabs -> [pos : Nat, dirty : BOOLEAN]]
         /\ marked' \in [Tabs -> BOOLEAN] /\ deferred' = deferred /\ edits' = edits
         /\ edit'[t].pos <= Len(e.blocks) /\ ~edit'[t].dirty
         /\ marked'[t] => edit'[t].pos # 0
<1> DEFINE pos == edit[t].pos
           kept == CASE pos = 0 \/ m.kind = "full" -> 0
                     [] m.kind = "partial" -> IF pos \in m.carried THEN 0 ELSE pos
                     [] OTHER -> Moved(dom[t], e, pos)
           x == IF kept = 0 THEN NoEditor ELSE [edit[t] EXCEPT !.pos = kept]
<1>1. /\ edit' = [edit EXCEPT ![t] = x] /\ marked' = [marked EXCEPT ![t] = marked[t] /\ kept # 0]
      /\ deferred' = deferred /\ edits' = edits
  BY DEF KeepEditor
<1>2. /\ dom[t].blocks \in Seq(Block) /\ e.blocks \in Seq(Block) /\ pos \in Nat
      /\ DOMAIN e.blocks = 1..Len(e.blocks) /\ DOMAIN dom[t].blocks = 1..Len(dom[t].blocks)
      /\ Len(e.blocks) \in Nat /\ Len(dom[t].blocks) \in Nat
      /\ edit[t] \in [pos : Nat, dirty : BOOLEAN]
  BY DEF VarsTyped, Page
<1>3. Moved(dom[t], e, pos) \in 0..Len(e.blocks)
  <2> DEFINE P(j) == e.blocks[j].id = dom[t].blocks[pos].id
  <2>1. CASE \E j \in DOMAIN e.blocks : P(j)
    <3>1. (CHOOSE j \in DOMAIN e.blocks : P(j)) \in DOMAIN e.blocks
      BY <2>1, SMTT(30)
    <3>2. Moved(dom[t], e, pos) = CHOOSE j \in DOMAIN e.blocks : P(j)
      BY <2>1 DEF Moved
    <3>3. DOMAIN e.blocks \subseteq 0..Len(e.blocks)
      BY <1>2
    <3> QED BY <3>1, <3>2, <3>3
  <2>2. CASE ~\E j \in DOMAIN e.blocks : P(j)
    <3>1. Moved(dom[t], e, pos) = 0
      BY <2>2 DEF Moved
    <3> QED BY <1>2, <3>1
  <2> QED BY <2>1, <2>2, SMTT(30)
<1>4. kept \in 0..Len(e.blocks)
  <2>1. CASE pos = 0 \/ m.kind = "full"
    BY <1>2, <2>1
  <2>2. CASE ~(pos = 0 \/ m.kind = "full") /\ m.kind = "partial"
    <3>1. Len(e.blocks) = Len(dom[t].blocks)
      BY <1>2, <2>2
    <3>2. kept = IF pos \in m.carried THEN 0 ELSE pos
      BY <2>2
    <3> QED BY <1>2, <3>1, <3>2
  <2>3. CASE ~(pos = 0 \/ m.kind = "full") /\ m.kind # "partial"
    <3>1. kept = Moved(dom[t], e, pos)
      BY <2>3
    <3> QED BY <1>3, <3>1
  <2> QED BY <2>1, <2>2, <2>3
<1> HIDE DEF kept
<1>5. /\ x \in [pos : Nat, dirty : BOOLEAN] /\ x.pos = kept /\ ~x.dirty
  BY <1>2, <1>4 DEF NoEditor
<1> HIDE DEF x
<1>6. /\ edit' \in [Tabs -> [pos : Nat, dirty : BOOLEAN]] /\ edit'[t] = x
  BY <1>1, <1>5 DEF VarsTyped
<1>7. marked' \in [Tabs -> BOOLEAN]
  BY <1>1 DEF VarsTyped
<1>8. marked'[t] = (marked[t] /\ kept # 0)
  BY <1>1 DEF VarsTyped
<1>9. marked'[t] => kept # 0
  BY <1>8, Zenon
<1>10. edit'[t].pos = kept /\ ~edit'[t].dirty
  BY <1>5, <1>6
<1> QED BY <1>1, <1>4, <1>6, <1>7, <1>9, <1>10

LEMMA ApplyTyped ==
  ASSUME TypeInv, NEW t \in Tabs, Apply(t)
  PROVE  VarsTyped' /\ TabTyped(t)'
<1> DEFINE m == Head(sock[t])
           v == IF edit[t].dirty THEN {edit[t].pos} ELSE {}
           e == Applied(dom[t], m, v)
           WW == {"none", "gap", "lag", "kept", "veto"}
<1>1. VarsTyped /\ TabTyped(t)
  BY DEF TypeInv
<1>2. /\ page' = page /\ log' = log /\ st' = st /\ cursor' = cursor /\ edits' = edits
      /\ sock[t] # <<>> /\ sock' = [sock EXCEPT ![t] = Tail(sock[t])]
      /\ \/ /\ ~IsContent(m) /\ dom' = dom /\ lost' = lost
            /\ edit' = edit /\ marked' = marked /\ deferred' = deferred
         \/ /\ IsContent(m) /\ edit[t].dirty /\ edit' = edit
            /\ \/ dom' = dom /\ marked' = marked /\ VetoStructural(t)
               \/ /\ m.kind = "partial" /\ dom' = [dom EXCEPT ![t] = e]
                  /\ marked' = [marked EXCEPT ![t] = TRUE] /\ deferred' = deferred
            /\ Refuse(t, m)
         \/ /\ IsContent(m) /\ dom' = [dom EXCEPT ![t] = e]
            /\ lost' = IF m.kind = "full" /\ m.at > lost[t].at
                       THEN [lost EXCEPT ![t] = InStep] ELSE lost
            /\ \/ /\ m.kind = "partial"
                  /\ edit' = edit /\ marked' = marked /\ deferred' = deferred
               \/ ~edit[t].dirty /\ KeepEditor(t, m, e)
  BY <1>1, ApplyEffect DEF serverVars
<1>3. /\ sock[t] \in Seq(Message) /\ m \in Message /\ m = sock[t][1] /\ m.at \in Nat
      /\ Tail(sock[t]) \in Seq(Message) /\ Len(Tail(sock[t])) = Len(sock[t]) - 1
      /\ Len(sock[t]) \in Nat /\ dom[t] \in Page /\ dom[t].nested \subseteq DOMAIN dom[t].blocks
      /\ cursor[t] \in Nat /\ lost[t] \in [at : Nat, why : WW] /\ lost[t].at \in Nat
  <2>1. sock[t] \in Seq(Message) /\ sock[t] # <<>>
    BY <1>1, <1>2 DEF VarsTyped
  <2>2. m \in Message /\ m = sock[t][1]
    BY <2>1
  <2>3. m.at \in Nat
    BY <2>2 DEF Message
  <2>4. /\ dom[t] \in Page /\ dom[t].nested \subseteq DOMAIN dom[t].blocks
        /\ cursor[t] \in Nat /\ lost[t] \in [at : Nat, why : WW] /\ lost[t].at \in Nat
    BY <1>1 DEF VarsTyped, TabTyped
  <2> QED BY <2>1, <2>2, <2>3, <2>4
<1>4. /\ e \in Page /\ e.nested \subseteq DOMAIN e.blocks
      /\ m.kind = "partial" => DOMAIN e.blocks = DOMAIN dom[t].blocks
  <2> HIDE DEF m, v
  <2> QED BY <1>3, AppliedType
<1>5. IsContent(m) => m.at \in 1..cursor[t]
  <2>1. IsContent(sock[t][1]) => 1 \in Updates(sock[t])
    BY <1>2, <1>3 DEF Updates
  <2> QED BY <1>1, <1>3, <2>1 DEF TabTyped
<1>6. /\ sock' \in [Tabs -> Seq(Message)] /\ sock'[t] = Tail(sock[t])
      /\ \A i \in Updates(sock'[t]) : sock'[t][i].at \in 1..cursor[t]
  <2>1. sock' \in [Tabs -> Seq(Message)] /\ sock'[t] = Tail(sock[t])
    BY <1>1, <1>2, <1>3 DEF VarsTyped
  <2>2. \A i \in Updates(Tail(sock[t])) : Tail(sock[t])[i].at \in 1..cursor[t]
    BY <1>1, <1>2, <1>3, UpdatesTail DEF TabTyped
  <2> QED BY <2>1, <2>2
<1>7. st[t] # "live" => FALSE
  BY <1>1, <1>2 DEF TabTyped
<1>8. /\ Len(dom[t].blocks) \in Nat /\ Len(e.blocks) \in Nat
      /\ DOMAIN dom[t].blocks = 1..Len(dom[t].blocks) /\ DOMAIN e.blocks = 1..Len(e.blocks)
      /\ m.kind = "partial" => Len(e.blocks) = Len(dom[t].blocks)
  BY <1>3, <1>4, PageFacts
<1> HIDE DEF m, v, e
<1>9. /\ dom' \in [Tabs -> Page] /\ (dom' = dom \/ dom'[t] = e)
      /\ dom'[t].nested \subseteq DOMAIN dom'[t].blocks
  <2>1. CASE dom' = dom
    BY <1>1, <1>3, <2>1 DEF VarsTyped
  <2>2. CASE dom' = [dom EXCEPT ![t] = e]
    BY <1>1, <1>4, <2>2 DEF VarsTyped
  <2> QED BY <1>2, <2>1, <2>2
<1>10. /\ lost' \in [Tabs -> [at : Nat, why : WW]]
       /\ lost'[t].at <= cursor[t] /\ (lost'[t].why = "none" => lost'[t].at = 0)
  <2>1. lost[t].at <= cursor[t] /\ (lost[t].why = "none" => lost[t].at = 0)
    BY <1>1 DEF TabTyped
  <2>2. CASE lost' = lost
    BY <1>1, <2>1, <2>2 DEF VarsTyped
  <2>3. CASE lost' = [lost EXCEPT ![t] = InStep]
    BY <1>1, <1>3, <2>3 DEF VarsTyped, InStep
  <2>4. CASE IsContent(m) /\ Refuse(t, m)
    <3>1. PICK x : x = [at  |-> IF m.at > lost[t].at THEN m.at ELSE lost[t].at,
                        why |-> IF lost[t].why = "none" THEN "veto" ELSE lost[t].why]
      OBVIOUS
    <3>2. x \in [at : Nat, why : WW] /\ x.why # "none" /\ x.at <= cursor[t]
      BY <1>3, <1>5, <2>1, <2>4, <3>1
    <3>3. lost' = [lost EXCEPT ![t] = x]
      BY <2>4, <3>1 DEF Refuse
    <3>4. lost'[t] = x /\ lost' \in [Tabs -> [at : Nat, why : WW]]
      BY <1>1, <3>2, <3>3 DEF VarsTyped
    <3> QED BY <3>2, <3>4
  <2> QED BY <1>2, <2>2, <2>3, <2>4
<1>11. /\ edit' \in [Tabs -> [pos : Nat, dirty : BOOLEAN]]
       /\ marked' \in [Tabs -> BOOLEAN] /\ deferred' \in [Tabs -> BOOLEAN]
       /\ edit'[t].pos <= Len(dom'[t].blocks)
       /\ edit'[t].dirty => edit'[t].pos # 0
       /\ marked'[t] => edit'[t].pos # 0
  <2>1. /\ edit \in [Tabs -> [pos : Nat, dirty : BOOLEAN]]
        /\ marked \in [Tabs -> BOOLEAN] /\ deferred \in [Tabs -> BOOLEAN]
        /\ dom \in [Tabs -> Page]
        /\ edit[t].pos <= Len(dom[t].blocks)
        /\ edit[t].dirty => edit[t].pos # 0
        /\ marked[t] => edit[t].pos # 0
    BY <1>1 DEF VarsTyped, TabTyped
  <2>2. CASE dom' = dom /\ edit' = edit /\ marked' = marked
             /\ (deferred' = deferred \/ VetoStructural(t))
    BY <2>1, <2>2 DEF VetoStructural
  <2>3. CASE m.kind = "partial" /\ dom' = [dom EXCEPT ![t] = e] /\ edit' = edit /\ edit[t].dirty
             /\ marked' = [marked EXCEPT ![t] = TRUE] /\ deferred' = deferred
    <3>1. dom'[t] = e
      BY <2>1, <2>3
    <3> QED BY <1>8, <2>1, <2>3, <3>1
  <2>4. CASE m.kind = "partial" /\ dom' = [dom EXCEPT ![t] = e] /\ edit' = edit
             /\ marked' = marked /\ deferred' = deferred
    <3>1. dom'[t] = e
      BY <2>1, <2>4
    <3> QED BY <1>8, <2>1, <2>4, <3>1
  <2>5. CASE dom' = [dom EXCEPT ![t] = e] /\ ~edit[t].dirty /\ KeepEditor(t, m, e)
    <3>1. dom'[t] = e
      BY <2>1, <2>5
    <3>2. /\ edit' \in [Tabs -> [pos : Nat, dirty : BOOLEAN]]
          /\ marked' \in [Tabs -> BOOLEAN] /\ deferred' = deferred
          /\ edit'[t].pos <= Len(e.blocks) /\ ~edit'[t].dirty
          /\ marked'[t] => edit'[t].pos # 0
      BY <1>1, <1>3, <1>4, <2>1, <2>5, KeepEditorEffect
    <3> QED BY <2>1, <3>1, <3>2
  <2> QED BY <1>2, <2>2, <2>3, <2>4, <2>5
<1>12. VarsTyped'
  BY <1>1, <1>2, <1>6, <1>9, <1>10, <1>11 DEF VarsTyped
<1>13. TabTyped(t)'
  <2>1. Len(sock'[t]) <= SocketBound
    BY <1>1, <1>3, <1>6, SyncAssumption DEF TabTyped
  <2>2. cursor[t] <= Len(log)
    BY <1>1 DEF TabTyped
  <2> QED BY <1>2, <1>6, <1>7, <1>9, <1>10, <1>11, <2>1, <2>2 DEF TabTyped
<1> QED BY <1>12, <1>13

LEMMA InitTyped == Init => TypeInv
<1> SUFFICES ASSUME Init PROVE TypeInv
  OBVIOUS
<1>1. page \in Rendered /\ page \in Page /\ page.nested \subseteq DOMAIN page.blocks
  <2>1. page \in Rendered
    BY DEF Init, Rendered
  <2> QED BY <2>1, RenderedType
<1>2. log = <<>> /\ <<>> \in Seq(Message) /\ Len(log) = 0 /\ Updates(log) = {} /\ Updates(<<>>) = {}
  BY DEF Init, Updates
<1>3. ServerTyped
  BY <1>1, <1>2, SyncAssumption DEF ServerTyped
<1>4. VarsTyped
  BY <1>1, <1>2, SyncAssumption DEF Init, VarsTyped, NoEditor, InStep
<1>5. ASSUME NEW t \in Tabs PROVE TabTyped(t)
  <2>1. /\ dom[t] = page /\ cursor[t] = 0 /\ sock[t] = <<>> /\ edit[t] = NoEditor
        /\ marked[t] = FALSE /\ lost[t] = InStep
    BY DEF Init
  <2>2. Len(page.blocks) \in Nat
    BY <1>1, PageFacts
  <2> QED BY <1>1, <1>2, <2>1, <2>2, SyncAssumption DEF TabTyped, NoEditor, InStep
<1> QED BY <1>3, <1>4, <1>5 DEF TypeInv

(* The server publishes or broadcasts: the log grows.                      *)
LEMMA ServerStep ==
  ASSUME TypeInv, UNCHANGED <<st, dom, cursor, sock, editVars, lost>>,
         page' \in Rendered, log' \in Seq(Message), Len(log') <= MaxMessages,
         Len(log) <= Len(log'), \A k \in Updates(log') : log'[k].at = k
  PROVE  TypeInv'
<1>1. ServerTyped'
  BY DEF ServerTyped
<1>2. VarsTyped'
  BY DEF TypeInv, VarsTyped, editVars
<1>3. ASSUME NEW t \in Tabs PROVE TabTyped(t)'
  <2>1. /\ st' = st /\ dom' = dom /\ cursor' = cursor /\ sock' = sock /\ edit' = edit
        /\ marked' = marked /\ lost' = lost
    BY DEF editVars
  <2>2. TabTyped(t) /\ cursor[t] \in Nat /\ Len(log) \in Nat /\ Len(log') \in Nat
    BY DEF TypeInv, VarsTyped, ServerTyped
  <2>3. cursor[t] <= Len(log')
    BY <2>2 DEF TabTyped
  <2> QED BY <2>1, <2>2, <2>3 DEF TabTyped
<1> QED BY <1>1, <1>2, <1>3 DEF TypeInv

LEMMA StatusType ==
  ASSUME NEW p \in Rendered
  PROVE  Status(p) \in Message /\ ~IsContent(Status(p))
BY DEF Status, Message, Kinds, IsContent

(* What is broadcast is numbered by its place in the log.                  *)
LEMMA NumberedAppend ==
  ASSUME NEW l \in Seq(Message), NEW m \in Message,
         \A k \in Updates(l) : l[k].at = k, IsContent(m) => m.at = Len(l) + 1
  PROVE  /\ Append(l, m) \in Seq(Message) /\ Len(Append(l, m)) = Len(l) + 1
         /\ \A k \in Updates(Append(l, m)) : Append(l, m)[k].at = k
<1>1. Append(l, m) \in Seq(Message) /\ Len(Append(l, m)) = Len(l) + 1
  OBVIOUS
<1>2. ASSUME NEW k \in Updates(Append(l, m)) PROVE Append(l, m)[k].at = k
  BY UpdatesAppend
<1> QED BY <1>1, <1>2

(* A publish: the new page, at most one update made for the old page, and  *)
(* the status.                                                             *)
LEMMA PublishEffect ==
  ASSUME ServerTyped, NEW doc \in Docs, Publish(doc)
  PROVE  LET new == Render(doc)
             kind == Decide(page, new)
             m == Envelope(kind, page, new, Len(log) + 1)
             mid == IF kind = "none" THEN log ELSE Append(log, m) IN
         /\ Len(log) + 2 <= MaxMessages
         /\ page' = new /\ new \in Rendered /\ log' = Append(mid, Status(new))
         /\ UNCHANGED <<st, dom, cursor, sock, editVars, lost>>
         /\ kind = "none" => new.blocks = page.blocks
         /\ kind # "none" => /\ m \in Message /\ IsContent(m) /\ Follows(page, m)
                             /\ m.at = Len(log) + 1 /\ m.doc = new
                             /\ m.kind = "reconcile" => IsFlat(new)
         /\ SteadyLayout => /\ IsFlat(new) <=> IsFlat(page)
                            /\ new.blocks = page.blocks => new.chrome = page.chrome
<1> DEFINE new == Render(doc)
           kind == Decide(page, new)
           m == Envelope(kind, page, new, Len(log) + 1)
           mid == IF kind = "none" THEN log ELSE Append(log, m)
           content == IF kind = "none" THEN <<>> ELSE <<m>>
<1>1. new \in Rendered /\ page \in Page /\ Len(log) + 1 \in Nat /\ log \in Seq(Message)
  BY RenderedType DEF Rendered, ServerTyped
<1>2. /\ Len(log) + 2 <= MaxMessages
      /\ page' = new /\ log' = log \o content \o <<Status(new)>>
      /\ UNCHANGED <<st, dom, cursor, sock, editVars, lost>>
      /\ SteadyLayout => /\ IsFlat(new) = IsFlat(page)
                         /\ new.blocks = page.blocks => new.chrome = page.chrome
  BY DEF Publish
<1> HIDE DEF new
<1>3. /\ kind = "none" => new.blocks = page.blocks
      /\ kind # "none" => /\ m \in Message /\ IsContent(m) /\ Follows(page, m)
                          /\ m.at = Len(log) + 1 /\ m.doc = new
                          /\ m.kind = "reconcile" => IsFlat(new)
  <2>1. PICK at \in Nat : at = Len(log) + 1
    BY <1>1
  <2>2. LET k == Decide(page, new)
            x == Envelope(k, page, new, at)
        IN  /\ k = "none" => new.blocks = page.blocks
            /\ k # "none" => /\ x \in Message /\ IsContent(x) /\ Follows(page, x)
                             /\ x.at = at /\ x.doc = new
                             /\ x.kind = "reconcile" => IsFlat(new)
    BY <1>1, DecideFollows
  <2> QED BY <2>1, <2>2
<1> HIDE DEF m, kind
<1>4. log' = Append(mid, Status(new))
  <2>1. Status(new) \in Message
    BY <1>1, StatusType
  <2>2. CASE kind = "none"
    <3>1. log' = log \o <<>> \o <<Status(new)>>
      BY <1>2, <2>2
    <3>2. ASSUME NEW s \in Seq(Message), NEW x \in Message PROVE s \o <<>> \o <<x>> = Append(s, x)
      OBVIOUS
    <3> QED BY <1>1, <2>1, <2>2, <3>1, <3>2
  <2>3. CASE kind # "none"
    <3>1. log' = log \o <<m>> \o <<Status(new)>>
      BY <1>2, <2>3
    <3>2. ASSUME NEW s \in Seq(Message), NEW x \in Message, NEW y \in Message
          PROVE  s \o <<x>> \o <<y>> = Append(Append(s, x), y)
      OBVIOUS
    <3> QED BY <1>1, <1>3, <2>1, <2>3, <3>1, <3>2
  <2> QED BY <2>2, <2>3
<1> HIDE DEF mid
<1>5. /\ Len(log) + 2 <= MaxMessages
      /\ page' = new /\ new \in Rendered /\ log' = Append(mid, Status(new))
      /\ UNCHANGED <<st, dom, cursor, sock, editVars, lost>>
      /\ kind = "none" => new.blocks = page.blocks
      /\ kind # "none" => /\ m \in Message /\ IsContent(m) /\ Follows(page, m)
                          /\ m.at = Len(log) + 1 /\ m.doc = new
                          /\ m.kind = "reconcile" => IsFlat(new)
      /\ SteadyLayout => /\ IsFlat(new) <=> IsFlat(page)
                         /\ new.blocks = page.blocks => new.chrome = page.chrome
  BY <1>1, <1>2, <1>3, <1>4
<1> QED BY <1>5 DEF mid, m, kind, new

LEMMA PublishTyped ==
  ASSUME TypeInv, NEW doc \in Docs, Publish(doc)
  PROVE  TypeInv'
<1> DEFINE new == Render(doc)
           kind == Decide(page, new)
           m == Envelope(kind, page, new, Len(log) + 1)
           mid == IF kind = "none" THEN log ELSE Append(log, m)
<1>1. /\ ServerTyped /\ log \in Seq(Message) /\ Len(log) \in Nat
      /\ \A k \in Updates(log) : log[k].at = k
  BY DEF TypeInv, ServerTyped
<1>2. /\ Len(log) + 2 <= MaxMessages
      /\ page' = new /\ new \in Rendered /\ log' = Append(mid, Status(new))
      /\ UNCHANGED <<st, dom, cursor, sock, editVars, lost>>
      /\ kind # "none" => m \in Message /\ m.at = Len(log) + 1
  BY <1>1, PublishEffect
<1> HIDE DEF new, kind, m
<1>3. /\ mid \in Seq(Message) /\ Len(mid) \in Nat /\ Len(log) <= Len(mid)
      /\ Len(mid) <= Len(log) + 1 /\ \A k \in Updates(mid) : mid[k].at = k
  <2>1. CASE kind = "none"
    BY <1>1, <2>1
  <2>2. CASE kind # "none"
    <3>1. /\ Append(log, m) \in Seq(Message) /\ Len(Append(log, m)) = Len(log) + 1
          /\ \A k \in Updates(Append(log, m)) : Append(log, m)[k].at = k
      BY <1>1, <1>2, <2>2, NumberedAppend
    <3>2. mid = Append(log, m)
      BY <2>2
    <3> HIDE DEF mid
    <3>3. Len(log) + 1 \in Nat /\ Len(log) <= Len(log) + 1 /\ Len(log) + 1 <= Len(log) + 1
      BY <1>1
    <3> QED BY <3>1, <3>2, <3>3
  <2> QED BY <2>1, <2>2
<1> HIDE DEF mid
<1>4. Status(new) \in Message /\ ~IsContent(Status(new))
  BY <1>2, StatusType
<1>5. /\ log' \in Seq(Message) /\ Len(log') = Len(mid) + 1
      /\ \A k \in Updates(log') : log'[k].at = k
  BY <1>2, <1>3, <1>4, NumberedAppend
<1>6. Len(log') <= MaxMessages /\ Len(log) <= Len(log')
  BY <1>1, <1>2, <1>3, <1>5, SyncAssumption
<1> QED BY <1>2, <1>5, <1>6, ServerStep

LEMMA BroadcastTyped ==
  ASSUME TypeInv, BroadcastRunning
  PROVE  TypeInv'
<1>1. /\ log \in Seq(Message) /\ Len(log) \in Nat /\ page \in Rendered
      /\ \A k \in Updates(log) : log[k].at = k
  BY DEF TypeInv, ServerTyped
<1>2. /\ Len(log) < MaxMessages /\ log' = Append(log, Status(page)) /\ page' = page
      /\ UNCHANGED <<st, dom, cursor, sock, editVars, lost>>
  BY DEF BroadcastRunning
<1>3. Status(page) \in Message /\ ~IsContent(Status(page))
  BY <1>1, StatusType
<1>4. /\ log' \in Seq(Message) /\ Len(log') = Len(log) + 1
      /\ \A k \in Updates(log') : log'[k].at = k
  BY <1>1, <1>2, <1>3, NumberedAppend
<1>5. Len(log') <= MaxMessages /\ Len(log) <= Len(log')
  BY <1>1, <1>2, <1>4, SyncAssumption
<1> QED BY <1>1, <1>2, <1>4, <1>5, ServerStep

LEMMA TabFacts ==
  ASSUME TypeInv, NEW t \in Tabs
  PROVE  /\ VarsTyped /\ TabTyped(t) /\ ServerTyped
         /\ page \in Rendered /\ page \in Page /\ page.nested \subseteq DOMAIN page.blocks
         /\ log \in Seq(Message) /\ Len(log) \in Nat
         /\ dom[t] \in Page /\ cursor[t] \in Nat /\ cursor[t] <= Len(log)
         /\ sock[t] \in Seq(Message) /\ Len(sock[t]) \in Nat
         /\ edit[t] \in [pos : Nat, dirty : BOOLEAN]
         /\ lost[t] \in [at : Nat, why : {"none", "gap", "lag", "kept", "veto"}]
<1>1. VarsTyped /\ TabTyped(t) /\ ServerTyped
  BY DEF TypeInv
<1>2. page \in Rendered /\ page \in Page /\ page.nested \subseteq DOMAIN page.blocks
  BY <1>1, RenderedType DEF ServerTyped
<1>3. log \in Seq(Message) /\ Len(log) \in Nat
  BY <1>1 DEF ServerTyped
<1> QED BY <1>1, <1>2, <1>3 DEF VarsTyped, TabTyped

LEMMA ReloadTyped ==
  ASSUME TypeInv, NEW t \in Tabs, Reload(t)
  PROVE  TypeInv'
<1>1. /\ UNCHANGED serverVars /\ VarsTyped' /\ Others(t)
      /\ st'[t] = "loaded" /\ dom'[t] = page /\ cursor'[t] = Len(log) /\ sock'[t] = <<>>
      /\ edit'[t] = NoEditor /\ marked'[t] = FALSE /\ lost'[t] = InStep
  BY TabFacts, ReloadEffect
<1>2. log' = log /\ Len(log) \in Nat /\ Len(page.blocks) \in Nat
      /\ page.nested \subseteq DOMAIN page.blocks
  BY <1>1, TabFacts, PageFacts DEF serverVars
<1>3. Updates(<<>>) = {} /\ Len(<<>>) = 0
  BY DEF Updates
<1>4. TabTyped(t)'
  BY <1>1, <1>2, <1>3, SyncAssumption DEF TabTyped, NoEditor, InStep
<1> QED BY <1>1, <1>4, TypeStep

LEMMA SubscribeTyped ==
  ASSUME TypeInv, NEW t \in Tabs, Subscribe(t)
  PROVE  TypeInv'
<1>1. /\ UNCHANGED serverVars /\ VarsTyped' /\ Others(t)
      /\ st[t] = "loaded" /\ st'[t] = "live" /\ dom'[t] = dom[t]
      /\ cursor'[t] = Len(log) /\ sock'[t] = sock[t]
      /\ edit'[t] = edit[t] /\ marked'[t] = marked[t]
      /\ lost'[t] = IF HasContent(Unread(t)) THEN [at |-> Len(log), why |-> "gap"] ELSE InStep
  BY TabFacts, SubscribeEffect
<1>2. /\ log' = log /\ Len(log) \in Nat /\ TabTyped(t)
      /\ cursor[t] \in Nat /\ cursor[t] <= Len(log) /\ sock[t] \in Seq(Message)
  BY <1>1, TabFacts DEF serverVars
<1>3. lost'[t].at <= Len(log) /\ (lost'[t].why = "none" => lost'[t].at = 0)
  BY <1>1, <1>2 DEF InStep
<1>4. sock[t] = <<>> /\ Updates(<<>>) = {}
  BY <1>1, <1>2 DEF TabTyped, Updates
<1>5. TabTyped(t)'
  BY <1>1, <1>2, <1>3, <1>4 DEF TabTyped
<1> QED BY <1>1, <1>5, TypeStep

LEMMA ForwardTyped ==
  ASSUME TypeInv, NEW t \in Tabs, Forward(t)
  PROVE  TypeInv'
<1>1. /\ UNCHANGED serverVars /\ VarsTyped' /\ Others(t)
      /\ st[t] = "live" /\ cursor[t] < Len(log) /\ Len(sock[t]) < SocketBound
      /\ st'[t] = st[t] /\ dom'[t] = dom[t] /\ cursor'[t] = cursor[t] + 1
      /\ sock'[t] = Append(sock[t], log[cursor[t] + 1])
      /\ edit'[t] = edit[t] /\ marked'[t] = marked[t] /\ lost'[t] = lost[t]
  BY TabFacts, ForwardEffect
<1>2. /\ log' = log /\ Len(log) \in Nat /\ log \in Seq(Message) /\ TabTyped(t) /\ ServerTyped
      /\ cursor[t] \in Nat /\ sock[t] \in Seq(Message) /\ Len(sock[t]) \in Nat
      /\ lost[t].at \in Nat
  BY <1>1, TabFacts DEF serverVars
<1>3. cursor[t] + 1 \in 1..Len(log) /\ log[cursor[t] + 1] \in Message
  BY <1>1, <1>2
<1>4. ASSUME NEW i \in Updates(sock'[t]) PROVE sock'[t][i].at \in 1..(cursor[t] + 1)
  <2>1. CASE i \in Updates(sock[t]) /\ sock'[t][i] = sock[t][i]
    <3>1. sock[t][i].at \in 1..cursor[t]
      BY <1>2, <2>1 DEF TabTyped
    <3> QED BY <1>2, <2>1, <3>1
  <2>2. CASE sock'[t][i] = log[cursor[t] + 1] /\ IsContent(log[cursor[t] + 1])
    <3>1. cursor[t] + 1 \in Updates(log)
      BY <1>2, <1>3, <2>2 DEF Updates
    <3>2. sock'[t][i].at = cursor[t] + 1
      BY <1>2, <2>2, <3>1 DEF ServerTyped
    <3> QED BY <1>2, <3>2
  <2>3. ASSUME NEW x \in Updates(Append(sock[t], log[cursor[t] + 1]))
        PROVE  \/ x \in Updates(sock[t]) /\ Append(sock[t], log[cursor[t] + 1])[x] = sock[t][x]
               \/ /\ Append(sock[t], log[cursor[t] + 1])[x] = log[cursor[t] + 1]
                  /\ IsContent(log[cursor[t] + 1])
    BY <1>2, <1>3, UpdatesAppend, ZenonT(60)
  <2> QED BY <1>1, <2>1, <2>2, <2>3
<1>5. Len(sock'[t]) <= SocketBound
  <2>1. Len(sock'[t]) = Len(sock[t]) + 1
    BY <1>1, <1>2, <1>3
  <2> QED BY <1>1, <1>2, <2>1, SyncAssumption
<1>6. lost[t].at <= cursor[t] + 1 /\ cursor[t] + 1 <= Len(log)
  BY <1>1, <1>2 DEF TabTyped
<1>7. TabTyped(t)'
  BY <1>1, <1>2, <1>4, <1>5, <1>6 DEF TabTyped
<1> QED BY <1>1, <1>7, TypeStep

LEMMA ResyncTyped ==
  ASSUME TypeInv, NEW t \in Tabs, Resync(t)
  PROVE  TypeInv'
<1> DEFINE from == RetainedFrom
           m == Envelope("full", page, page, from)
<1>1. /\ UNCHANGED serverVars /\ VarsTyped' /\ Others(t)
      /\ from \in Nat /\ cursor[t] < from /\ from <= Len(log) /\ m \in Message
      /\ st[t] = "live" /\ Len(sock[t]) < SocketBound
      /\ st'[t] = st[t] /\ dom'[t] = dom[t] /\ cursor'[t] = from
      /\ sock'[t] = Append(sock[t], m)
      /\ edit'[t] = edit[t] /\ marked'[t] = marked[t]
      /\ lost'[t] = IF HasContent(SubSeq(log, from + 1, Len(log)))
                    THEN [at |-> from, why |-> "lag"] ELSE lost[t]
  BY TabFacts, ResyncEffect
<1>2. m.at = from
  BY DEF Envelope
<1> HIDE DEF m, from
<1>3. /\ log' = log /\ Len(log) \in Nat /\ log \in Seq(Message) /\ TabTyped(t)
      /\ cursor[t] \in Nat /\ sock[t] \in Seq(Message) /\ Len(sock[t]) \in Nat
      /\ lost[t].at \in Nat
  BY <1>1, TabFacts DEF serverVars
<1>4. ASSUME NEW i \in Updates(sock'[t]) PROVE sock'[t][i].at \in 1..from
  <2>1. CASE i \in Updates(sock[t]) /\ sock'[t][i] = sock[t][i]
    <3>1. sock[t][i].at \in 1..cursor[t]
      BY <1>3, <2>1 DEF TabTyped
    <3> QED BY <1>1, <1>3, <2>1, <3>1
  <2>2. CASE sock'[t][i] = m
    BY <1>1, <1>2, <1>3, <2>2
  <2>3. ASSUME NEW x \in Updates(Append(sock[t], m))
        PROVE  \/ x \in Updates(sock[t]) /\ Append(sock[t], m)[x] = sock[t][x]
               \/ Append(sock[t], m)[x] = m
    BY <1>1, <1>3, UpdatesAppend
  <2> QED BY <1>1, <2>1, <2>2, <2>3
<1>5. Len(sock'[t]) <= SocketBound
  <2>1. Len(sock'[t]) = Len(sock[t]) + 1
    BY <1>1, <1>3
  <2> QED BY <1>1, <1>3, <2>1, SyncAssumption
<1>6. lost'[t].at <= from /\ (lost'[t].why = "none" => lost'[t].at = 0)
  BY <1>1, <1>3 DEF TabTyped
<1>7. TabTyped(t)'
  BY <1>1, <1>3, <1>4, <1>5, <1>6 DEF TabTyped
<1> QED BY <1>1, <1>7, TypeStep

LEMMA NetworkTyped ==
  ASSUME TypeInv, NEW t \in Tabs, Network(t)
  PROVE  TypeInv'
<1>1. CASE Reload(t)
  BY <1>1, ReloadTyped
<1>2. CASE ~Reload(t)
  <2>1. /\ UNCHANGED serverVars /\ VarsTyped' /\ Others(t)
        /\ dom'[t] = dom[t] /\ edit'[t] = edit[t] /\ marked'[t] = marked[t]
        /\ \/ /\ st'[t] \in {"down", "gone"} /\ cursor'[t] = cursor[t] /\ lost'[t] = lost[t]
              /\ sock'[t] = IF st[t] = "live" THEN <<>> ELSE sock[t]
           \/ /\ st[t] = "down" /\ st'[t] = "live" /\ sock'[t] = sock[t]
              /\ cursor'[t] = Len(log) /\ lost'[t] = [at |-> Len(log), why |-> "kept"]
    BY <1>2, TabFacts, NetworkEffect
  <2>2. log' = log /\ TabTyped(t) /\ Len(log) \in Nat /\ cursor[t] \in Nat
    BY <2>1, TabFacts DEF serverVars
  <2>3. Updates(<<>>) = {} /\ Len(<<>>) = 0
    BY DEF Updates
  <2>4. sock'[t] = <<>>
    BY <2>1, <2>2 DEF TabTyped
  <2>5. lost'[t].at <= cursor'[t] /\ (lost'[t].why = "none" => lost'[t].at = 0)
        /\ cursor'[t] <= Len(log)
    BY <2>1, <2>2 DEF TabTyped
  <2>6. TabTyped(t)'
    BY <2>1, <2>2, <2>3, <2>4, <2>5, SyncAssumption DEF TabTyped
  <2> QED BY <2>1, <2>6, TypeStep
<1> QED BY <1>1, <1>2

LEMMA EditingTyped ==
  ASSUME TypeInv, NEW t \in Tabs, Editing(t)
  PROVE  TypeInv'
<1>1. CASE Reload(t)
  BY <1>1, ReloadTyped
<1>2. CASE ~Reload(t)
  <2>1. /\ UNCHANGED serverVars /\ VarsTyped' /\ Others(t)
        /\ st'[t] = st[t] /\ dom'[t] = dom[t] /\ cursor'[t] = cursor[t] /\ sock'[t] = sock[t]
        /\ lost'[t] = lost[t] /\ marked'[t] = marked[t]
        /\ \/ edit'[t].pos \in DOMAIN dom[t].blocks
           \/ edit'[t].pos = edit[t].pos /\ edit[t].pos # 0
           \/ edit'[t] = NoEditor /\ ~marked[t]
    BY <1>2, TabFacts, EditingEffect
  <2>2. /\ log' = log /\ TabTyped(t) /\ Len(dom[t].blocks) \in Nat
        /\ DOMAIN dom[t].blocks = 1..Len(dom[t].blocks)
    BY <2>1, TabFacts, PageFacts DEF serverVars
  <2>3. /\ edit'[t].pos <= Len(dom[t].blocks)
        /\ edit'[t].dirty => edit'[t].pos # 0
        /\ marked[t] => edit'[t].pos # 0
    <3>1. CASE edit'[t].pos \in DOMAIN dom[t].blocks
      BY <2>2, <3>1
    <3>2. CASE edit'[t].pos = edit[t].pos /\ edit[t].pos # 0
      BY <2>2, <3>2 DEF TabTyped
    <3>3. CASE edit'[t] = NoEditor /\ ~marked[t]
      BY <2>2, <3>3 DEF NoEditor
    <3> QED BY <2>1, <3>1, <3>2, <3>3
  <2>4. TabTyped(t)'
    BY <2>1, <2>2, <2>3 DEF TabTyped
  <2> QED BY <2>1, <2>4, TypeStep
<1> QED BY <1>1, <1>2

LEMMA NextTyped == TypeInv /\ [Next]_vars => TypeInv'
<1> SUFFICES ASSUME TypeInv, [Next]_vars PROVE TypeInv'
  OBVIOUS
<1>1. ASSUME NEW d \in Docs, Publish(d) PROVE TypeInv'
  BY <1>1, PublishTyped
<1>2. CASE BroadcastRunning
  BY <1>2, BroadcastTyped
<1>3. ASSUME NEW t \in Tabs,
             \/ Reload(t) \/ Subscribe(t) \/ Forward(t) \/ Resync(t) \/ Apply(t)
             \/ Editing(t) \/ Network(t)
      PROVE  TypeInv'
  <2>1. CASE Apply(t)
    <3>1. VarsTyped' /\ TabTyped(t)'
      BY <2>1, ApplyTyped
    <3>2. Others(t) /\ UNCHANGED serverVars
      BY <2>1, TabFacts, ApplyEffect
    <3> QED BY <3>1, <3>2, TypeStep
  <2> QED BY <1>3, <2>1, ReloadTyped, SubscribeTyped, ForwardTyped, ResyncTyped, EditingTyped,
             NetworkTyped
<1>4. CASE UNCHANGED vars
  BY <1>4 DEF vars, serverVars, editVars, TypeInv, ServerTyped, VarsTyped, TabTyped
<1> QED BY <1>1, <1>2, <1>3, <1>4 DEF Next

LEMMA TypeInvOK == TypeInv => TypeOK
<1> SUFFICES ASSUME TypeInv PROVE TypeOK
  OBVIOUS
<1>1. Len(log) <= MaxMessages /\ edits \in 0..MaxEdits
  BY DEF TypeInv, ServerTyped, VarsTyped
<1>2. ASSUME NEW t \in Tabs
      PROVE  /\ st[t] \in {"loaded", "live", "down", "gone"}
             /\ cursor[t] \in 0..Len(log)
             /\ Len(sock[t]) <= SocketBound
             /\ st[t] # "live" => sock[t] = <<>>
             /\ edit[t].pos \in 0..Len(dom[t].blocks)
             /\ edit[t].dirty => edit[t].pos # 0
             /\ marked[t] => edit[t].pos # 0
             /\ lost[t].why \in {"none", "gap", "lag", "kept", "veto"}
             /\ lost[t].at \in 0..Len(log)
  <2>1. TabTyped(t) /\ st[t] \in {"loaded", "live", "down", "gone"}
    BY DEF TypeInv, VarsTyped
  <2>2. /\ cursor[t] \in Nat /\ Len(log) \in Nat /\ edit[t].pos \in Nat /\ lost[t].at \in Nat
        /\ Len(dom[t].blocks) \in Nat /\ lost[t].why \in {"none", "gap", "lag", "kept", "veto"}
    BY TabFacts, PageFacts
  <2> QED BY <2>1, <2>2 DEF TabTyped
<1> QED BY <1>1, <1>2 DEF TypeOK

(* Editors sit in a section of the page their tab shows and marks belong   *)
(* to an open editor, through every patch, move and refusal (server/ws.rs, *)
(* server/cell.rs); what is on a socket was broadcast before the cursor.   *)
THEOREM TypeCorrect == Spec => []TypeOK
BY InitTyped, NextTyped, TypeInvOK, PTL DEF Spec

-----------------------------------------------------------------------------
(* Queues and lines of the tabs that an action leaves alone.               *)

LEMMA QueueFacts ==
  ASSUME TypeInv, NEW t \in Tabs
  PROVE  /\ cursor[t] \in 0..Len(log) /\ <<>> \in Seq(Message)
         /\ Queue(t) = Flow(sock[t], log, cursor[t]) /\ Queue(t) \in Seq(Message)
         /\ Unread(t) = Flow(<<>>, log, cursor[t]) /\ Unread(t) \in Seq(Message)
         /\ PagesIn(Queue(t)) \in Seq(DocPages)
         /\ \A i \in Updates(Queue(t)) : Queue(t)[i].at \in 1..Len(log)
<1>1. /\ log \in Seq(Message) /\ sock[t] \in Seq(Message) /\ cursor[t] \in 0..Len(log)
      /\ <<>> \in Seq(Message) /\ Len(log) \in Nat /\ cursor[t] \in Nat
      /\ TabTyped(t) /\ ServerTyped
  BY TabFacts
<1>2. /\ Flow(sock[t], log, cursor[t]) \in Seq(Message)
      /\ Len(Flow(sock[t], log, cursor[t])) = Len(sock[t]) + (Len(log) - cursor[t])
      /\ \A i \in 1..(Len(sock[t]) + (Len(log) - cursor[t])) :
           Flow(sock[t], log, cursor[t])[i] =
             IF i <= Len(sock[t]) THEN sock[t][i] ELSE log[cursor[t] + (i - Len(sock[t]))]
  BY <1>1, FlowMessages
<1>3. Queue(t) = Flow(sock[t], log, cursor[t])
  BY DEF Queue, Unread, Flow
<1>4. Unread(t) \in Seq(Message)
  <2>1. ASSUME NEW k \in (cursor[t] + 1)..Len(log) PROVE log[k] \in Message
    BY <1>1
  <2>2. cursor[t] + 1 \in 1..(Len(log) + 1)
    BY <1>1
  <2> QED BY <1>1, <2>1, <2>2 DEF Unread
<1>5. Unread(t) = Flow(<<>>, log, cursor[t])
  BY <1>4 DEF Unread, Flow
<1>6. ASSUME NEW i \in Updates(Queue(t)) PROVE Queue(t)[i].at \in 1..Len(log)
  <2>1. PICK q \in Seq(Message) : q = Queue(t)
    BY <1>1, <1>2, <1>3
  <2>2. PICK n \in Nat : n = Len(sock[t])
    BY <1>1
  <2>3. PICK c \in Nat : c = cursor[t]
    BY <1>1
  <2>4. PICK l \in Nat : l = Len(log)
    BY <1>1
  <2>5. /\ Len(q) = n + (l - c) /\ c <= l
        /\ \A k \in 1..(n + (l - c)) : q[k] = IF k <= n THEN sock[t][k] ELSE log[c + (k - n)]
    <3>1. c <= l
      BY <1>1, <2>3, <2>4
    <3>2. q = Flow(sock[t], log, cursor[t])
      BY <1>3, <2>1
    <3>3. Len(q) = n + (l - c)
      BY <1>2, <2>2, <2>3, <2>4, <3>2
    <3> QED BY <1>2, <2>2, <2>3, <2>4, <3>1, <3>2, <3>3
  <2>6. i \in 1..(n + (l - c)) /\ IsContent(q[i])
    BY <2>1, <2>5 DEF Updates
  <2>7. CASE i <= n
    <3>1. i \in DOMAIN sock[t] /\ q[i] = sock[t][i]
      <4>1. i \in 1..n /\ DOMAIN sock[t] = 1..n
        BY <1>1, <2>2, <2>6, <2>7
      <4> QED BY <2>5, <2>6, <2>7, <4>1
    <3>2. i \in Updates(sock[t])
      BY <2>6, <3>1 DEF Updates
    <3>3. sock[t][i].at \in 1..c
      BY <1>1, <2>3, <3>2 DEF TabTyped
    <3> QED BY <2>1, <2>4, <2>5, <3>1, <3>3
  <2>8. CASE ~(i <= n)
    <3>1. PICK k \in Nat : k = c + (i - n)
      BY <2>5, <2>6, <2>8
    <3>2. k \in 1..l /\ q[i] = log[k]
      BY <2>5, <2>6, <2>8, <3>1
    <3>3. k \in DOMAIN log
      BY <1>1, <2>4, <3>2
    <3>4. k \in Updates(log)
      BY <2>6, <3>2, <3>3 DEF Updates
    <3>5. log[k].at = k
      BY <1>1, <3>4 DEF ServerTyped
    <3> QED BY <2>1, <2>4, <3>2, <3>5
  <2> QED BY <2>7, <2>8
<1> QED BY <1>1, <1>2, <1>3, <1>4, <1>5, <1>6, PagesType

LEMMA ContentUpdates ==
  ASSUME NEW q
  PROVE  HasContent(q) <=> Updates(q) # {}
BY DEF HasContent, Updates

(* Lines and soundness in the next state.                                  *)
LEMMA LineNow ==
  ASSUME NEW t \in Tabs
  PROVE  Line(t) = IF st[t] = "live" /\ lost[t].why = "none"
                   THEN <<View(dom[t])>> \o PagesIn(Queue(t)) ELSE <<>>
BY DEF Line, Following, Queue, Unread

LEMMA LineNext ==
  ASSUME NEW t \in Tabs, NEW q, Queue(t)' = q
  PROVE  Line(t)' = IF st'[t] = "live" /\ lost'[t].why = "none"
                    THEN <<View(dom'[t])>> \o PagesIn(q) ELSE <<>>
BY DEF Line, Following, Queue, Unread

LEMMA SoundNext ==
  ASSUME NEW t \in Tabs, NEW q, NEW r, Queue(t)' = q, Unread(t)' = r,
         IsFlat(dom'[t]) <=> IsFlat(page'),
         st'[t] = "loaded" =>
           lost'[t].why = "none" /\ (~HasContent(r) => View(dom'[t]) = View(page')),
         st'[t] = "live" =>
           Sound(q, page', lost'[t].at, lost'[t].why = "none", dom'[t])
  PROVE  TabSound(t)'
BY DEF TabSound, Queue, Unread

(* A tab whose state is the same, when the page and the log are the same.  *)
Same(u) ==
  st'[u] = st[u] /\ dom'[u] = dom[u] /\ cursor'[u] = cursor[u] /\ sock'[u] = sock[u]
    /\ lost'[u] = lost[u]

LEMMA SameTab ==
  ASSUME UNCHANGED serverVars, NEW u \in Tabs, Same(u)
  PROVE  /\ Line(u)' = Line(u) /\ Queue(u)' = Queue(u)
         /\ TabSound(u) => TabSound(u)'
<1>1. page' = page /\ log' = log
  BY DEF serverVars
<1>2. Unread(u)' = Unread(u)
  BY <1>1 DEF Unread, Same
<1>3. Queue(u)' = Queue(u)
  BY <1>2 DEF Queue, Same
<1>4. Line(u)' = Line(u)
  BY <1>3, LineNow, LineNext DEF Same
<1>5. ASSUME TabSound(u) PROVE TabSound(u)'
  <2>1. /\ IsFlat(dom[u]) <=> IsFlat(page)
        /\ st[u] = "loaded" =>
             lost[u].why = "none" /\ (~HasContent(Unread(u)) => View(dom[u]) = View(page))
        /\ st[u] = "live" =>
             Sound(Queue(u), page, lost[u].at, lost[u].why = "none", dom[u])
    BY <1>5 DEF TabSound
  <2>2. PICK q : q = Queue(u)
    OBVIOUS
  <2>3. PICK r : r = Unread(u)
    OBVIOUS
  <2>4. Queue(u)' = q /\ Unread(u)' = r
    BY <1>2, <1>3, <2>2, <2>3
  <2> QED BY <1>1, <2>1, <2>2, <2>3, <2>4, SoundNext DEF Same
<1> QED BY <1>3, <1>4, <1>5

(* An action of one tab does not concern the others.                       *)
LEMMA OneTab ==
  ASSUME Sounds, NEW t \in Tabs, UNCHANGED serverVars, Others(t), TabSound(t)'
  PROVE  Sounds' /\ Lines' = [Lines EXCEPT ![t] = Line(t)']
<1>1. ASSUME NEW u \in Tabs, u # t PROVE TabSound(u)' /\ Line(u)' = Line(u)
  <2>1. Same(u)
    BY <1>1 DEF Others, Same
  <2> QED BY <2>1, SameTab DEF Sounds
<1>2. Sounds'
  BY <1>1 DEF Sounds
<1>3. Lines' = [u \in Tabs |-> Line(u)']
  BY DEF Lines
<1>4. Lines' = [u \in Tabs |-> IF u = t THEN Line(t)' ELSE Line(u)]
  BY <1>1, <1>3
<1> QED BY <1>2, <1>4 DEF Lines

-----------------------------------------------------------------------------
(* Each action keeps queues sound, and moves the line of its tab as the    *)
(* promise says.                                                           *)

LEMMA ReloadSound ==
  ASSUME TypeInv, NEW t \in Tabs, Reload(t)
  PROVE  TabSound(t)' /\ Line(t)' = <<>>
<1>1. /\ page' = page /\ log' = log /\ st'[t] = "loaded" /\ dom'[t] = page
      /\ lost'[t] = InStep
  BY TabFacts, ReloadEffect DEF serverVars
<1>2. lost'[t].why = "none" /\ st'[t] # "live"
  BY <1>1 DEF InStep
<1>3. Line(t)' = <<>>
  BY <1>2, LineNext
<1> QED BY <1>1, <1>2, <1>3, SoundNext

LEMMA SubscribeSound ==
  ASSUME TypeInv, NEW t \in Tabs, TabSound(t), Subscribe(t)
  PROVE  TabSound(t)' /\ Line(t) = <<>> /\ (Line(t)' = <<>> \/ Line(t)' = <<View(page)>>)
<1>1. /\ UNCHANGED serverVars
      /\ st[t] = "loaded" /\ st'[t] = "live" /\ dom'[t] = dom[t]
      /\ cursor'[t] = Len(log) /\ sock'[t] = sock[t]
      /\ lost'[t] = IF HasContent(Unread(t)) THEN [at |-> Len(log), why |-> "gap"] ELSE InStep
  BY TabFacts, SubscribeEffect
<1>2. page' = page /\ log' = log /\ sock[t] = <<>> /\ Len(log) \in Nat /\ log \in Seq(Message)
  BY <1>1, TabFacts DEF serverVars, TabTyped
<1>3. Queue(t)' = <<>>
  BY <1>1, <1>2 DEF Queue, Unread
<1>4. lost'[t].why = "none" => View(dom[t]) = View(page)
  BY <1>1 DEF TabSound
<1>5. Sound(Queue(t)', page', lost'[t].at, lost'[t].why = "none", dom'[t])
  <2>1. (lost'[t].why = "none") => View(dom[t]) = View(page)
    BY <1>4
  <2>2. Sound(<<>>, page, lost'[t].at, lost'[t].why = "none", dom[t])
    BY <2>1, SoundEmpty
  <2> QED BY <1>1, <1>2, <1>3, <2>2
<1>6. TabSound(t)'
  <2>1. IsFlat(dom[t]) <=> IsFlat(page)
    BY DEF TabSound
  <2> QED BY <1>1, <1>2, <1>5, <2>1, SoundNext
<1>7. Line(t) = <<>>
  BY <1>1, LineNow
<1>8. Line(t)' = <<>> \/ Line(t)' = <<View(page)>>
  <2>1. PagesIn(<<>>) = <<>>
    <3>1. <<>> \in Seq(Message) /\ Updates(<<>>) = {}
      BY DEF Updates
    <3> QED BY <3>1, PagesFew
  <2>2. CASE lost'[t].why = "none"
    <3>1. Line(t)' = <<View(dom[t])>> \o <<>>
      BY <1>1, <1>3, <2>1, <2>2, LineNext
    <3>2. <<View(dom[t])>> \o <<>> = <<View(dom[t])>>
      OBVIOUS
    <3> QED BY <1>4, <2>2, <3>1, <3>2
  <2>3. CASE lost'[t].why # "none"
    BY <2>3, LineNext
  <2> QED BY <2>2, <2>3
<1> QED BY <1>6, <1>7, <1>8

LEMMA ForwardSound ==
  ASSUME TypeInv, NEW t \in Tabs, TabSound(t), Forward(t)
  PROVE  TabSound(t)' /\ Line(t)' = Line(t)
<1>1. /\ UNCHANGED serverVars /\ st[t] = "live" /\ cursor[t] < Len(log)
      /\ st'[t] = st[t] /\ dom'[t] = dom[t] /\ cursor'[t] = cursor[t] + 1
      /\ sock'[t] = Append(sock[t], log[cursor[t] + 1]) /\ lost'[t] = lost[t]
  BY TabFacts, ForwardEffect
<1>2. page' = page /\ log' = log
  BY <1>1 DEF serverVars
<1>3. Queue(t)' = Queue(t)
  <2>1. Queue(t)' = Flow(Append(sock[t], log[cursor[t] + 1]), log, cursor[t] + 1)
    BY <1>1, <1>2 DEF Queue, Unread, Flow
  <2>2. Flow(Append(sock[t], log[cursor[t] + 1]), log, cursor[t] + 1)
          = Flow(sock[t], log, cursor[t])
    <3>1. log \in Seq(Message) /\ sock[t] \in Seq(Message) /\ cursor[t] \in 0..Len(log)
      BY TabFacts, QueueFacts
    <3> QED BY <1>1, <3>1, FlowForward
  <2> QED BY <2>1, <2>2, QueueFacts
<1>4. TabSound(t)'
  <2>1. /\ IsFlat(dom[t]) <=> IsFlat(page)
        /\ Sound(Queue(t), page, lost[t].at, lost[t].why = "none", dom[t])
    BY <1>1 DEF TabSound
  <2> QED BY <1>1, <1>2, <1>3, <2>1, SoundNext
<1>5. Line(t)' = Line(t)
  BY <1>1, <1>3, LineNow, LineNext
<1> QED BY <1>4, <1>5

LEMMA NetworkSound ==
  ASSUME TypeInv, NEW t \in Tabs, TabSound(t), Network(t)
  PROVE  TabSound(t)' /\ Line(t)' = <<>>
<1>1. CASE Reload(t)
  BY <1>1, ReloadSound
<1>2. CASE ~Reload(t)
  <2>1. /\ UNCHANGED serverVars
        /\ dom'[t] = dom[t]
        /\ \/ st'[t] \in {"down", "gone"}
           \/ /\ st[t] = "down" /\ st'[t] = "live" /\ sock'[t] = sock[t]
              /\ cursor'[t] = Len(log) /\ lost'[t] = [at |-> Len(log), why |-> "kept"]
    BY <1>2, TabFacts, NetworkEffect
  <2>2. page' = page /\ log' = log /\ Len(log) \in Nat /\ log \in Seq(Message) /\ TabTyped(t)
    BY <2>1, TabFacts DEF serverVars
  <2>0. IsFlat(dom[t]) <=> IsFlat(page)
    BY DEF TabSound
  <2>3. CASE st'[t] \in {"down", "gone"}
    <3>1. st'[t] # "live" /\ st'[t] # "loaded"
      BY <2>3
    <3> QED BY <2>0, <2>1, <2>2, <3>1, SoundNext, LineNext
  <2>4. CASE /\ st[t] = "down" /\ st'[t] = "live" /\ sock'[t] = sock[t]
             /\ cursor'[t] = Len(log) /\ lost'[t] = [at |-> Len(log), why |-> "kept"]
    <3>1. Queue(t)' = <<>>
      BY <2>2, <2>4 DEF TabTyped, Queue, Unread
    <3>2. lost'[t].why # "none"
      BY <2>4
    <3>3. Sound(Queue(t)', page', lost'[t].at, lost'[t].why = "none", dom'[t])
      BY <3>1, <3>2, SoundEmpty
    <3>4. st'[t] # "loaded"
      BY <2>4
    <3> QED BY <2>0, <2>1, <2>2, <3>2, <3>3, <3>4, SoundNext, LineNext
  <2> QED BY <2>1, <2>3, <2>4
<1> QED BY <1>1, <1>2

LEMMA EditingSound ==
  ASSUME TypeInv, NEW t \in Tabs, TabSound(t), Editing(t)
  PROVE  TabSound(t)' /\ (Line(t)' = <<>> \/ Line(t)' = Line(t))
<1>1. CASE Reload(t)
  BY <1>1, ReloadSound
<1>2. CASE ~Reload(t)
  <2>1. UNCHANGED serverVars /\ Same(t)
    BY <1>2, TabFacts, EditingEffect DEF Same
  <2> QED BY <2>1, SameTab
<1> QED BY <1>1, <1>2

(* The channel lagged: the whole page, and what is retained after it.      *)
LEMMA ResyncQueue ==
  ASSUME NEW s \in Seq(Message), NEW l \in Seq(Message), NEW c \in Nat, NEW from \in Nat,
         c < from, from <= Len(l), NEW m \in Message, NEW p,
         m.kind = "full", m.doc = p, m.at = from,
         \A i \in Updates(s) : s[i].at \in 1..c,
         \A k \in Updates(l) : l[k].at = k,
         NEW a \in 0..c, NEW b \in Nat, NEW f, NEW g, NEW d,
         b = from \/ (b = a /\ ~HasContent(SubSeq(l, from + 1, Len(l)))),
         g => f /\ ~HasContent(SubSeq(l, from + 1, Len(l))),
         Sound(Flow(s, l, c), p, a, f, d)
  PROVE  Sound(Flow(Append(s, m), l, from), p, b, g, d)
<1> DEFINE Q == Flow(s, l, c)
           R == Flow(Append(s, m), l, from)
<1>1. PICK n \in Nat : n = Len(s)
  OBVIOUS
<1>2. PICK z \in Nat : z = Len(l)
  OBVIOUS
<1>3. PICK e \in Nat : e = from - c /\ e >= 1
  OBVIOUS
<1>4. PICK N \in Nat : N = (n + 1) + (z - from)
  <2>1. from <= z
    BY <1>2
  <2>2. (n + 1) + (z - from) \in Nat
    BY <2>1
  <2> QED BY <2>2
<1>5. /\ Q \in Seq(Message) /\ Len(Q) = n + (z - c)
      /\ \A i \in 1..(n + (z - c)) : Q[i] = IF i <= n THEN s[i] ELSE l[c + (i - n)]
  <2>1. c \in 0..Len(l)
    OBVIOUS
  <2> QED BY <1>1, <1>2, <2>1, FlowMessages, ZenonT(60)
<1>6. /\ R \in Seq(Message) /\ Len(R) = N
      /\ \A i \in 1..N : R[i] = IF i <= n + 1 THEN Append(s, m)[i] ELSE l[from + (i - (n + 1))]
  <2>1. from \in 0..Len(l) /\ Append(s, m) \in Seq(Message) /\ Len(Append(s, m)) = n + 1
    BY <1>1
  <2>2. PICK s1 \in Seq(Message) : s1 = Append(s, m)
    BY <2>1
  <2>3. /\ Flow(s1, l, from) \in Seq(Message)
        /\ Len(Flow(s1, l, from)) = Len(s1) + (Len(l) - from)
        /\ \A i \in 1..(Len(s1) + (Len(l) - from)) :
             Flow(s1, l, from)[i] = IF i <= Len(s1) THEN s1[i] ELSE l[from + (i - Len(s1))]
    BY <2>1, FlowMessages
  <2> QED BY <1>2, <1>4, <2>1, <2>2, <2>3, ZenonT(60)
<1> HIDE DEF Q, R
<1>7. /\ \A i \in 1..n : Append(s, m)[i] = s[i]
      /\ Append(s, m)[n + 1] = m /\ DOMAIN s = 1..n /\ DOMAIN l = 1..z
  BY <1>1, <1>2
<1>8. n < N /\ n <= Len(Q) /\ Len(Q) = (N + e) - 1 /\ from <= z /\ n + 1 \in 1..N
  BY <1>2, <1>3, <1>4, <1>5
<1>9. \A i \in 1..n : R[i] = Q[i] /\ R[i] = s[i]
  <2> SUFFICES ASSUME NEW i \in 1..n PROVE R[i] = Q[i] /\ R[i] = s[i]
    OBVIOUS
  <2>1. i \in 1..N /\ i \in 1..(n + (z - c)) /\ i <= n + 1 /\ i <= n
    BY <1>5, <1>8
  <2> QED BY <1>5, <1>6, <1>7, <2>1
<1>10. \A i \in (n + 2)..N : /\ R[i] = Q[i + (e - 1)]
                             /\ from + (i - (n + 1)) \in 1..z
                             /\ R[i] = l[from + (i - (n + 1))]
  <2> SUFFICES ASSUME NEW i \in (n + 2)..N
               PROVE  /\ R[i] = Q[i + (e - 1)] /\ from + (i - (n + 1)) \in 1..z
                      /\ R[i] = l[from + (i - (n + 1))]
    OBVIOUS
  <2>1. i \in 1..N /\ ~(i <= n + 1) /\ from + (i - (n + 1)) \in 1..z
    BY <1>4, <1>8
  <2>2. R[i] = l[from + (i - (n + 1))]
    BY <1>6, <2>1
  <2>3. PICK j \in Nat : j = i + (e - 1)
    BY <1>3
  <2>4. j \in 1..(n + (z - c)) /\ ~(j <= n) /\ c + (j - n) = from + (i - (n + 1))
    BY <1>3, <1>4, <1>8, <2>3
  <2>5. Q[j] = l[c + (j - n)]
    BY <1>5, <2>4
  <2> QED BY <2>1, <2>2, <2>3, <2>4, <2>5
<1>11. R[n + 1] = m
  BY <1>6, <1>7, <1>8
<1>12. ASSUME NEW i \in Updates(R)
       PROVE  (i <= n => R[i].at < from) /\ (i > n + 1 => R[i].at > from)
  <2>1. i \in 1..N /\ IsContent(R[i])
    BY <1>6 DEF Updates
  <2>2. ASSUME i <= n PROVE R[i].at < from
    <3>1. i \in 1..n /\ R[i] = s[i]
      BY <1>9, <2>1, <2>2
    <3>2. i \in Updates(s)
      BY <1>7, <2>1, <3>1 DEF Updates
    <3>3. s[i].at \in 1..c
      BY <3>2
    <3> QED BY <3>1, <3>3
  <2>3. ASSUME i > n + 1 PROVE R[i].at > from
    <3>1. i \in (n + 2)..N
      BY <2>1, <2>3
    <3>2. PICK k \in Nat : k = from + (i - (n + 1)) /\ k > from
      BY <3>1
    <3>3. k \in 1..z /\ R[i] = l[k]
      BY <1>10, <3>1, <3>2
    <3>4. k \in Updates(l)
      BY <1>7, <2>1, <3>3 DEF Updates
    <3>5. l[k].at = k
      BY <3>4
    <3> QED BY <3>2, <3>3, <3>5
  <2> QED BY <2>2, <2>3
<1>13. ASSUME ~HasContent(SubSeq(l, from + 1, Len(l))) PROVE NoneIn(R, n + 2, N)
  <2> SUFFICES ASSUME NEW i \in (n + 2)..N, IsContent(R[i]) PROVE FALSE
    BY DEF NoneIn
  <2>1. PICK k \in Nat : k = i - (n + 1) /\ k \in 1..(z - from)
    BY <1>4, <1>8
  <2>2. R[i] = l[from + k]
    BY <1>10, <2>1
  <2>3. SubSeq(l, from + 1, Len(l)) = [x \in 1..((z - (from + 1)) + 1) |-> l[(x + (from + 1)) - 1]]
    BY <1>2
  <2>4. (z - (from + 1)) + 1 = z - from /\ (k + (from + 1)) - 1 = from + k
    BY <1>8, <2>1
  <2>5. k \in DOMAIN SubSeq(l, from + 1, Len(l)) /\ SubSeq(l, from + 1, Len(l))[k] = l[from + k]
    BY <2>1, <2>3, <2>4
  <2>6. IsContent(SubSeq(l, from + 1, Len(l))[k])
    BY <2>2, <2>5
  <2> QED BY <1>13, <2>5, <2>6 DEF HasContent
<1>14. b = from \/ (b = a /\ NoneIn(R, n + 2, N))
  BY <1>13
<1>15. g => f /\ NoneIn(R, n + 2, N)
  BY <1>13
<1>16. a \in 0..from
  OBVIOUS
<1>17. R[n + 1].kind = "full" /\ R[n + 1].doc = p /\ R[n + 1].at = from
  BY <1>11
<1>18. Sound(Q, p, a, f, d)
  BY DEF Q
<1>19. /\ \A i \in 1..n : R[i] = Q[i]
       /\ \A i \in (n + 2)..N : R[i] = Q[i + (e - 1)]
       /\ \A i \in Updates(R) : (i <= n => R[i].at < from) /\ (i > n + 1 => R[i].at > from)
  BY <1>9, <1>10, <1>12
<1>20. R \in Seq(Message) /\ Len(R) = N /\ Q \in Seq(Message)
  BY <1>5, <1>6
<1>21. Spliced(Q, R, n, N, e, p, from, a, b, f, g)
  BY <1>3, <1>8, <1>14, <1>15, <1>16, <1>17, <1>19, <1>20 DEF Spliced
<1>22. Sound(R, p, b, g, d)
  <2>1. \A a1 \in 0..from, b1 \in Nat : \A f1, g1 :
          Spliced(Q, R, n, N, e, p, from, a1, b1, f1, g1)
            => \A d1 : Sound(Q, p, a1, f1, d1) => Sound(R, p, b1, g1, d1)
    <3>1. ASSUME NEW a1 \in 0..from, NEW b1 \in Nat, NEW f1, NEW g1,
                 Spliced(Q, R, n, N, e, p, from, a1, b1, f1, g1),
                 NEW d1, Sound(Q, p, a1, f1, d1)
          PROVE  Sound(R, p, b1, g1, d1)
      BY <1>20, <3>1, SoundSplice
    <3> QED BY <3>1
  <2>2. \A d1 : Sound(Q, p, a, f, d1) => Sound(R, p, b, g, d1)
    BY <1>16, <1>21, <2>1
  <2> QED BY <1>18, <2>2
<1> QED BY <1>22 DEF R

(* The line of such a tab, when nothing is retained after the page.        *)
Skipped(r, s, w) == \E n \in 1..Len(r) : s = Append(SubSeq(r, 1, n), w)

LEMMA SkipLine ==
  ASSUME NEW V, NEW v \in V, NEW w \in V, NEW x \in Seq(V), NEW y \in Seq(V)
  PROVE  Skipped(<<v>> \o (x \o y), <<v>> \o Append(x, w), w)
<1> DEFINE r == <<v>> \o (x \o y)
           n == Len(x) + 1
           s == <<v>> \o Append(x, w)
           q == SubSeq(r, 1, n)
           u == Append(q, w)
<1>1. /\ x \o y \in Seq(V) /\ Len(x \o y) = Len(x) + Len(y) /\ Len(x) \in Nat /\ Len(y) \in Nat
      /\ \A i \in 1..Len(x) : (x \o y)[i] = x[i]
  OBVIOUS
<1>2. PICK xy \in Seq(V) : xy = x \o y
  BY <1>1
<1>3. /\ r \in Seq(V) /\ Len(r) = 1 + (Len(x) + Len(y)) /\ r[1] = v
      /\ \A i \in 1..Len(x) : r[i + 1] = x[i]
  <2>1. /\ <<v>> \o xy \in Seq(V) /\ Len(<<v>> \o xy) = 1 + Len(xy) /\ (<<v>> \o xy)[1] = v
        /\ \A i \in 1..Len(xy) : (<<v>> \o xy)[i + 1] = xy[i]
    OBVIOUS
  <2> QED BY <1>1, <1>2, <2>1
<1>4. n \in 1..Len(r) /\ n \in Nat
  BY <1>1, <1>3
<1> HIDE DEF r
<1>5. q \in Seq(V) /\ Len(q) = n /\ \A i \in 1..n : q[i] = r[i]
  BY <1>3, <1>4
<1> HIDE DEF q
<1>6. u \in Seq(V) /\ Len(u) = n + 1 /\ u[n + 1] = w /\ \A i \in 1..n : u[i] = r[i]
  BY <1>4, <1>5
<1>7. PICK xw \in Seq(V) : xw = Append(x, w) /\ Len(xw) = n /\ xw[n] = w
                           /\ \A i \in 1..Len(x) : xw[i] = x[i]
  <2>1. /\ Append(x, w) \in Seq(V) /\ Len(Append(x, w)) = Len(x) + 1
        /\ Append(x, w)[Len(x) + 1] = w
        /\ \A i \in 1..Len(x) : Append(x, w)[i] = x[i]
    OBVIOUS
  <2> QED BY <2>1
<1>8. /\ s \in Seq(V) /\ Len(s) = n + 1 /\ s[1] = v /\ \A i \in 1..n : s[i + 1] = xw[i]
  <2>1. /\ <<v>> \o xw \in Seq(V) /\ Len(<<v>> \o xw) = 1 + Len(xw) /\ (<<v>> \o xw)[1] = v
        /\ \A i \in 1..Len(xw) : (<<v>> \o xw)[i + 1] = xw[i]
    OBVIOUS
  <2> QED BY <1>4, <1>7, <2>1
<1> HIDE DEF s, u
<1>9. ASSUME NEW i \in 1..(n + 1) PROVE s[i] = u[i]
  <2>1. CASE i = 1
    BY <1>3, <1>4, <1>6, <1>8, <2>1
  <2>2. CASE i \in 2..n
    <3>1. PICK k \in Nat : k = i - 1 /\ k \in 1..Len(x) /\ k \in 1..n /\ i = k + 1
      BY <1>1, <2>2
    <3>2. r[i] = x[k]
      BY <1>3, <3>1
    <3>3. s[i] = xw[k]
      BY <1>8, <3>1
    <3>4. xw[k] = x[k]
      BY <1>7, <3>1
    <3>5. i \in 1..n /\ u[i] = r[i]
      BY <1>4, <1>6, <2>2
    <3> QED BY <3>2, <3>3, <3>4, <3>5
  <2>3. CASE i = n + 1
    BY <1>1, <1>4, <1>6, <1>7, <1>8, <2>3
  <2> QED BY <1>4, <2>1, <2>2, <2>3
<1>10. s = u
  BY <1>6, <1>8, <1>9, SeqEqual
<1> QED BY <1>4, <1>10 DEF Skipped, r, s, u, q

LEMMA SeqWider ==
  ASSUME NEW A, NEW V, A \subseteq V, NEW q \in Seq(A)
  PROVE  q \in Seq(V)
<1>1. PICK n \in Nat : n = Len(q) /\ q \in [1..n -> A]
  OBVIOUS
<1>2. q \in [1..n -> V]
  BY <1>1
<1> QED BY <1>1, <1>2

(* The whole page and no update after it.                                  *)
LEMMA ResyncPages ==
  ASSUME NEW s \in Seq(Message), NEW l \in Seq(Message), NEW c \in 0..Len(l),
         NEW m \in Message, IsContent(m), ~HasContent(SubSeq(l, c + 1, Len(l)))
  PROVE  PagesIn(Flow(Append(s, m), l, c)) = Append(PagesIn(s), View(m.doc))
<1>1. SubSeq(l, c + 1, Len(l)) \in Seq(Message)
  <2>1. PICK z \in Nat : z = Len(l)
    OBVIOUS
  <2>2. SubSeq(l, c + 1, z) = [i \in 1..((z - (c + 1)) + 1) |-> l[(i + (c + 1)) - 1]]
    BY <2>1
  <2>3. (z - (c + 1)) + 1 = z - c /\ z - c \in Nat
    BY <2>1
  <2>4. \A i \in 1..(z - c) : l[(i + (c + 1)) - 1] \in Message
    BY <2>1
  <2> QED BY <2>1, <2>2, <2>3, <2>4
<1>2. PICK r \in Seq(Message) : r = SubSeq(l, c + 1, Len(l))
  BY <1>1
<1>3. Updates(r) = {}
  BY <1>2, ContentUpdates
<1>4. PagesIn(r) = <<>>
  BY <1>3, PagesFew
<1>5. PICK sm \in Seq(Message) : sm = Append(s, m)
  <2>1. Append(s, m) \in Seq(Message)
    OBVIOUS
  <2> QED BY <2>1
<1>6. PagesIn(sm \o r) = PagesIn(sm) \o PagesIn(r)
  BY PagesConcat
<1>7. PagesIn(sm) \in Seq(DocPages)
  BY PagesType
<1>8. PagesIn(sm) \o <<>> = PagesIn(sm)
  BY <1>7
<1>9. PagesIn(sm) = Append(PagesIn(s), View(m.doc))
  BY <1>5, PagesAppend
<1> QED BY <1>2, <1>4, <1>5, <1>6, <1>8, <1>9 DEF Flow

LEMMA ResyncSound ==
  ASSUME TypeInv, NEW t \in Tabs, TabSound(t), Resync(t)
  PROVE  TabSound(t)' /\ (Line(t)' = <<>> \/ Skipped(Line(t), Line(t)', View(page)))
<1> DEFINE from == RetainedFrom
           m == Envelope("full", page, page, from)
           rest == SubSeq(log, from + 1, Len(log))
<1>1. /\ UNCHANGED serverVars
      /\ from \in Nat /\ cursor[t] < from /\ from <= Len(log) /\ m \in Message
      /\ st[t] = "live" /\ st'[t] = st[t] /\ dom'[t] = dom[t] /\ cursor'[t] = from
      /\ sock'[t] = Append(sock[t], m)
      /\ lost'[t] = IF HasContent(rest) THEN [at |-> from, why |-> "lag"] ELSE lost[t]
  BY TabFacts, ResyncEffect
<1>2. /\ page' = page /\ log' = log /\ log \in Seq(Message) /\ sock[t] \in Seq(Message)
      /\ Len(log) \in Nat /\ page \in Rendered
      /\ cursor[t] \in Nat /\ TabTyped(t) /\ \A k \in Updates(log) : log[k].at = k
      /\ lost[t] \in [at : Nat, why : {"none", "gap", "lag", "kept", "veto"}]
  BY <1>1, TabFacts DEF serverVars, ServerTyped
<1>3. m.kind = "full" /\ m.doc = page /\ m.at = from /\ IsContent(m)
  BY DEF Envelope, IsContent
<1> HIDE DEF m, from
<1>4. Queue(t)' = Flow(Append(sock[t], m), log, from)
  BY <1>1, <1>2 DEF Queue, Unread, Flow
<1>5. Queue(t) = Flow(sock[t], log, cursor[t])
  BY QueueFacts
<1>6. /\ IsFlat(dom[t]) <=> IsFlat(page)
      /\ Sound(Flow(sock[t], log, cursor[t]), page, lost[t].at, lost[t].why = "none", dom[t])
  BY <1>1, <1>5 DEF TabSound
<1>7. PICK a \in 0..cursor[t] : a = lost[t].at
  BY <1>2 DEF TabTyped
<1>8. PICK b \in Nat : b = lost'[t].at
  BY <1>1, <1>2
<1>9. b = from \/ (b = a /\ ~HasContent(rest))
  BY <1>1, <1>7, <1>8
<1>10. (lost'[t].why = "none") => (lost[t].why = "none") /\ ~HasContent(rest)
  BY <1>1
<1>11. \A i \in Updates(sock[t]) : sock[t][i].at \in 1..cursor[t]
  BY <1>2 DEF TabTyped
<1> HIDE DEF rest
<1>12. Sound(Flow(Append(sock[t], m), log, from), page, b, lost'[t].why = "none", dom[t])
  <2>1. ASSUME NEW s \in Seq(Message), NEW l \in Seq(Message), NEW c \in Nat, NEW n \in Nat,
               NEW x \in Message, NEW a1 \in 0..c, NEW b1 \in Nat, NEW f, NEW g, NEW d,
               c < n, n <= Len(l), x.kind = "full", x.doc = page, x.at = n,
               \A i \in Updates(s) : s[i].at \in 1..c,
               \A k \in Updates(l) : l[k].at = k,
               b1 = n \/ (b1 = a1 /\ ~HasContent(SubSeq(l, n + 1, Len(l)))),
               g => f /\ ~HasContent(SubSeq(l, n + 1, Len(l))),
               Sound(Flow(s, l, c), page, a1, f, d)
        PROVE  Sound(Flow(Append(s, x), l, n), page, b1, g, d)
    BY <2>1, ResyncQueue
  <2>2. ASSUME NEW f, NEW g, NEW d, g => f /\ ~HasContent(rest),
               Sound(Flow(sock[t], log, cursor[t]), page, a, f, d)
        PROVE  Sound(Flow(Append(sock[t], m), log, from), page, b, g, d)
    BY <1>1, <1>2, <1>3, <1>9, <1>11, <2>1, <2>2 DEF rest
  <2> QED BY <1>6, <1>7, <1>10, <2>2
<1>13. TabSound(t)'
  <2>1. st'[t] # "loaded" /\ (IsFlat(dom'[t]) <=> IsFlat(page'))
    BY <1>1, <1>2, <1>6
  <2>2. Sound(Flow(Append(sock[t], m), log, from), page', lost'[t].at, lost'[t].why = "none", dom'[t])
    BY <1>1, <1>2, <1>8, <1>12
  <2> QED BY <1>4, <2>1, <2>2, SoundNext
<1>14. CASE lost'[t].why = "none"
  <2> DEFINE V == DocPages \cup {View(dom[t]), View(page)}
  <2>1. ~HasContent(rest) /\ lost[t].why = "none"
    BY <1>10, <1>14
  <2>2. PICK x \in Seq(DocPages) : x = PagesIn(sock[t])
    BY <1>2, PagesType
  <2>3. from \in 0..Len(log) /\ cursor[t] \in 0..Len(log)
    BY <1>1, <1>2
  <2>4. PagesIn(Flow(Append(sock[t], m), log, from)) = Append(x, View(page))
    BY <1>1, <1>2, <1>3, <2>1, <2>2, <2>3, ResyncPages DEF rest
  <2>5. PICK z \in Seq(Message) : z = SubSeq(log, cursor[t] + 1, Len(log))
    BY QueueFacts DEF Unread
  <2>6. PICK y \in Seq(DocPages) : y = PagesIn(z)
    BY PagesType
  <2>7. PagesIn(Queue(t)) = x \o y
    <3>1. PagesIn(sock[t] \o z) = PagesIn(sock[t]) \o PagesIn(z)
      BY <1>2, PagesConcat
    <3> QED BY <1>5, <2>2, <2>5, <2>6, <3>1 DEF Flow
  <2>8. Line(t) = <<View(dom[t])>> \o (x \o y)
    BY <1>1, <2>1, <2>7, LineNow
  <2>9. Line(t)' = <<View(dom[t])>> \o Append(x, View(page))
    BY <1>1, <1>4, <1>14, <2>4, LineNext
  <2>10. x \in Seq(V) /\ y \in Seq(V) /\ View(dom[t]) \in V /\ View(page) \in V
    <3>1. DocPages \subseteq V
      OBVIOUS
    <3> HIDE DEF V
    <3>2. x \in Seq(V) /\ y \in Seq(V)
      BY <3>1, SeqWider
    <3> QED BY <3>2 DEF V
  <2> HIDE DEF V
  <2>11. Skipped(Line(t), Line(t)', View(page))
    <3>1. ASSUME NEW x1 \in Seq(V), NEW y1 \in Seq(V), NEW v \in V, NEW w \in V
          PROVE  Skipped(<<v>> \o (x1 \o y1), <<v>> \o Append(x1, w), w)
      BY SkipLine
    <3>2. Skipped(<<View(dom[t])>> \o (x \o y), <<View(dom[t])>> \o Append(x, View(page)), View(page))
      BY <2>10, <3>1
    <3> QED BY <2>8, <2>9, <3>2
  <2> QED BY <1>13, <2>11
<1>15. CASE lost'[t].why # "none"
  <2>1. Line(t)' = <<>>
    BY <1>4, <1>15, LineNext
  <2> QED BY <1>13, <2>1
<1> QED BY <1>14, <1>15

(* How a line may move when the page stays w: the next page of it is       *)
(* shown, or a tab begins to follow.                                       *)
Shown(r, s) == Len(r) > 1 /\ s = Tail(r)

Joined(r, s, w) == r = <<>> /\ s \in Seq(DocPages) /\ s # <<>> /\ s[Len(s)] = w

Moves(r, s, w) ==
  s = r \/ s = <<>> \/ Skipped(r, s, w) \/ Shown(r, s) \/ Joined(r, s, w)

LEMMA ShowLine ==
  ASSUME NEW V, NEW v \in V, NEW w \in V, NEW x \in Seq(V)
  PROVE  Shown(<<v>> \o (<<w>> \o x), <<w>> \o x)
<1>1. /\ <<w>> \o x \in Seq(V) /\ Len(<<w>> \o x) = 1 + Len(x) /\ Len(x) \in Nat
  OBVIOUS
<1>2. PICK y \in Seq(V) : y = <<w>> \o x /\ Len(y) = 1 + Len(x)
  BY <1>1
<1>3. /\ <<v>> \o y \in Seq(V) /\ Len(<<v>> \o y) = 1 + Len(y)
      /\ \A i \in 1..Len(y) : (<<v>> \o y)[i + 1] = y[i]
  OBVIOUS
<1>4. PICK r \in Seq(V) : r = <<v>> \o y /\ Len(r) = 1 + Len(y)
                          /\ \A i \in 1..Len(y) : r[i + 1] = y[i]
  BY <1>3
<1>5. /\ Tail(r) \in Seq(V) /\ Len(Tail(r)) = Len(y) /\ Len(r) > 1
      /\ \A i \in 1..Len(y) : Tail(r)[i] = r[i + 1]
  <2>1. Len(r) > 1 /\ r # <<>>
    BY <1>1, <1>2, <1>4
  <2> QED BY <1>4, <2>1
<1>6. Tail(r) = y
  BY <1>4, <1>5, SeqEqual
<1> QED BY <1>2, <1>4, <1>5, <1>6 DEF Shown

LEMMA JoinLine ==
  ASSUME NEW v \in DocPages, NEW x \in Seq(DocPages), NEW p,
         x # <<>> => x[Len(x)] = p, x = <<>> => v = p
  PROVE  Joined(<<>>, <<v>> \o x, p)
<1>1. /\ <<v>> \o x \in Seq(DocPages) /\ Len(<<v>> \o x) = 1 + Len(x) /\ Len(x) \in Nat
      /\ (<<v>> \o x)[1] = v /\ \A i \in 1..Len(x) : (<<v>> \o x)[i + 1] = x[i]
  OBVIOUS
<1>2. PICK r \in Seq(DocPages) : /\ r = <<v>> \o x /\ Len(r) = 1 + Len(x) /\ r[1] = v
                                 /\ \A i \in 1..Len(x) : r[i + 1] = x[i]
  BY <1>1
<1>3. r # <<>>
  BY <1>1, <1>2
<1>4. r[Len(r)] = p
  <2>1. CASE x = <<>>
    BY <1>2, <2>1
  <2>2. CASE x # <<>>
    <3>1. Len(x) \in 1..Len(x) /\ Len(r) = Len(x) + 1
      BY <1>1, <1>2, <2>2
    <3>2. r[Len(x) + 1] = x[Len(x)]
      BY <1>2, <3>1
    <3> QED BY <2>2, <3>1, <3>2
  <2> QED BY <2>1, <2>2
<1> QED BY <1>2, <1>3, <1>4 DEF Joined

LEMMA SoundApart ==
  ASSUME NEW q, NEW p, NEW a, NEW d, NEW e, Sound(q, p, a, FALSE, d), NEW f, ~f
  PROVE  Sound(q, p, a, f, e)
BY DEF Sound

(* The head of a sound queue is applied to what the tab shows.             *)
LEMMA HeadLayout ==
  ASSUME NEW q \in Seq(Message), q # <<>>, IsContent(q[1]), NEW p, NEW a, NEW f,
         NEW d \in Page, Sound(q, p, a, f, d), IsFlat(d) <=> IsFlat(p)
  PROVE  /\ q[1] \in Message /\ 1 \in Updates(q)
         /\ IsFlat(q[1].doc) <=> IsFlat(d)
         /\ q[1].kind = "reconcile" => IsFlat(d)
<1>1. q[1] \in Message /\ 1 \in DOMAIN q
  OBVIOUS
<1>2. 1 \in Updates(q)
  BY <1>1 DEF Updates
<1>3. SameLayout(q[1], p)
  BY <1>2 DEF Sound
<1> QED BY <1>1, <1>2, <1>3 DEF SameLayout

LEMMA HeadFollows ==
  ASSUME NEW q \in Seq(Message), 1 \in Updates(q), NEW p, NEW a, NEW d,
         Sound(q, p, a, TRUE, d)
  PROVE  Follows(d, q[1])
<1>1. Starts(q, d)
  BY DEF Sound
<1>2. NoneIn(q, 1, 1 - 1)
  BY DEF NoneIn
<1> QED BY <1>1, <1>2 DEF Starts

LEMMA HeadFlat ==
  ASSUME NEW q \in Seq(Message), q # <<>>, IsContent(q[1]), NEW p, NEW a, NEW f,
         NEW d \in Page, d.nested \subseteq DOMAIN d.blocks, NEW v,
         Sound(q, p, a, f, d), IsFlat(d) <=> IsFlat(p)
  PROVE  IsFlat(Applied(d, q[1], v)) <=> IsFlat(p)
<1>1. /\ q[1] \in Message
      /\ IsFlat(q[1].doc) <=> IsFlat(d)
      /\ q[1].kind = "reconcile" => IsFlat(d)
  BY HeadLayout
<1>2. (q[1].kind = "full" => IsFlat(q[1].doc) = IsFlat(d))
        /\ (q[1].kind = "reconcile" => IsFlat(d))
  BY <1>1 DEF IsFlat
<1>3. IsFlat(Applied(d, q[1], v)) = IsFlat(d)
  BY <1>1, <1>2, AppliedType
<1> QED BY <1>3

LEMMA HeadApplied ==
  ASSUME NEW q \in Seq(Message), q # <<>>, IsContent(q[1]), NEW p, NEW a \in Nat,
         NEW f, NEW d \in Page, d.nested \subseteq DOMAIN d.blocks, NEW v,
         q[1].kind = "partial" => q[1].carried \ v = q[1].carried,
         Sound(q, p, a, f, d), IsFlat(d) <=> IsFlat(p), q[1].at > a,
         f \/ q[1].kind = "full"
  PROVE  LET e == Applied(d, q[1], v) IN
         View(e) = View(q[1].doc) /\ Sound(Tail(q), p, 0, TRUE, e)
<1> DEFINE e == Applied(d, q[1], v)
<1>0. \A x : View(x) = View(q[1].doc) => Sound(Tail(q), p, 0, TRUE, x)
  BY SoundTail
<1>1. /\ q[1] \in Message /\ 1 \in Updates(q)
      /\ q[1].kind = "reconcile" => IsFlat(d)
  BY HeadLayout
<1>2. CASE q[1].kind = "full"
  <2>1. e = q[1].doc
    BY <1>2 DEF Applied
  <2>2. View(e) = View(q[1].doc)
    BY <2>1
  <2> QED BY <1>0, <2>2
<1>3. CASE f
  <2>1. Sound(q, p, a, TRUE, d)
    BY <1>3 DEF Sound
  <2>2. Follows(d, q[1])
    BY <1>1, <2>1, HeadFollows
  <2>3. View(e) = View(q[1].doc)
    BY <1>1, <2>2, AppliedView
  <2> QED BY <1>0, <2>3
<1> QED BY <1>2, <1>3

(* What happens to the line when its tab takes an envelope.                *)
LEMMA ApplyLine ==
  ASSUME NEW q \in Seq(Message), q # <<>>, IsContent(q[1]), NEW p, NEW d, NEW e,
         NEW a, NEW g, View(e) = View(q[1].doc), Sound(Tail(q), p, a, TRUE, e)
  PROVE  /\ Shown(<<View(d)>> \o PagesIn(q), <<View(e)>> \o PagesIn(Tail(q)))
         /\ Joined(<<>>, <<View(e)>> \o PagesIn(Tail(q)), View(p))
<1>1. q[1] \in Message /\ Tail(q) \in Seq(Message)
  OBVIOUS
<1>2. PICK r \in Seq(Message) : r = Tail(q)
  BY <1>1
<1>3. PICK x \in Seq(DocPages) : x = PagesIn(r)
  BY PagesType
<1>4. PagesIn(q) = <<View(q[1].doc)>> \o x
  BY <1>2, <1>3, PagesHead
<1>5. View(e) \in DocPages
  <2>1. q[1].doc \in Rendered
    BY <1>1 DEF Message
  <2> QED BY <2>1 DEF Rendered, DocPages
<1>6. Shown(<<View(d)>> \o PagesIn(q), <<View(e)>> \o PagesIn(Tail(q)))
  <2> DEFINE V == DocPages \cup {View(d)}
  <2>1. DocPages \subseteq V /\ View(d) \in V
    OBVIOUS
  <2> HIDE DEF V
  <2>2. x \in Seq(V) /\ View(e) \in V
    BY <1>5, <2>1, SeqWider
  <2>3. Shown(<<View(d)>> \o (<<View(e)>> \o x), <<View(e)>> \o x)
    BY <2>1, <2>2, ShowLine
  <2> QED BY <1>2, <1>3, <1>4, <2>3
<1>7. Joined(<<>>, <<View(e)>> \o PagesIn(Tail(q)), View(p))
  <2>1. Ends(r, p) /\ (Updates(r) = {} => View(e) = View(p))
    BY <1>2 DEF Sound
  <2>2. Updates(r) = {} => x = <<>>
    BY <1>3, PagesFew
  <2>3. Updates(r) # {} => Len(x) > 0 /\ x[Len(x)] = View(p)
    BY <1>3, <2>1, PagesEnd
  <2>4. x # <<>> => x[Len(x)] = View(p)
    BY <2>2, <2>3
  <2>5. x = <<>> => View(e) = View(p)
    <3>1. x = <<>> => Len(x) = 0
      OBVIOUS
    <3> QED BY <2>1, <2>3, <3>1
  <2>6. Joined(<<>>, <<View(e)>> \o x, View(p))
    BY <1>5, <2>4, <2>5, JoinLine
  <2> QED BY <1>2, <1>3, <2>6
<1> QED BY <1>6, <1>7

LEMMA RefuseEffect ==
  ASSUME VarsTyped, NEW t \in Tabs, NEW m \in Message, Refuse(t, m)
  PROVE  lost'[t].why # "none" /\ lost'[t].at \in Nat /\ lost'[t].at >= lost[t].at
<1>1. lost[t] \in [at : Nat, why : {"none", "gap", "lag", "kept", "veto"}] /\ m.at \in Nat
  BY DEF VarsTyped, Message
<1>2. lost'[t] = [at  |-> IF m.at > lost[t].at THEN m.at ELSE lost[t].at,
                  why |-> IF lost[t].why = "none" THEN "veto" ELSE lost[t].why]
  BY DEF Refuse, VarsTyped
<1> QED BY <1>1, <1>2

LEMMA ApplyQueue ==
  ASSUME TypeInv, NEW t \in Tabs, Apply(t)
  PROVE  /\ Queue(t) \in Seq(Message) /\ Queue(t) # <<>> /\ Queue(t)[1] = Head(sock[t])
         /\ Queue(t)' = Tail(Queue(t))
         /\ page' = page /\ log' = log /\ st[t] = "live" /\ st'[t] = "live"
         /\ Head(sock[t]) \in Message
         /\ IsContent(Head(sock[t])) => Head(sock[t]).at > 0
<1>1. /\ UNCHANGED serverVars /\ st' = st /\ cursor' = cursor
      /\ sock[t] # <<>> /\ sock' = [sock EXCEPT ![t] = Tail(sock[t])]
  BY TabFacts, ApplyEffect
<1>2. /\ page' = page /\ log' = log /\ TabTyped(t) /\ sock[t] \in Seq(Message)
      /\ sock \in [Tabs -> Seq(Message)] /\ cursor'[t] = cursor[t]
      /\ log \in Seq(Message) /\ cursor[t] \in 0..Len(log)
  BY <1>1, TabFacts, QueueFacts DEF serverVars, VarsTyped
<1>3. sock'[t] = Tail(sock[t])
  BY <1>1, <1>2
<1>4. st[t] = "live" /\ st'[t] = "live"
  BY <1>1, <1>2 DEF TabTyped
<1>5. /\ Flow(Tail(sock[t]), log, cursor[t]) = Tail(Flow(sock[t], log, cursor[t]))
      /\ Flow(sock[t], log, cursor[t]) # <<>>
      /\ Flow(sock[t], log, cursor[t])[1] = Head(sock[t])
  BY <1>1, <1>2, FlowTail
<1>6. Queue(t)' = Flow(Tail(sock[t]), log, cursor[t])
  BY <1>2, <1>3 DEF Queue, Unread, Flow
<1>7. Head(sock[t]) \in Message /\ Head(sock[t]) = sock[t][1] /\ 1 \in DOMAIN sock[t]
  BY <1>1, <1>2
<1>8. IsContent(Head(sock[t])) => Head(sock[t]).at > 0
  <2>1. IsContent(Head(sock[t])) => 1 \in Updates(sock[t])
    BY <1>7 DEF Updates
  <2>2. \A i \in Updates(sock[t]) : sock[t][i].at \in 1..cursor[t]
    BY <1>2 DEF TabTyped
  <2> QED BY <1>7, <2>1, <2>2
<1> QED BY <1>1, <1>2, <1>4, <1>5, <1>6, <1>7, <1>8, QueueFacts

LEMMA ApplySound ==
  ASSUME TypeInv, NEW t \in Tabs, TabSound(t), Apply(t)
  PROVE  TabSound(t)' /\ Moves(Line(t), Line(t)', View(page))
<1> DEFINE m == Head(sock[t])
           v == IF edit[t].dirty THEN {edit[t].pos} ELSE {}
           e == Applied(dom[t], m, v)
<1>1. /\ page' = page /\ log' = log /\ st[t] = "live" /\ st'[t] = "live"
      /\ Queue(t)' = Tail(Queue(t)) /\ m \in Message /\ (IsContent(m) => m.at > 0)
  BY ApplyQueue
<1>2. PICK q \in Seq(Message) : q = Queue(t) /\ q # <<>> /\ q[1] = m
  BY ApplyQueue
<1>3. \/ /\ ~IsContent(m) /\ dom' = dom /\ lost' = lost
      \/ /\ IsContent(m) /\ (dom' = dom \/ dom' = [dom EXCEPT ![t] = e]) /\ Refuse(t, m)
      \/ /\ IsContent(m) /\ dom' = [dom EXCEPT ![t] = e]
         /\ m.kind = "partial" => m.carried \ v = m.carried
         /\ lost' = IF m.kind = "full" /\ m.at > lost[t].at
                    THEN [lost EXCEPT ![t] = InStep] ELSE lost
  BY TabFacts, ApplyEffect
<1>4. /\ dom \in [Tabs -> Page] /\ dom[t] \in Page /\ dom[t].nested \subseteq DOMAIN dom[t].blocks
      /\ lost \in [Tabs -> [at : Nat, why : {"none", "gap", "lag", "kept", "veto"}]]
      /\ lost[t].at \in Nat /\ (lost[t].why = "none" => lost[t].at = 0)
  BY TabFacts DEF VarsTyped, TabTyped
<1>5. /\ IsFlat(dom[t]) <=> IsFlat(page)
      /\ Sound(q, page, lost[t].at, lost[t].why = "none", dom[t])
  BY <1>1, <1>2 DEF TabSound
<1>6. Queue(t)' = Tail(q)
  BY <1>1, <1>2
<1> HIDE DEF m, e, v
<1>7. ASSUME NEW x, dom'[t] = x, IsFlat(x) <=> IsFlat(page),
             Sound(Tail(q), page, lost'[t].at, lost'[t].why = "none", x)
      PROVE  TabSound(t)'
  BY <1>1, <1>6, <1>7, SoundNext
<1>8. /\ Line(t) = IF lost[t].why = "none" THEN <<View(dom[t])>> \o PagesIn(q) ELSE <<>>
      /\ Line(t)' = IF lost'[t].why = "none" THEN <<View(dom'[t])>> \o PagesIn(Tail(q)) ELSE <<>>
  BY <1>1, <1>2, <1>6, LineNow, LineNext
<1>9. IsContent(m) => (IsFlat(e) <=> IsFlat(page))
  <2>1. ASSUME NEW a, NEW f, NEW d \in Page, NEW w, IsContent(m),
               d.nested \subseteq DOMAIN d.blocks, Sound(q, page, a, f, d),
               IsFlat(d) <=> IsFlat(page)
        PROVE  IsFlat(Applied(d, q[1], w)) <=> IsFlat(page)
    BY <1>2, <2>1, HeadFlat
  <2>2. IsContent(m) => (IsFlat(Applied(dom[t], q[1], v)) <=> IsFlat(page))
    BY <1>4, <1>5, <2>1
  <2> QED BY <1>2, <2>2 DEF e
<1>10. CASE ~IsContent(m) /\ dom' = dom /\ lost' = lost
  <2>1. Sound(Tail(q), page, lost[t].at, lost[t].why = "none", dom[t])
    BY <1>2, <1>4, <1>5, <1>10, SoundTail
  <2>2. TabSound(t)'
    BY <1>5, <1>7, <1>10, <2>1
  <2>3. PagesIn(q) = PagesIn(Tail(q))
    BY <1>2, <1>10, PagesHead
  <2>4. Line(t)' = Line(t)
    BY <1>8, <1>10, <2>3
  <2> QED BY <2>2, <2>4 DEF Moves
<1>11. CASE IsContent(m) /\ (dom' = dom \/ dom' = [dom EXCEPT ![t] = e]) /\ Refuse(t, m)
  <2>1. lost'[t].why # "none" /\ lost'[t].at \in Nat /\ lost'[t].at >= lost[t].at
    BY <1>1, <1>11, TabFacts, RefuseEffect
  <2>2. Sound(Tail(q), page, lost'[t].at, FALSE, dom'[t])
    BY <1>2, <1>4, <1>5, <2>1, SoundTail
  <2>3. Sound(Tail(q), page, lost'[t].at, lost'[t].why = "none", dom'[t])
    BY <2>1, <2>2, SoundApart
  <2>4. dom'[t] = dom[t] \/ dom'[t] = e
    BY <1>4, <1>11
  <2>5. TabSound(t)'
    BY <1>5, <1>7, <1>9, <1>11, <2>3, <2>4
  <2>6. Line(t)' = <<>>
    BY <1>8, <2>1
  <2> QED BY <2>5, <2>6 DEF Moves
<1>12. CASE /\ IsContent(m) /\ dom' = [dom EXCEPT ![t] = e]
            /\ m.kind = "partial" => m.carried \ v = m.carried
            /\ lost' = IF m.kind = "full" /\ m.at > lost[t].at
                       THEN [lost EXCEPT ![t] = InStep] ELSE lost
  <2>1. dom'[t] = e /\ (IsFlat(e) <=> IsFlat(page))
    BY <1>4, <1>9, <1>12
  <2>2. CASE lost[t].why # "none" /\ ~(m.kind = "full" /\ m.at > lost[t].at)
    <3>1. lost'[t] = lost[t]
      BY <1>12, <2>2
    <3>2. Sound(Tail(q), page, lost'[t].at, FALSE, e)
      <4>1. \A x : \A b \in Nat : b >= lost[t].at => Sound(Tail(q), page, b, FALSE, x)
        BY <1>2, <1>4, <1>5, SoundTail
      <4>2. lost[t].at >= lost[t].at
        BY <1>4
      <4> QED BY <1>4, <3>1, <4>1, <4>2
    <3>3. Sound(Tail(q), page, lost'[t].at, lost'[t].why = "none", e)
      BY <2>2, <3>1, <3>2, SoundApart
    <3>4. TabSound(t)'
      BY <1>7, <2>1, <3>3
    <3>5. Line(t)' = <<>>
      BY <1>8, <2>2, <3>1
    <3> QED BY <3>4, <3>5 DEF Moves
  <2>3. CASE lost[t].why = "none" \/ (m.kind = "full" /\ m.at > lost[t].at)
    <3>1. lost'[t].why = "none" /\ lost'[t].at = 0
      BY <1>4, <1>12, <2>3 DEF InStep
    <3>2. m.at > lost[t].at
      BY <1>1, <1>4, <1>12, <2>3
    <3>3. View(e) = View(m.doc) /\ Sound(Tail(q), page, 0, TRUE, e)
      <4>1. lost[t].why = "none" \/ q[1].kind = "full"
        BY <1>2, <2>3
      <4>2. ASSUME NEW a \in Nat, NEW f, NEW d \in Page, NEW w,
                   d.nested \subseteq DOMAIN d.blocks, Sound(q, page, a, f, d),
                   IsFlat(d) <=> IsFlat(page), q[1].at > a, f \/ q[1].kind = "full",
                   q[1].kind = "partial" => q[1].carried \ w = q[1].carried
            PROVE  /\ View(Applied(d, q[1], w)) = View(q[1].doc)
                   /\ Sound(Tail(q), page, 0, TRUE, Applied(d, q[1], w))
        BY <1>2, <1>12, <4>2, HeadApplied, ZenonT(60)
      <4>3. /\ View(Applied(dom[t], q[1], v)) = View(q[1].doc)
            /\ Sound(Tail(q), page, 0, TRUE, Applied(dom[t], q[1], v))
        BY <1>2, <1>4, <1>5, <1>12, <3>2, <4>1, <4>2
      <4> QED BY <1>2, <4>3 DEF e
    <3>4. Sound(Tail(q), page, lost'[t].at, lost'[t].why = "none", e)
      BY <3>1, <3>3 DEF Sound
    <3>5. TabSound(t)'
      BY <1>7, <2>1, <3>4
    <3>6. /\ Shown(<<View(dom[t])>> \o PagesIn(q), <<View(e)>> \o PagesIn(Tail(q)))
          /\ Joined(<<>>, <<View(e)>> \o PagesIn(Tail(q)), View(page))
      BY <1>2, <1>12, <3>3, ApplyLine
    <3>7. Shown(Line(t), Line(t)') \/ Joined(Line(t), Line(t)', View(page))
      BY <1>8, <2>1, <3>1, <3>6
    <3> QED BY <3>5, <3>7 DEF Moves
  <2> QED BY <2>2, <2>3
<1> QED BY <1>3, <1>10, <1>11, <1>12

(* What a broadcast does to the queues, the unread messages and the lines. *)
Grows(r, w) == IF r = <<>> THEN <<>> ELSE Append(r, w)

LEMMA GrowLine ==
  ASSUME NEW V, NEW v \in V, NEW w \in V, NEW x \in Seq(V)
  PROVE  <<v>> \o Append(x, w) = Grows(<<v>> \o x, w)
<1>1. /\ Append(x, w) \in Seq(V) /\ Len(Append(x, w)) = Len(x) + 1 /\ Len(x) \in Nat
      /\ Append(x, w)[Len(x) + 1] = w /\ \A i \in 1..Len(x) : Append(x, w)[i] = x[i]
  OBVIOUS
<1>2. PICK y \in Seq(V) : /\ y = Append(x, w) /\ Len(y) = Len(x) + 1 /\ y[Len(x) + 1] = w
                          /\ \A i \in 1..Len(x) : y[i] = x[i]
  BY <1>1
<1>3. /\ <<v>> \o x \in Seq(V) /\ Len(<<v>> \o x) = 1 + Len(x) /\ (<<v>> \o x)[1] = v
      /\ \A i \in 1..Len(x) : (<<v>> \o x)[i + 1] = x[i]
  OBVIOUS
<1>4. PICK r \in Seq(V) : /\ r = <<v>> \o x /\ Len(r) = 1 + Len(x) /\ r[1] = v
                          /\ \A i \in 1..Len(x) : r[i + 1] = x[i]
  BY <1>3
<1>5. /\ <<v>> \o y \in Seq(V) /\ Len(<<v>> \o y) = 1 + Len(y) /\ (<<v>> \o y)[1] = v
      /\ \A i \in 1..Len(y) : (<<v>> \o y)[i + 1] = y[i]
  OBVIOUS
<1>6. PICK z \in Seq(V) : /\ z = <<v>> \o y /\ Len(z) = 1 + Len(y) /\ z[1] = v
                          /\ \A i \in 1..Len(y) : z[i + 1] = y[i]
  BY <1>5
<1>7. /\ Append(r, w) \in Seq(V) /\ Len(Append(r, w)) = Len(r) + 1
      /\ Append(r, w)[Len(r) + 1] = w /\ \A i \in 1..Len(r) : Append(r, w)[i] = r[i]
  OBVIOUS
<1>8. PICK u \in Seq(V) : /\ u = Append(r, w) /\ Len(u) = Len(r) + 1 /\ u[Len(r) + 1] = w
                          /\ \A i \in 1..Len(r) : u[i] = r[i]
  BY <1>7
<1>9. PICK n \in Nat : n = Len(x)
  OBVIOUS
<1>10. Len(z) = n + 2 /\ Len(u) = n + 2 /\ Len(r) = n + 1 /\ Len(y) = n + 1
  BY <1>2, <1>4, <1>6, <1>8, <1>9
<1>11. ASSUME NEW i \in 1..(n + 2) PROVE z[i] = u[i]
  <2>1. CASE i = 1
    BY <1>4, <1>6, <1>8, <1>10, <2>1
  <2>2. CASE i \in 2..(n + 1)
    <3>1. PICK k \in Nat : k = i - 1 /\ i = k + 1 /\ k \in 1..n
      BY <2>2
    <3>2. z[i] = y[k]
      BY <1>6, <1>10, <3>1
    <3>3. y[k] = x[k]
      BY <1>2, <1>9, <3>1
    <3>4. u[i] = r[i]
      BY <1>8, <1>10, <2>2
    <3>5. r[i] = x[k]
      BY <1>4, <1>9, <3>1
    <3> QED BY <3>2, <3>3, <3>4, <3>5
  <2>3. CASE i = n + 2
    <3>1. n + 1 \in 1..Len(y) /\ i = (n + 1) + 1
      BY <1>10, <2>3
    <3>2. z[i] = y[n + 1] /\ y[n + 1] = w
      BY <1>2, <1>6, <1>9, <3>1
    <3>3. u[i] = w
      BY <1>8, <1>10, <3>1
    <3> QED BY <3>2, <3>3
  <2> QED BY <2>1, <2>2, <2>3
<1>12. z = u
  BY <1>10, <1>11, SeqEqual
<1>13. r # <<>>
  BY <1>4, <1>9
<1> QED BY <1>2, <1>4, <1>6, <1>8, <1>12, <1>13 DEF Grows

(* An update goes out, and then the terminal status.                       *)
LEMMA SoundStatus ==
  ASSUME NEW q \in Seq(Message), NEW a \in Nat, NEW f, NEW d, NEW old \in Rendered,
         NEW new \in Rendered, View(old) = View(new), IsFlat(old) <=> IsFlat(new),
         Sound(q, old, a, f, d)
  PROVE  /\ Sound(Append(q, Status(new)), new, a, f, d)
         /\ PagesIn(Append(q, Status(new))) = PagesIn(q)
<1>1. PICK s \in Message : s = Status(new) /\ ~IsContent(s)
  BY StatusType
<1>2. SameLayout(s, new)
  BY <1>1 DEF SameLayout, Status
<1>3. Newer(s, q) /\ Leads(s, old, new)
  BY <1>1 DEF Newer, Leads
<1>4. Sound(Append(q, s), new, a, f, d)
  BY <1>2, <1>3, SoundAppend
<1>5. PagesIn(Append(q, s)) = PagesIn(q)
  BY <1>1, PagesAppend
<1> QED BY <1>1, <1>4, <1>5

LEMMA SoundUpdate ==
  ASSUME NEW q \in Seq(Message), NEW a \in Nat, NEW f, NEW d, NEW old \in Rendered,
         NEW new \in Rendered, IsFlat(old) <=> IsFlat(new), NEW m \in Message,
         IsContent(m), Follows(old, m), m.doc = new, m.kind = "reconcile" => IsFlat(new),
         Newer(m, q), Sound(q, old, a, f, d)
  PROVE  /\ Sound(Append(Append(q, m), Status(new)), new, a, f, d)
         /\ PagesIn(Append(Append(q, m), Status(new))) = Append(PagesIn(q), View(new))
<1>1. SameLayout(m, new) /\ Leads(m, old, new)
  BY DEF SameLayout, Leads
<1>2. Append(q, m) \in Seq(Message)
  OBVIOUS
<1>3. PICK r \in Seq(Message) : r = Append(q, m)
  BY <1>2
<1>4. Sound(r, new, a, f, d)
  BY <1>1, <1>3, SoundAppend
<1>5. PagesIn(r) = Append(PagesIn(q), View(new))
  BY <1>3, PagesAppend
<1>6. /\ Sound(Append(r, Status(new)), new, a, f, d)
      /\ PagesIn(Append(r, Status(new))) = PagesIn(r)
  BY <1>4, SoundStatus
<1> QED BY <1>3, <1>5, <1>6

LEMMA ContentAppend ==
  ASSUME NEW q \in Seq(Message), NEW m \in Message
  PROVE  HasContent(Append(q, m)) <=> HasContent(q) \/ IsContent(m)
<1>1. PICK r \in Seq(Message) : /\ r = Append(q, m) /\ Len(r) = Len(q) + 1 /\ r[Len(q) + 1] = m
                                /\ \A i \in 1..Len(q) : r[i] = q[i]
  <2>1. /\ Append(q, m) \in Seq(Message) /\ Len(Append(q, m)) = Len(q) + 1
        /\ Append(q, m)[Len(q) + 1] = m /\ \A i \in 1..Len(q) : Append(q, m)[i] = q[i]
    OBVIOUS
  <2> QED BY <2>1
<1>2. PICK n \in Nat : n = Len(q) /\ DOMAIN q = 1..n /\ DOMAIN r = 1..(n + 1)
  BY <1>1
<1>3. HasContent(r) => HasContent(q) \/ IsContent(m)
  <2> SUFFICES ASSUME NEW i \in 1..(n + 1), IsContent(r[i]) PROVE HasContent(q) \/ IsContent(m)
    BY <1>2 DEF HasContent
  <2>1. CASE i = n + 1
    BY <1>1, <1>2, <2>1
  <2>2. CASE i \in 1..n
    BY <1>1, <1>2, <2>2 DEF HasContent
  <2> QED BY <2>1, <2>2
<1>4. HasContent(q) => HasContent(r)
  BY <1>1, <1>2 DEF HasContent
<1>5. IsContent(m) => HasContent(r)
  <2>1. n + 1 \in DOMAIN r /\ r[n + 1] = m
    BY <1>1, <1>2
  <2> QED BY <2>1 DEF HasContent
<1> QED BY <1>1, <1>3, <1>4, <1>5

(* The log grows by one message: so do all queues.                         *)
LEMMA FlowsGrow ==
  ASSUME TypeInv, NEW t \in Tabs, NEW x \in Message
  PROVE  /\ Flow(sock[t], Append(log, x), cursor[t]) = Append(Queue(t), x)
         /\ Flow(<<>>, Append(log, x), cursor[t]) = Append(Unread(t), x)
<1>1. /\ sock[t] \in Seq(Message) /\ log \in Seq(Message) /\ <<>> \in Seq(Message)
      /\ cursor[t] \in 0..Len(log)
      /\ Queue(t) = Flow(sock[t], log, cursor[t]) /\ Unread(t) = Flow(<<>>, log, cursor[t])
  BY TabFacts, QueueFacts
<1>2. Flow(sock[t], Append(log, x), cursor[t]) = Append(Flow(sock[t], log, cursor[t]), x)
  BY <1>1, FlowAppend
<1>3. Flow(<<>>, Append(log, x), cursor[t]) = Append(Flow(<<>>, log, cursor[t]), x)
  <2>1. PICK e \in Seq(Message) : e = <<>>
    BY <1>1
  <2>2. Flow(e, Append(log, x), cursor[t]) = Append(Flow(e, log, cursor[t]), x)
    BY <1>1, FlowAppend
  <2> QED BY <2>1, <2>2
<1> QED BY <1>1, <1>2, <1>3

LEMMA FlowsGrowTwice ==
  ASSUME TypeInv, NEW t \in Tabs, NEW x \in Message, NEW y \in Message
  PROVE  /\ Flow(sock[t], Append(Append(log, x), y), cursor[t]) = Append(Append(Queue(t), x), y)
         /\ Flow(<<>>, Append(Append(log, x), y), cursor[t]) = Append(Append(Unread(t), x), y)
<1>1. /\ sock[t] \in Seq(Message) /\ log \in Seq(Message) /\ <<>> \in Seq(Message)
      /\ cursor[t] \in 0..Len(log)
  BY TabFacts, QueueFacts
<1>2. PICK l \in Seq(Message) : l = Append(log, x) /\ Len(l) = Len(log) + 1
  <2>1. Append(log, x) \in Seq(Message) /\ Len(Append(log, x)) = Len(log) + 1
    BY <1>1
  <2> QED BY <2>1
<1>3. cursor[t] \in 0..Len(l)
  BY <1>1, <1>2
<1>4. Flow(sock[t], Append(l, y), cursor[t]) = Append(Flow(sock[t], l, cursor[t]), y)
  BY <1>1, <1>3, FlowAppend, SMTT(30)
<1>5. Flow(<<>>, Append(l, y), cursor[t]) = Append(Flow(<<>>, l, cursor[t]), y)
  <2>1. PICK e \in Seq(Message) : e = <<>>
    BY <1>1
  <2>2. Flow(e, Append(l, y), cursor[t]) = Append(Flow(e, l, cursor[t]), y)
    BY <1>3, FlowAppend
  <2> QED BY <2>1, <2>2
<1> QED BY <1>2, <1>4, <1>5, FlowsGrow

(* The tabs stand still while the server publishes.                        *)
TabsStill == UNCHANGED <<st, dom, cursor, sock, editVars, lost>>

LEMMA StillFlows ==
  ASSUME TabsStill, NEW t \in Tabs, NEW l, log' = l
  PROVE  Queue(t)' = Flow(sock[t], l, cursor[t]) /\ Unread(t)' = Flow(<<>>, l, cursor[t])
<1>1. cursor'[t] = cursor[t] /\ sock'[t] = sock[t]
  BY DEF TabsStill
<1>2. Queue(t)' = Flow(sock[t], l, cursor[t])
  BY <1>1 DEF Queue, Unread, Flow
<1>3. Unread(t)' = SubSeq(l, cursor[t] + 1, Len(l))
  BY <1>1 DEF Unread
<1>4. Flow(<<>>, l, cursor[t]) = SubSeq(l, cursor[t] + 1, Len(l))
  BY DEF Flow
<1> QED BY <1>2, <1>3, <1>4

LEMMA StatusSound ==
  ASSUME TypeInv, NEW t \in Tabs, TabSound(t), TabsStill, NEW new \in Rendered,
         page' = new, View(page) = View(new), IsFlat(new) <=> IsFlat(page),
         log' = Append(log, Status(new))
  PROVE  TabSound(t)' /\ Line(t)' = Line(t)
<1>1. Status(new) \in Message /\ ~IsContent(Status(new))
  BY StatusType
<1>2. /\ Flow(sock[t], Append(log, Status(new)), cursor[t]) = Append(Queue(t), Status(new))
      /\ Flow(<<>>, Append(log, Status(new)), cursor[t]) = Append(Unread(t), Status(new))
  BY <1>1, FlowsGrow
<1>3. Queue(t)' = Append(Queue(t), Status(new)) /\ Unread(t)' = Append(Unread(t), Status(new))
  BY <1>2, StillFlows
<1>4. PICK q \in Seq(Message), u \in Seq(Message) : q = Queue(t) /\ u = Unread(t)
  BY QueueFacts
<1>5. /\ st'[t] = st[t] /\ dom'[t] = dom[t] /\ lost'[t] = lost[t]
      /\ page \in Rendered /\ lost[t].at \in Nat
  BY TabFacts DEF TabsStill
<1>6. /\ IsFlat(dom[t]) <=> IsFlat(page)
      /\ st[t] = "loaded" =>
           lost[t].why = "none" /\ (~HasContent(u) => View(dom[t]) = View(page))
      /\ st[t] = "live" => Sound(q, page, lost[t].at, lost[t].why = "none", dom[t])
  BY <1>4 DEF TabSound
<1>7. ASSUME st[t] = "live"
      PROVE  Sound(Append(q, Status(new)), new, lost[t].at, lost[t].why = "none", dom[t])
  BY <1>5, <1>6, <1>7, SoundStatus
<1>8. HasContent(Append(u, Status(new))) <=> HasContent(u)
  BY <1>1, ContentAppend
<1>9. TabSound(t)'
  <2>1. IsFlat(dom'[t]) <=> IsFlat(page')
    BY <1>5, <1>6
  <2>2. st'[t] = "loaded" =>
          /\ lost'[t].why = "none"
          /\ ~HasContent(Append(u, Status(new))) => View(dom'[t]) = View(page')
    BY <1>5, <1>6, <1>8
  <2>3. st'[t] = "live" =>
          Sound(Append(q, Status(new)), page', lost'[t].at, lost'[t].why = "none", dom'[t])
    BY <1>5, <1>7
  <2> QED BY <1>3, <1>4, <2>1, <2>2, <2>3, SoundNext
<1>10. Line(t)' = Line(t)
  <2>1. PagesIn(Append(q, Status(new))) = PagesIn(q)
    BY <1>1, PagesAppend
  <2> QED BY <1>3, <1>4, <1>5, <2>1, LineNow, LineNext
<1> QED BY <1>9, <1>10

LEMMA UpdateSound ==
  ASSUME TypeInv, NEW t \in Tabs, TabSound(t), TabsStill, NEW new \in Rendered,
         page' = new, IsFlat(new) <=> IsFlat(page), NEW m \in Message,
         IsContent(m), Follows(page, m), m.doc = new, m.kind = "reconcile" => IsFlat(new),
         m.at = Len(log) + 1, log' = Append(Append(log, m), Status(new))
  PROVE  TabSound(t)' /\ Line(t)' = Grows(Line(t), View(new))
<1>1. Status(new) \in Message
  BY StatusType
<1>2. /\ Flow(sock[t], Append(Append(log, m), Status(new)), cursor[t])
           = Append(Append(Queue(t), m), Status(new))
      /\ Flow(<<>>, Append(Append(log, m), Status(new)), cursor[t])
           = Append(Append(Unread(t), m), Status(new))
  BY <1>1, FlowsGrowTwice
<1>3. /\ Queue(t)' = Append(Append(Queue(t), m), Status(new))
      /\ Unread(t)' = Append(Append(Unread(t), m), Status(new))
  BY <1>2, StillFlows
<1>4. PICK q \in Seq(Message), u \in Seq(Message) : q = Queue(t) /\ u = Unread(t)
  BY QueueFacts
<1>5. /\ st'[t] = st[t] /\ dom'[t] = dom[t] /\ lost'[t] = lost[t]
      /\ page \in Rendered /\ lost[t].at \in Nat /\ Len(log) \in Nat
  BY TabFacts DEF TabsStill
<1>6. /\ IsFlat(dom[t]) <=> IsFlat(page)
      /\ st[t] = "loaded" => lost[t].why = "none"
      /\ st[t] = "live" => Sound(q, page, lost[t].at, lost[t].why = "none", dom[t])
  BY <1>4 DEF TabSound
<1>7. Newer(m, q)
  <2>1. \A i \in Updates(q) : q[i].at \in 1..Len(log)
    BY <1>4, QueueFacts
  <2> QED BY <1>5, <2>1 DEF Newer
<1>8. ASSUME st[t] = "live"
      PROVE  Sound(Append(Append(q, m), Status(new)), new, lost[t].at,
                   lost[t].why = "none", dom[t])
  BY <1>5, <1>6, <1>7, <1>8, SoundUpdate
<1>9. HasContent(Append(Append(u, m), Status(new)))
  <2>1. PICK r \in Seq(Message) : r = Append(u, m)
    <3>1. Append(u, m) \in Seq(Message)
      OBVIOUS
    <3> QED BY <3>1
  <2>2. HasContent(r)
    BY <2>1, ContentAppend
  <2> QED BY <1>1, <2>1, <2>2, ContentAppend
<1>10. TabSound(t)'
  <2>1. IsFlat(dom'[t]) <=> IsFlat(page')
    BY <1>5, <1>6
  <2>2. st'[t] = "loaded" =>
          /\ lost'[t].why = "none"
          /\ ~HasContent(Append(Append(u, m), Status(new))) => View(dom'[t]) = View(page')
    BY <1>5, <1>6, <1>9
  <2>3. st'[t] = "live" =>
          Sound(Append(Append(q, m), Status(new)), page', lost'[t].at, lost'[t].why = "none", dom'[t])
    BY <1>5, <1>8
  <2> QED BY <1>3, <1>4, <2>1, <2>2, <2>3, SoundNext
<1>11. Line(t)' = Grows(Line(t), View(new))
  <2>1. PICK x \in Seq(DocPages) : x = PagesIn(q)
    BY PagesType
  <2>2. PagesIn(Append(Append(q, m), Status(new))) = Append(x, View(new))
    <3>1. PICK r \in Seq(Message) : r = Append(q, m)
      <4>1. Append(q, m) \in Seq(Message)
        OBVIOUS
      <4> QED BY <4>1
    <3>2. PagesIn(r) = Append(x, View(new))
      BY <2>1, <3>1, PagesAppend
    <3>3. PagesIn(Append(r, Status(new))) = PagesIn(r)
      BY <1>1, StatusType, PagesAppend
    <3> QED BY <3>1, <3>2, <3>3
  <2>3. <<View(dom[t])>> \o Append(x, View(new)) = Grows(<<View(dom[t])>> \o x, View(new))
    <3> DEFINE V == DocPages \cup {View(dom[t]), View(new)}
    <3>1. DocPages \subseteq V /\ View(dom[t]) \in V /\ View(new) \in V
      OBVIOUS
    <3> HIDE DEF V
    <3>2. x \in Seq(V)
      BY <3>1, SeqWider
    <3> QED BY <3>1, <3>2, GrowLine
  <2>4. Grows(<<>>, View(new)) = <<>>
    BY DEF Grows
  <2>5. Line(t) = IF st[t] = "live" /\ lost[t].why = "none"
                  THEN <<View(dom[t])>> \o x ELSE <<>>
    BY <1>4, <2>1, LineNow
  <2>6. Line(t)' = IF st[t] = "live" /\ lost[t].why = "none"
                   THEN <<View(dom[t])>> \o Append(x, View(new)) ELSE <<>>
    BY <1>3, <1>4, <1>5, <2>2, LineNext
  <2> QED BY <2>3, <2>4, <2>5, <2>6
<1> QED BY <1>10, <1>11

-----------------------------------------------------------------------------
(* All tabs.                                                               *)

LEMMA InitSound == Init => Sounds /\ Promise!Init
<1> SUFFICES ASSUME Init PROVE Sounds /\ Promise!Init
  OBVIOUS
<1>1. ASSUME NEW t \in Tabs
      PROVE  /\ TabSound(t) /\ Line(t) = <<>>
  <2>1. /\ st[t] = "loaded" /\ dom[t] = page /\ lost[t] = InStep
    BY DEF Init
  <2>2. TabSound(t)
    BY <2>1 DEF TabSound, InStep
  <2>3. Line(t) = <<>>
    BY <2>1, LineNow
  <2> QED BY <2>2, <2>3
<1>2. Lines = [t \in Tabs |-> <<>>]
  BY <1>1 DEF Lines
<1>3. View(page) \in DocPages
  BY DEF Init, DocPages
<1> QED BY <1>1, <1>2, <1>3 DEF Sounds, Promise!Init

(* What the promise allows one tab.                                        *)
LEMMA TabStep ==
  ASSUME NEW t \in Tabs, page' = page, Lines' = [Lines EXCEPT ![t] = Line(t)'],
         Moves(Line(t), Line(t)', View(page))
  PROVE  [Promise!Next]_(Promise!vars)
<1>1. Lines \in [Tabs -> {Line(u) : u \in Tabs}] /\ Lines[t] = Line(t)
  BY DEF Lines
<1>2. Lines'[t] = Line(t)'
  BY <1>1
<1>3. View(page') = View(page)
  OBVIOUS
<1>4. CASE Line(t)' = Line(t)
  <2>1. Lines' = Lines
    BY <1>1, <1>4
  <2> QED BY <1>3, <2>1 DEF Promise!vars
<1>5. CASE Line(t)' = <<>>
  <2>1. Promise!Leave(t)
    BY <1>3, <1>5 DEF Promise!Leave
  <2> QED BY <2>1 DEF Promise!Next
<1>6. CASE Skipped(Line(t), Line(t)', View(page))
  <2>1. PICK n \in 1..Len(Lines[t]) : Line(t)' = Append(SubSeq(Lines[t], 1, n), View(page))
    BY <1>1, <1>6 DEF Skipped
  <2>2. Promise!SkipAfter(t, n)
    BY <1>3, <2>1 DEF Promise!SkipAfter
  <2> QED BY <2>2 DEF Promise!Next
<1>7. CASE Shown(Line(t), Line(t)')
  <2>1. Len(Lines[t]) > 1 /\ Line(t)' = Tail(Lines[t])
    BY <1>1, <1>7 DEF Shown
  <2>2. Promise!Show(t)
    BY <1>3, <2>1 DEF Promise!Show
  <2> QED BY <2>2 DEF Promise!Next
<1>8. CASE Joined(Line(t), Line(t)', View(page))
  <2>1. /\ Lines[t] = <<>> /\ Lines'[t] \in Seq(DocPages) /\ Lines'[t] # <<>>
        /\ Lines'[t][Len(Lines'[t])] = View(page)
    BY <1>1, <1>2, <1>8 DEF Joined
  <2>2. Promise!Join(t, Lines'[t])
    BY <1>2, <1>3, <2>1 DEF Promise!Join
  <2> QED BY <2>2 DEF Promise!Next
<1> QED BY <1>4, <1>5, <1>6, <1>7, <1>8 DEF Moves

LEMMA PublishStep ==
  ASSUME TypeInv, SteadyLayout, Sounds, NEW doc \in Docs, Publish(doc)
  PROVE  Sounds' /\ [Promise!Next]_(Promise!vars)
<1> DEFINE new == Render(doc)
           kind == Decide(page, new)
           m == Envelope(kind, page, new, Len(log) + 1)
<1>1. /\ page' = new /\ new \in Rendered /\ TabsStill
      /\ log' = Append(IF kind = "none" THEN log ELSE Append(log, m), Status(new))
      /\ kind = "none" => new.blocks = page.blocks
      /\ kind # "none" => /\ m \in Message /\ IsContent(m) /\ Follows(page, m)
                          /\ m.at = Len(log) + 1 /\ m.doc = new
                          /\ m.kind = "reconcile" => IsFlat(new)
      /\ IsFlat(new) <=> IsFlat(page)
      /\ new.blocks = page.blocks => new.chrome = page.chrome
  BY TabFacts, PublishEffect DEF TypeInv, TabsStill
<1>2. View(new) \in DocPages
  BY DEF DocPages
<1> HIDE DEF m, kind, new
<1>3. CASE kind = "none"
  <2>1. View(page) = View(new)
    BY <1>1, <1>3 DEF View
  <2>2. log' = Append(log, Status(new))
    BY <1>1, <1>3
  <2>3. ASSUME NEW t \in Tabs PROVE TabSound(t)' /\ Line(t)' = Line(t)
    <3>1. TabSound(t)
      BY DEF Sounds
    <3> QED BY <1>1, <2>1, <2>2, <3>1, StatusSound
  <2>4. Lines' = Lines
    BY <2>3 DEF Lines
  <2>5. Sounds'
    BY <2>3 DEF Sounds
  <2> QED BY <1>1, <2>1, <2>4, <2>5 DEF Promise!vars
<1>4. CASE kind # "none"
  <2>1. log' = Append(Append(log, m), Status(new))
    BY <1>1, <1>4
  <2>2. ASSUME NEW t \in Tabs PROVE TabSound(t)' /\ Line(t)' = Grows(Line(t), View(new))
    <3>1. TabSound(t)
      BY DEF Sounds
    <3> QED BY <1>1, <1>4, <2>1, <3>1, UpdateSound
  <2>3. Lines' = [t \in Tabs |-> Grows(Line(t), View(new))]
    BY <2>2 DEF Lines
  <2>4. \A t \in Tabs : Lines[t] = Line(t)
    BY DEF Lines
  <2>5. Promise!Publish(View(new))
    BY <1>1, <2>3, <2>4 DEF Promise!Publish, Grows
  <2>6. Sounds'
    BY <2>2 DEF Sounds
  <2> QED BY <1>2, <2>5, <2>6 DEF Promise!Next
<1> QED BY <1>3, <1>4

LEMMA RunningStep ==
  ASSUME TypeInv, Sounds, BroadcastRunning
  PROVE  Sounds' /\ [Promise!Next]_(Promise!vars)
<1>1. page' = page /\ log' = Append(log, Status(page)) /\ TabsStill
  BY DEF BroadcastRunning, TabsStill
<1>2. page \in Rendered
  BY DEF TypeInv, ServerTyped
<1>3. ASSUME NEW t \in Tabs PROVE TabSound(t)' /\ Line(t)' = Line(t)
  <2>1. TabSound(t)
    BY DEF Sounds
  <2> QED BY <1>1, <1>2, <2>1, StatusSound
<1>4. Lines' = Lines
  BY <1>3 DEF Lines
<1>5. Sounds'
  BY <1>3 DEF Sounds
<1> QED BY <1>1, <1>4, <1>5 DEF Promise!vars

LEMMA JoinsNow ==
  ASSUME page \in Rendered
  PROVE  Joined(<<>>, <<View(page)>>, View(page))
<1>1. View(page) \in DocPages
  BY DEF Rendered, DocPages
<1> QED BY <1>1 DEF Joined

LEMMA OneTabStep ==
  ASSUME TypeInv, Sounds, NEW t \in Tabs,
         \/ Reload(t) \/ Subscribe(t) \/ Forward(t) \/ Resync(t) \/ Apply(t)
         \/ Editing(t) \/ Network(t)
  PROVE  Sounds' /\ [Promise!Next]_(Promise!vars)
<1>1. TabSound(t) /\ VarsTyped /\ page \in Page /\ page \in Rendered /\ log \in Seq(Message)
  BY TabFacts DEF Sounds
<1>2. UNCHANGED serverVars /\ Others(t)
  <2>1. CASE Reload(t)
    BY <1>1, <2>1, ReloadEffect
  <2>2. CASE Subscribe(t)
    BY <1>1, <2>2, SubscribeEffect
  <2>3. CASE Forward(t)
    BY <1>1, <2>3, ForwardEffect
  <2>4. CASE Resync(t)
    BY <1>1, <2>4, ResyncEffect
  <2>5. CASE Apply(t)
    BY <1>1, <2>5, ApplyEffect
  <2>6. CASE Editing(t) /\ ~Reload(t)
    BY <1>1, <2>6, EditingEffect
  <2>7. CASE Network(t) /\ ~Reload(t)
    BY <1>1, <2>7, NetworkEffect
  <2> QED BY <2>1, <2>2, <2>3, <2>4, <2>5, <2>6, <2>7
<1>3. TabSound(t)' /\ Moves(Line(t), Line(t)', View(page))
  <2>1. CASE Reload(t)
    BY <2>1, ReloadSound DEF Moves
  <2>2. CASE Subscribe(t)
    <3>1. TabSound(t)' /\ Line(t) = <<>> /\ (Line(t)' = <<>> \/ Line(t)' = <<View(page)>>)
      BY <1>1, <2>2, SubscribeSound
    <3> QED BY <1>1, <3>1, JoinsNow DEF Moves
  <2>3. CASE Forward(t)
    BY <1>1, <2>3, ForwardSound DEF Moves
  <2>4. CASE Resync(t)
    BY <1>1, <2>4, ResyncSound DEF Moves
  <2>5. CASE Apply(t)
    BY <1>1, <2>5, ApplySound
  <2>6. CASE Editing(t)
    BY <1>1, <2>6, EditingSound DEF Moves
  <2>7. CASE Network(t)
    BY <1>1, <2>7, NetworkSound DEF Moves
  <2> QED BY <2>1, <2>2, <2>3, <2>4, <2>5, <2>6, <2>7
<1>4. Sounds' /\ Lines' = [Lines EXCEPT ![t] = Line(t)']
  BY <1>2, <1>3, OneTab
<1>5. page' = page
  BY <1>2 DEF serverVars
<1> QED BY <1>3, <1>4, <1>5, TabStep

LEMMA NextSound ==
  ASSUME TypeInv, SteadyLayout, Sounds, [Next]_vars
  PROVE  Sounds' /\ [Promise!Next]_(Promise!vars)
<1>1. ASSUME NEW doc \in Docs, Publish(doc) PROVE Sounds' /\ [Promise!Next]_(Promise!vars)
  BY <1>1, PublishStep
<1>2. CASE BroadcastRunning
  BY <1>2, RunningStep
<1>3. ASSUME NEW t \in Tabs,
             \/ Reload(t) \/ Subscribe(t) \/ Forward(t) \/ Resync(t) \/ Apply(t)
             \/ Editing(t) \/ Network(t)
      PROVE  Sounds' /\ [Promise!Next]_(Promise!vars)
  BY <1>3, OneTabStep
<1>4. CASE UNCHANGED vars
  <2>1. UNCHANGED serverVars /\ \A t \in Tabs : Same(t)
    BY <1>4 DEF vars, Same
  <2>2. ASSUME NEW t \in Tabs PROVE TabSound(t)' /\ Line(t)' = Line(t)
    <3>1. TabSound(t)
      BY DEF Sounds
    <3> QED BY <2>1, <3>1, SameTab
  <2>3. Lines' = Lines
    BY <2>2 DEF Lines
  <2>4. Sounds'
    BY <2>2 DEF Sounds
  <2>5. page' = page
    BY <2>1 DEF serverVars
  <2> QED BY <2>3, <2>4, <2>5 DEF Promise!vars
<1> QED BY <1>1, <1>2, <1>3, <1>4 DEF Next

(* The premise on the layout is a parameter of the model: wrappers come    *)
(* and go, and chrome changes, only with a change of the blocks.  Under    *)
(* it, and for every set of documents, tabs and channel sizes, a tab that  *)
(* connected in time, was not overtaken by the channel and refused no      *)
(* update shows the published pages in their order, or skips to the        *)
(* newest, whatever mixture of partial, reconciling and full envelopes     *)
(* carries them (server/diff.rs, server/ws.rs, server/render_loop.rs).     *)
THEOREM PagesInOrder ==
  ASSUME SteadyLayout
  PROVE  Spec => ImplementsPageView
<1>1. Init => TypeInv /\ Sounds /\ Promise!Init
  BY InitTyped, InitSound
<1>2. TypeInv /\ Sounds /\ [Next]_vars =>
        TypeInv' /\ Sounds' /\ [Promise!Next]_(Promise!vars)
  BY NextTyped, NextSound
<1> QED BY <1>1, <1>2, PTL DEF Spec, ImplementsPageView, Promise!Spec

-----------------------------------------------------------------------------
(* What is on its way to a tab leads to the published page.                *)
LEMMA LineEnds ==
  ASSUME TypeInv, Sounds, NEW t \in Tabs, Line(t) # <<>>
  PROVE  Line(t)[Len(Line(t))] = View(page)
<1>1. st[t] = "live" /\ lost[t].why = "none"
  BY LineNow
<1>2. PICK q \in Seq(Message) : q = Queue(t)
  BY QueueFacts
<1>3. Sound(q, page, lost[t].at, lost[t].why = "none", dom[t])
  BY <1>1, <1>2 DEF Sounds, TabSound
<1>4. /\ Ends(q, page) /\ PagesIn(q) \in Seq(DocPages)
      /\ Updates(q) = {} => View(dom[t]) = View(page)
  BY <1>1, <1>3, PagesType DEF Sound
<1>5. PICK s \in Seq(DocPages) : s = PagesIn(q)
  BY <1>4
<1>6. PICK v : v = View(dom[t])
  OBVIOUS
<1>7. Line(t) = <<v>> \o s
  BY <1>1, <1>2, <1>5, <1>6, LineNow
<1>8. CASE Updates(q) = {}
  <2>1. s = <<>> /\ v = View(page)
    BY <1>4, <1>5, <1>6, <1>8, PagesFew
  <2>2. <<v>> \o <<>> = <<v>> /\ Len(<<v>>) = 1 /\ <<v>>[1] = v
    OBVIOUS
  <2> QED BY <1>7, <2>1, <2>2
<1>9. CASE Updates(q) # {}
  <2>1. Len(s) > 0 /\ s[Len(s)] = View(page)
    BY <1>4, <1>5, <1>9, PagesEnd
  <2>2. Len(<<v>> \o s) = 1 + Len(s) /\ (<<v>> \o s)[1 + Len(s)] = s[Len(s)]
    <3>1. <<v>> \in Seq({v} \cup DocPages) /\ s \in Seq({v} \cup DocPages)
      OBVIOUS
    <3>2. PICK n \in Nat : n = Len(s) /\ n > 0
      BY <2>1
    <3> QED BY <3>1, <3>2
  <2> QED BY <1>7, <2>1, <2>2
<1> QED BY <1>8, <1>9

(* Whatever a following tab shows, the last page on its way to it is the   *)
(* published one, so a tab that keeps up and receives what was sent shows  *)
(* the published page (publishing in server/render_loop.rs, subscribing,   *)
(* forwarding and resynchronising in server/ws.rs).  The premise is that   *)
(* of PagesInOrder.                                                        *)
THEOREM LinesEndCurrent ==
  ASSUME SteadyLayout
  PROVE  Spec => []Promise!EndsCurrent
<1>1. Init => TypeInv /\ Sounds
  BY InitTyped, InitSound
<1>2. TypeInv /\ Sounds /\ [Next]_vars => TypeInv' /\ Sounds'
  BY NextTyped, NextSound
<1>3. TypeInv /\ Sounds => Promise!EndsCurrent
  BY LineEnds DEF Promise!EndsCurrent, Lines
<1> QED BY <1>1, <1>2, <1>3, PTL DEF Spec
=============================================================================
