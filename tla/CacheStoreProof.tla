--------------------------- MODULE CacheStoreProof ---------------------------
(***************************************************************************)
(* Proofs about CacheStore, for any number of processes, threads, program  *)
(* versions, results, calls and crashes.                                   *)
(***************************************************************************)
EXTENDS CacheStore, FiniteSetTheorems, TLAPS

\* What a process knows of the version on disk when it may write.
VersionKnown ==
  /\ version \in Nat
  /\ phase \in [Sessions -> Phases]
  /\ NewerStaysUntouched

\* The version is written once, by a process that then knows it; until then
\* nobody does.
LEMMA OpeningKeeps ==
  ASSUME VersionKnown, NEW s \in Sessions, Open(s)
  PROVE  VersionKnown'
<1> USE StoreAssumption DEF VersionKnown, NewerStaysUntouched, Phases
<1>1. CASE CreateSchema(s)
  BY <1>1 DEF CreateSchema, Opening, disk
<1>2. CASE ReadVersion(s)
  BY <1>2 DEF ReadVersion, Opening, disk
<1>3. CASE InsertVersion(s)
  BY <1>3 DEF InsertVersion, Opening, disk
<1>4. CASE StampRelease(s)
  BY <1>4 DEF StampRelease, Opening, disk
<1> QED BY <1>1, <1>2, <1>3, <1>4 DEF Open

LEMMA RestKeeps ==
  ASSUME VersionKnown, UNCHANGED <<version, phase>>
  PROVE  VersionKnown'
BY DEF VersionKnown, NewerStaysUntouched

LEMMA CallsLeaveVersion ==
  ASSUME NEW t \in Threads, PutWithMeta(t) \/ Clear(t) \/ Prune(t)
  PROVE  UNCHANGED <<version, phase>>
<1>1. CASE PutWithMeta(t)
  BY <1>1 DEF PutWithMeta, Put, PutFails, Name, NameSkipped, Calls, Naming
<1>2. CASE Clear(t)
  BY <1>2 DEF Clear, Calls
<1>3. CASE Prune(t)
  BY <1>3 DEF Prune, PruneOlderThan, ReadTotal, ListRows, DeleteRow, Evicted, EvictFails,
              Calls, Evicting
<1> QED BY <1>1, <1>2, <1>3

(* A program never writes to a store whose schema is newer than it knows,  *)
(* whoever created the file and however the openings overlap (store.rs     *)
(* Store::open).                                                           *)
THEOREM NewerNeverWritten == Spec => []NewerStaysUntouched
<1>1. Init => VersionKnown
  BY DEF Init, VersionKnown, NewerStaysUntouched, Phases
<1>2. VersionKnown /\ [Next]_vars => VersionKnown'
  <2> SUFFICES ASSUME VersionKnown, [Next]_vars PROVE VersionKnown'
    OBVIOUS
  <2>1. CASE \E s \in Sessions : Open(s)
    BY <2>1, OpeningKeeps
  <2>2. CASE \E s \in Sessions : Exit(s)
    BY <2>2 DEF Exit, disk, VersionKnown, NewerStaysUntouched, Phases
  <2>3. CASE \E t \in Threads : PutWithMeta(t) \/ Clear(t) \/ Prune(t)
    BY <2>3, CallsLeaveVersion, RestKeeps
  <2>4. CASE Tick
    BY <2>4, RestKeeps DEF Tick, disk
  <2>5. CASE UNCHANGED vars
    BY <2>5, RestKeeps DEF vars, disk
  <2> QED BY <2>1, <2>2, <2>3, <2>4, <2>5 DEF Next
<1>3. VersionKnown => NewerStaysUntouched
  BY DEF VersionKnown
<1> QED BY <1>1, <1>2, <1>3, PTL DEF Spec

\* The rows that stay keep what they hold.
Kept == \A k \in (DOMAIN rows) \cap (DOMAIN rows') : rows'[k] = rows[k]

LEMMA RestrictKeeps ==
  ASSUME NEW S, rows' = Restrict(rows, S)
  PROVE  Kept
BY DEF Kept, Restrict

LEMMA SameKeeps == ASSUME UNCHANGED rows PROVE Kept
BY DEF Kept

LEMMA OrIgnoreKeeps ==
  ASSUME NEW k, NEW row, rows' = OrIgnore(k, row)
  PROVE  Kept
BY DEF Kept, OrIgnore

LEMMA CallsKeepRows ==
  ASSUME NEW t \in Threads, PutWithMeta(t) \/ Clear(t) \/ Prune(t)
  PROVE  Kept
<1>1. CASE Put(t)
  BY <1>1, OrIgnoreKeeps, SameKeeps DEF Put
<1>2. CASE PutFails(t) \/ Name(t) \/ NameSkipped(t)
  BY <1>2, SameKeeps DEF PutFails, Name, NameSkipped, Naming
<1>3. CASE Clear(t)
  BY <1>3 DEF Clear, Kept
<1>4. CASE PruneOlderThan(t)
  BY <1>4, RestrictKeeps DEF PruneOlderThan
<1>5. CASE DeleteRow(t)
  BY <1>5, RestrictKeeps DEF DeleteRow
<1>6. CASE ReadTotal(t) \/ ListRows(t) \/ Evicted(t) \/ EvictFails(t)
  BY <1>6, SameKeeps DEF ReadTotal, ListRows, Evicted, EvictFails, Released
<1> QED BY <1>1, <1>2, <1>3, <1>4, <1>5, <1>6 DEF PutWithMeta, Prune

(* The row of a result never changes while it exists: the second of two    *)
(* writers is ignored, and every deletion leaves the other rows alone      *)
(* (store.rs put, clear, prune_older_than, prune_to_max_size).             *)
THEOREM FirstWriterStays == Spec => RowsAreFinal
<1>1. [Next]_vars => [Kept]_rows
  <2> SUFFICES ASSUME [Next]_vars PROVE Kept
    OBVIOUS
  <2>1. CASE \E s \in Sessions : Open(s) \/ Exit(s)
    BY <2>1, SameKeeps DEF Open, CreateSchema, ReadVersion, InsertVersion, StampRelease, Exit, disk
  <2>2. CASE \E t \in Threads : PutWithMeta(t) \/ Clear(t) \/ Prune(t)
    BY <2>2, CallsKeepRows
  <2>3. CASE Tick \/ UNCHANGED vars
    BY <2>3, SameKeeps DEF Tick, vars, disk
  <2> QED BY <2>1, <2>2, <2>3 DEF Next
<1>2. [Kept]_rows => [\A k \in (DOMAIN rows) \cap (DOMAIN rows') : rows'[k] = rows[k]]_rows
  BY DEF Kept
<1> QED BY <1>1, <1>2, PTL DEF Spec, RowsAreFinal

(***************************************************************************)
(* The operators of the store: sums of sizes and the order of eviction.    *)
(***************************************************************************)
\* Induction over the subsets of a finite set, in a form without an operator
\* parameter: where a counterexample exists there is a smallest one.
LEMMA SmallestSubset ==
  ASSUME NEW S, IsFiniteSet(S), NEW Bad, Bad \subseteq SUBSET S, Bad # {}
  PROVE  \E T \in Bad : \A U \in Bad : U \subseteq T => U = T
<1>1. IsWellFoundedOn(StrictSubsetOrdering(S), SUBSET S)
  BY FS_StrictSubsetOrderingWellFounded, FS_FiniteSubsetsOfFinite
<1>2. \E x \in Bad : \A y \in Bad : ~ (<<y, x>> \in StrictSubsetOrdering(S))
  BY <1>1, WFMin
<1> QED BY <1>2 DEF StrictSubsetOrdering

\* What the recursion behind Size computes for the subsets of T.
Picked(s) == CHOOSE k \in s : TRUE
Sums(g, T) ==
  g = [s \in SUBSET T |-> IF s = {} THEN 0 ELSE Bytes[Picked(s)] + g[s \ {Picked(s)}]]

LEMMA SumsAgree ==
  ASSUME NEW T, NEW U, NEW S, IsFiniteSet(S), S \subseteq T, S \subseteq U,
         NEW g, Sums(g, T), NEW h, Sums(h, U)
  PROVE  g[S] = h[S]
<1> DEFINE Bad == { s \in SUBSET S : g[s] # h[s] }
<1> SUFFICES ASSUME g[S] # h[S] PROVE FALSE
  OBVIOUS
<1>1. PICK s \in Bad : \A u \in Bad : u \subseteq s => u = s
  <2>1. Bad # {} /\ Bad \subseteq SUBSET S
    OBVIOUS
  <2> HIDE DEF Bad
  <2> QED BY <2>1, SmallestSubset
<1>2. s \in SUBSET S /\ g[s] # h[s]
  BY <1>1
<1>3. s # {}
  BY <1>2 DEF Sums
<1> DEFINE k == Picked(s)
<1>4. k \in s
  BY <1>3 DEF Picked
<1>5. g[s \ {k}] = h[s \ {k}]
  <2>1. s \ {k} \in SUBSET S /\ s \ {k} # s
    BY <1>2, <1>4
  <2> QED BY <2>1, <1>1
<1>6. g[s] = Bytes[k] + g[s \ {k}] /\ h[s] = Bytes[k] + h[s \ {k}]
  BY <1>2, <1>3 DEF Sums
<1> QED BY <1>2, <1>5, <1>6

LEMMA SumsExist ==
  ASSUME NEW S, IsFiniteSet(S)
  PROVE  \E g : Sums(g, S)
<1> DEFINE Bad == { s \in SUBSET S : ~ \E g : Sums(g, s) }
           Sel(s) == CHOOSE g : Sums(g, s)
<1> SUFFICES ASSUME ~ \E g : Sums(g, S) PROVE FALSE
  OBVIOUS
<1>1. PICK T \in Bad : \A U \in Bad : U \subseteq T => U = T
  <2>1. Bad # {} /\ Bad \subseteq SUBSET S
    OBVIOUS
  <2> HIDE DEF Bad
  <2> QED BY <2>1, SmallestSubset
<1>2. T \in SUBSET S /\ ~ \E g : Sums(g, T)
  BY <1>1
<1>3. ASSUME NEW s \in SUBSET T, s # T PROVE Sums(Sel(s), s) /\ IsFiniteSet(s)
  <2>1. s \notin Bad
    BY <1>1, <1>3
  <2>2. \E g : Sums(g, s)
    BY <2>1, <1>2, <1>3
  <2> QED BY <2>2, <1>2, <1>3, FS_Subset
<1> DEFINE k == Picked(T)
           g == [s \in SUBSET T |-> IF s # T THEN Sel(s)[s]
                                    ELSE IF T = {} THEN 0 ELSE Bytes[k] + Sel(T \ {k})[T \ {k}]]
<1>4. ASSUME NEW s \in SUBSET T
      PROVE  g[s] = IF s = {} THEN 0 ELSE Bytes[Picked(s)] + g[s \ {Picked(s)}]
  <2> HIDE DEF Sel
  <2>1. CASE s = T
    <3>1. CASE T = {}
      BY <2>1, <3>1
    <3>2. CASE T # {}
      <4>1. k \in T
        BY <3>2 DEF Picked
      <4>2. T \ {k} \in SUBSET T /\ T \ {k} # T
        BY <4>1
      <4>3. g[T \ {k}] = Sel(T \ {k})[T \ {k}]
        BY <4>2
      <4> HIDE DEF k
      <4>4. g[T] = Bytes[k] + Sel(T \ {k})[T \ {k}]
        BY <3>2
      <4> QED BY <2>1, <3>2, <4>3, <4>4 DEF k
    <3> QED BY <3>1, <3>2
  <2>2. CASE s # T
    <3>1. Sums(Sel(s), s)
      BY <1>3, <2>2
    <3>2. g[s] = Sel(s)[s]
      BY <2>2
    <3>3. CASE s = {}
      BY <3>1, <3>2, <3>3 DEF Sums
    <3>4. CASE s # {}
      <4> DEFINE j == Picked(s)
      <4>1. j \in s
        BY <3>4 DEF Picked
      <4>2. Sel(s)[s] = Bytes[j] + Sel(s)[s \ {j}]
        BY <3>1, <3>4 DEF Sums
      <4> HIDE DEF j
      <4>3. s \ {j} \in SUBSET T /\ s \ {j} # T
        BY <4>1
      <4>4. Sums(Sel(s \ {j}), s \ {j}) /\ IsFiniteSet(s \ {j})
        BY <1>3, <4>3
      <4>5. Sel(s)[s \ {j}] = Sel(s \ {j})[s \ {j}]
        BY SMTT(40), <3>1, <4>4, SumsAgree
      <4>6. g[s \ {j}] = Sel(s \ {j})[s \ {j}]
        BY <4>3
      <4> QED BY <3>2, <3>4, <4>2, <4>5, <4>6 DEF j
    <3> QED BY <3>3, <3>4
  <2> QED BY <2>1, <2>2
<1>5. Sums(g, T)
  <2> DEFINE h == [s \in SUBSET T |-> IF s = {} THEN 0
                                      ELSE Bytes[Picked(s)] + g[s \ {Picked(s)}]]
  <2>1. g = [s \in SUBSET T |-> g[s]] /\ h = [s \in SUBSET T |-> h[s]]
    OBVIOUS
  <2> HIDE DEF g
  <2>2. \A s \in SUBSET T : g[s] = h[s]
    BY <1>4
  <2> HIDE DEF h
  <2>3. g = h
    BY <2>1, <2>2
  <2> QED BY <2>3 DEF Sums, h
<1> QED BY <1>2, <1>5

LEMMA SizeSums ==
  ASSUME NEW S, IsFiniteSet(S)
  PROVE  \E g : Sums(g, S) /\ Size(S) = g[S]
<1> DEFINE g == CHOOSE f : Sums(f, S)
<1>1. Sums(g, S)
  BY SumsExist
<1>2. Size(S) = g[S]
  BY DEF Size, MapThenSumSet, MapThenFoldSet, Sums, Picked
<1> HIDE DEF g
<1> QED BY <1>1, <1>2

\* The recursion, as Size's own.
LEMMA SizeSteps ==
  ASSUME NEW S, IsFiniteSet(S)
  PROVE  /\ S = {} => Size(S) = 0
         /\ S # {} => \E k \in S : Size(S) = Bytes[k] + Size(S \ {k})
<1>1. PICK g : Sums(g, S) /\ Size(S) = g[S]
  BY SizeSums
<1>2. S = {} => Size(S) = 0
  BY <1>1 DEF Sums
<1>3. ASSUME S # {} PROVE \E k \in S : Size(S) = Bytes[k] + Size(S \ {k})
  <2> DEFINE k == Picked(S)
  <2>1. k \in S
    BY <1>3 DEF Picked
  <2>2. g[S] = Bytes[k] + g[S \ {k}]
    BY <1>1, <1>3 DEF Sums
  <2> HIDE DEF k
  <2>3. IsFiniteSet(S \ {k}) /\ S \ {k} \subseteq S
    BY FS_Subset
  <2>4. PICK h : Sums(h, S \ {k}) /\ Size(S \ {k}) = h[S \ {k}]
    BY <2>3, SizeSums
  <2>5. g[S \ {k}] = h[S \ {k}]
    <3>1. Sums(g, S)
      BY <1>1
    <3> DEFINE U == S \ {k}
    <3>2. IsFiniteSet(U) /\ U \subseteq S /\ U \subseteq U /\ Sums(h, U)
      BY <2>3, <2>4
    <3> HIDE DEF U
    <3>3. g[U] = h[U]
      BY <3>1, <3>2, SumsAgree
    <3> QED BY <3>3 DEF U
  <2> QED BY <1>1, <2>1, <2>2, <2>4, <2>5
<1> QED BY <1>2, <1>3

LEMMA SizeType ==
  ASSUME NEW S, IsFiniteSet(S), S \subseteq Keys
  PROVE  Size(S) \in Nat
<1> DEFINE Bad == { s \in SUBSET S : Size(s) \notin Nat }
<1> SUFFICES ASSUME Size(S) \notin Nat PROVE FALSE
  OBVIOUS
<1>1. PICK T \in Bad : \A U \in Bad : U \subseteq T => U = T
  <2>1. Bad # {} /\ Bad \subseteq SUBSET S
    OBVIOUS
  <2> HIDE DEF Bad
  <2> QED BY <2>1, SmallestSubset
<1>2. T \in SUBSET S /\ Size(T) \notin Nat /\ IsFiniteSet(T)
  BY <1>1, FS_Subset
<1>3. PICK k \in T : Size(T) = Bytes[k] + Size(T \ {k})
  BY <1>2, SizeSteps
<1>4. Size(T \ {k}) \in Nat
  <2>1. T \ {k} \in SUBSET S /\ T \ {k} # T
    BY <1>2, <1>3
  <2> QED BY <2>1, <1>1
<1>5. Bytes[k] \in Nat
  BY <1>2, <1>3, StoreAssumption
<1> QED BY <1>2, <1>3, <1>4, <1>5

\* The order in which the rows are added up does not matter.
LEMMA SizeWithout ==
  ASSUME NEW S, IsFiniteSet(S), S \subseteq Keys, NEW k \in S
  PROVE  Size(S) = Bytes[k] + Size(S \ {k})
<1> DEFINE Bad == { s \in SUBSET S : \E j \in s : Size(s) # Bytes[j] + Size(s \ {j}) }
<1> SUFFICES ASSUME Size(S) # Bytes[k] + Size(S \ {k}) PROVE FALSE
  OBVIOUS
<1>1. PICK T \in Bad : \A U \in Bad : U \subseteq T => U = T
  <2>1. Bad # {} /\ Bad \subseteq SUBSET S
    OBVIOUS
  <2> HIDE DEF Bad
  <2> QED BY <2>1, SmallestSubset
<1>2. T \in SUBSET S /\ IsFiniteSet(T)
  BY <1>1, FS_Subset
<1>3. PICK j \in T : Size(T) # Bytes[j] + Size(T \ {j})
  BY <1>1
<1>4. PICK i \in T : Size(T) = Bytes[i] + Size(T \ {i})
  BY <1>2, <1>3, SizeSteps
<1>5. i # j
  BY <1>3, <1>4
<1>6. ASSUME NEW x \in T, NEW y \in T \ {x}
      PROVE  Size(T \ {x}) = Bytes[y] + Size(T \ {x, y})
  <2>1. T \ {x} \notin Bad
    <3>1. T \ {x} # T
      OBVIOUS
    <3> HIDE DEF Bad
    <3> QED BY <3>1, <1>1
  <2>2. Size(T \ {x}) = Bytes[y] + Size((T \ {x}) \ {y})
    BY <2>1, <1>2
  <2>3. (T \ {x}) \ {y} = T \ {x, y}
    OBVIOUS
  <2> QED BY <2>2, <2>3
<1>7. Size(T \ {i}) = Bytes[j] + Size(T \ {i, j})
  BY <1>5, <1>6
<1>8. Size(T \ {j}) = Bytes[i] + Size(T \ {i, j})
  <2>1. T \ {j, i} = T \ {i, j}
    OBVIOUS
  <2>2. Size(T \ {j}) = Bytes[i] + Size(T \ {j, i})
    BY <1>5, <1>6
  <2> QED BY <2>1, <2>2
<1>9. Bytes[i] \in Nat /\ Bytes[j] \in Nat /\ Size(T \ {i, j}) \in Nat
  <2>1. IsFiniteSet(T \ {i, j}) /\ T \ {i, j} \subseteq Keys
    BY <1>2, FS_Subset
  <2> QED BY <1>2, <2>1, SizeType, StoreAssumption
<1> QED
  <2> DEFINE a == Bytes[i]
             b == Bytes[j]
             c == Size(T \ {i, j})
  <2>1. a \in Nat /\ b \in Nat /\ c \in Nat /\ a + (b + c) # b + (a + c)
    BY <1>3, <1>4, <1>7, <1>8, <1>9
  <2> HIDE DEF a, b, c
  <2> QED BY <2>1

\* A creation time and a key order the rows totally.
Dated(r, S) == S \subseteq Keys /\ \A k \in S : r[k].at \in Nat

LEMMA BeforeIsTotal ==
  ASSUME NEW r, NEW S, Dated(r, S), NEW i \in S, NEW j \in S, NEW k \in S
  PROVE  /\ ~Before(r, i, i)
         /\ i = j \/ Before(r, i, j) \/ Before(r, j, i)
         /\ Before(r, i, j) /\ Before(r, j, k) => Before(r, i, k)
<1>1. \A x \in S : x = <<x[1], x[2]>> /\ x[1] \in Nat /\ x[2] \in Nat /\ r[x].at \in Nat
  BY StoreAssumption DEF Dated
<1>2. ~Before(r, i, i)
  BY <1>1 DEF Before
<1>3. i = j \/ Before(r, i, j) \/ Before(r, j, i)
  BY <1>1 DEF Before
<1>4. Before(r, i, j) /\ Before(r, j, k) => Before(r, i, k)
  BY <1>1 DEF Before
<1> QED BY <1>2, <1>3, <1>4

IsNewest(r, S, m) == m \in S /\ \A j \in S \ {m} : Before(r, j, m)

LEMMA NewestExists ==
  ASSUME NEW r, NEW S, IsFiniteSet(S), Dated(r, S), S # {}
  PROVE  \E m : IsNewest(r, S, m)
<1> DEFINE Bad == { s \in SUBSET S : s # {} /\ ~ \E m : IsNewest(r, s, m) }
<1> SUFFICES ASSUME ~ \E m : IsNewest(r, S, m) PROVE FALSE
  OBVIOUS
<1>1. PICK T \in Bad : \A U \in Bad : U \subseteq T => U = T
  <2>1. Bad # {} /\ Bad \subseteq SUBSET S
    OBVIOUS
  <2> HIDE DEF Bad
  <2> QED BY <2>1, SmallestSubset
<1>2. PICK k : k \in T
  BY <1>1
<1>3. T \in SUBSET S /\ ~ \E m : IsNewest(r, T, m)
  BY <1>1
<1>4. T \ {k} # {}
  <2>1. T = {k} => IsNewest(r, T, k)
    BY DEF IsNewest
  <2> QED BY <2>1, <1>2, <1>3
<1>5. PICK m : IsNewest(r, T \ {k}, m)
  <2>1. T \ {k} \in SUBSET S /\ T \ {k} # T
    BY <1>2, <1>3
  <2>2. T \ {k} \notin Bad
    <3> HIDE DEF Bad
    <3> QED BY <2>1, <1>1
  <2> QED BY <2>1, <2>2, <1>4
<1>6. m \in S /\ k \in S /\ m \in T /\ m # k
  BY <1>2, <1>3, <1>5 DEF IsNewest
<1>7. CASE Before(r, k, m)
  <2>1. IsNewest(r, T, m)
    BY <1>5, <1>6, <1>7 DEF IsNewest
  <2> QED BY <2>1, <1>3
<1>8. CASE Before(r, m, k)
  <2>1. ASSUME NEW j \in T \ {k} PROVE Before(r, j, k)
    <3>1. j = m \/ Before(r, j, m)
      BY <1>5 DEF IsNewest
    <3>2. j \in S
      BY <1>3
    <3> QED BY <3>1, <3>2, <1>6, <1>8, BeforeIsTotal
  <2>2. IsNewest(r, T, k)
    BY <2>1, <1>2 DEF IsNewest
  <2> QED BY <2>2, <1>3
<1> QED BY <1>6, <1>7, <1>8, BeforeIsTotal

Sorted(r, s) == \A i, j \in DOMAIN s : i < j => Before(r, s[i], s[j])

LEMMA SortedExists ==
  ASSUME NEW r, NEW S, IsFiniteSet(S), Dated(r, S)
  PROVE  \E s \in Enumerations(S) : Sorted(r, s)
<1> DEFINE Bad == { T \in SUBSET S : ~ \E s \in Enumerations(T) : Sorted(r, s) }
<1> SUFFICES ASSUME ~ \E s \in Enumerations(S) : Sorted(r, s) PROVE FALSE
  OBVIOUS
<1>1. PICK T \in Bad : \A U \in Bad : U \subseteq T => U = T
  <2>1. Bad # {} /\ Bad \subseteq SUBSET S
    OBVIOUS
  <2> HIDE DEF Bad
  <2> QED BY <2>1, SmallestSubset
<1>2. T \in SUBSET S /\ IsFiniteSet(T) /\ ~ \E s \in Enumerations(T) : Sorted(r, s)
  BY <1>1, FS_Subset
<1>3. T # {}
  <2> SUFFICES ASSUME T = {} PROVE FALSE
    OBVIOUS
  <2>1. Cardinality(T) = 0
    BY FS_EmptySet
  <2> DEFINE s == [i \in 1..0 |-> i]
  <2>2. 1..0 = {}
    OBVIOUS
  <2>3. s \in Enumerations(T) /\ Sorted(r, s)
    BY <2>1, <2>2 DEF Enumerations, Sorted
  <2> QED BY <2>3, <1>2
<1>4. PICK m : IsNewest(r, T, m)
  <2>1. Dated(r, T)
    BY <1>2 DEF Dated
  <2> QED BY <2>1, <1>2, <1>3, NewestExists
<1> DEFINE U == T \ {m}
           n == Cardinality(U)
<1>5. m \in T /\ IsFiniteSet(U) /\ n \in Nat /\ Cardinality(T) = n + 1
  <2>1. m \in T
    BY <1>4 DEF IsNewest
  <2>2. IsFiniteSet(U) /\ Cardinality(U) = Cardinality(T) - 1
    BY <1>2, <2>1, FS_RemoveElement
  <2>3. Cardinality(T) \in Nat /\ Cardinality(U) \in Nat
    BY <1>2, <2>2, FS_CardinalityType
  <2> HIDE DEF U
  <2> QED BY <2>1, <2>2, <2>3
<1>6. PICK s \in Enumerations(U) : Sorted(r, s)
  <2>1. U \in SUBSET S /\ U # T
    BY <1>2, <1>5
  <2>2. U \notin Bad
    <3> HIDE DEF Bad
    <3> QED BY <2>1, <1>1
  <2> QED BY <2>1, <2>2
<1> DEFINE z == [i \in 1..(n + 1) |-> IF i = n + 1 THEN m ELSE s[i]]
<1>7. s \in [1..n -> U]
  BY <1>6 DEF Enumerations
<1> HIDE DEF n
<1>8. z \in [1..(n + 1) -> T]
  BY <1>5, <1>7
<1>9. ASSUME NEW i \in 1..(n + 1), NEW j \in 1..(n + 1), i < j
      PROVE  Before(r, z[i], z[j])
  <2>1. i \in 1..n /\ z[i] = s[i] /\ s[i] \in U
    BY <1>5, <1>7, <1>9
  <2>2. CASE j = n + 1
    BY <2>1, <2>2, <1>4 DEF IsNewest
  <2>3. CASE j # n + 1
    <3>1. j \in 1..n /\ z[j] = s[j]
      BY <1>5, <2>3
    <3> QED BY <3>1, <2>1, <1>6, <1>7, <1>9 DEF Sorted
  <2> QED BY <2>2, <2>3
<1>10. Sorted(r, z)
  <2>1. DOMAIN z = 1..(n + 1)
    OBVIOUS
  <2> HIDE DEF z
  <2> QED BY <2>1, <1>9 DEF Sorted
<1>11. z \in Enumerations(T)
  BY <1>5, <1>8 DEF Enumerations
<1> QED BY <1>2, <1>10, <1>11

\* ORDER BY lists every row once, the oldest first.
LEMMA Listing ==
  ASSUME NEW r, IsFiniteSet(DOMAIN r), Dated(r, DOMAIN r)
  PROVE  LET s == OldestFirst(r) IN
         s \in Seq(DOMAIN r) /\ ToSet(s) = DOMAIN r /\ Sorted(r, s)
<1> DEFINE S == DOMAIN r
           s == OldestFirst(r)
           n == Cardinality(S)
<1>1. s \in Enumerations(S) /\ Sorted(r, s)
  <2>1. \E e \in Enumerations(S) : Sorted(r, e)
    BY SortedExists
  <2> QED BY <2>1 DEF OldestFirst, Sorted
<1>2. n \in Nat
  BY FS_CardinalityType
<1> HIDE DEF n
<1>3. s \in [1..n -> S] /\ s \in Seq(S)
  BY <1>1, <1>2 DEF Enumerations, n
<1>4. ASSUME NEW i \in 1..n, NEW j \in 1..n, s[i] = s[j] PROVE i = j
  <2>1. s[i] \in S /\ s[j] \in S
    BY <1>3
  <2>2. ~Before(r, s[i], s[i])
    BY <2>1, BeforeIsTotal
  <2>3. i < j => Before(r, s[i], s[j])
    BY <1>1, <1>3 DEF Sorted
  <2>4. j < i => Before(r, s[j], s[i])
    BY <1>1, <1>3 DEF Sorted
  <2> QED BY <2>2, <2>3, <2>4, <1>4, <1>2
<1>5. ToSet(s) \subseteq S
  BY <1>3 DEF ToSet
<1>6. s \in Bijection(1..n, ToSet(s))
  <2>1. DOMAIN s = 1..n
    BY <1>3
  <2>2. s \in [1..n -> ToSet(s)]
    BY <1>3, <2>1 DEF ToSet
  <2>3. IsInjective(s)
    BY <1>4, <2>1 DEF IsInjective
  <2>4. \A e \in ToSet(s) : \E i \in 1..n : s[i] = e
    BY <2>1 DEF ToSet
  <2> QED BY <2>2, <2>3, <2>4 DEF Bijection, Injection, Surjection
<1>7. Cardinality(ToSet(s)) = n
  <2>1. ExistsBijection(1..n, ToSet(s))
    BY <1>6 DEF ExistsBijection
  <2> QED BY <2>1, <1>2, FS_CountingElements
<1>8. ToSet(s) = S
  <2> HIDE DEF s
  <2> QED BY <1>5, <1>7, FS_Subset DEF n
<1> QED BY <1>1, <1>3, <1>8

(***************************************************************************)
(* The inductive invariant.                                                *)
(***************************************************************************)
Tables == UNION { [D -> RowType] : D \in SUBSET Keys }
NameCalls == [op : {"name"}, key : Keys, stored : BOOLEAN]
EvictCalls ==
  [op : {"evict"}, cap : Caps, total : Nat, listed : BOOLEAN, todo : Seq(Keys),
   seen : Tables, last : Keys \cup {<<>>}, steady : BOOLEAN]
CallType == {NoCall} \cup NameCalls \cup EvictCalls

Scalars ==
  /\ version \in {0} \cup Range(Schema)
  /\ named \subseteq names /\ names \subseteq { Entry(k) : k \in Keys }
  /\ clock \in 0..MaxClock /\ crashes \in 0..MaxCrashes /\ calls \in 0..MaxCalls
  /\ phase \in [Sessions -> Phases]

\* A row is numbered by the call that stored it.
RowsNumbered ==
  /\ rows \in Tables /\ IsFiniteSet(DOMAIN rows)
  /\ \A k \in DOMAIN rows : rows[k].nth < calls

CallsHold ==
  /\ lock \in [Sessions -> SUBSET Threads]
  /\ call \in [Threads -> CallType]
  /\ \A t \in Threads :
       /\ call[t].op = "evict" <=> lock[Home[t]] = {t}
       /\ call[t] # NoCall => phase[Home[t]] = "open"

\* An eviction that nobody disturbed, once it has its list, in a store with
\* rows r after n calls: what is left of the list is what is left of the
\* rows it saw, the rows it deleted were older, it knows the size of what is
\* left, and without its last deletion that would not fit.
Exact(c, r, n) ==
  /\ IsFiniteSet(DOMAIN c.seen) /\ \A k \in DOMAIN c.seen : c.seen[k].nth < n
  /\ \A k \in ToSet(c.todo) : k \in DOMAIN r /\ r[k] = c.seen[k]
  /\ \A k \in (DOMAIN c.seen) \ ToSet(c.todo) :
       /\ ~ (k \in DOMAIN r /\ r[k] = c.seen[k])
       /\ \A j \in ToSet(c.todo) : Before(c.seen, k, j)
  /\ Sorted(c.seen, c.todo)
  /\ c.total = Size(ToSet(c.todo))
  /\ \/ c.last = <<>> /\ c.total > c.cap
     \/ c.last \in Keys /\ c.total + Bytes[c.last] > c.cap

EvictFits(c, r, n) ==
  /\ ToSet(c.todo) \subseteq DOMAIN c.seen
  /\ ~c.listed => c.todo = <<>> /\ c.last = <<>>
  /\ c.steady => IF c.listed THEN Exact(c, r, n)
                 ELSE c.total = Size(DOMAIN r) /\ c.total > c.cap

EvictionsFit ==
  \A t \in Threads : call[t].op = "evict" => EvictFits(call[t], rows, calls)

IInv == Scalars /\ RowsNumbered /\ CallsHold /\ EvictionsFit

\* What the list loses with its head.
LEMMA SortedTail ==
  ASSUME NEW r, NEW s \in Seq(Keys), s # <<>>, Sorted(r, s), Dated(r, ToSet(s))
  PROVE  /\ Head(s) \in ToSet(s) /\ Tail(s) \in Seq(Keys)
         /\ ToSet(Tail(s)) = ToSet(s) \ {Head(s)}
         /\ Sorted(r, Tail(s))
         /\ \A j \in ToSet(Tail(s)) : Before(r, Head(s), j)
<1> DEFINE n == Len(s)
           z == Tail(s)
<1>1. n \in Nat /\ n > 0 /\ DOMAIN s = 1..n /\ s \in [1..n -> Keys] /\ Head(s) = s[1]
  OBVIOUS
<1>2. z \in Seq(Keys) /\ DOMAIN z = 1..(n - 1) /\ \A i \in 1..(n - 1) : z[i] = s[i + 1]
  OBVIOUS
<1> HIDE DEF n, z
<1>3. s[1] \in ToSet(s)
  BY <1>1 DEF ToSet
<1>4. ASSUME NEW i \in 1..(n - 1) PROVE z[i] \in ToSet(s) /\ Before(r, s[1], z[i])
  <2>1. i + 1 \in 1..n /\ 1 \in 1..n /\ 1 < i + 1
    BY <1>1
  <2> QED BY <2>1, <1>1, <1>2 DEF Sorted, ToSet
<1>5. ASSUME NEW i \in 1..(n - 1) PROVE z[i] # s[1]
  BY <1>3, <1>4, BeforeIsTotal
<1>6. ToSet(z) \subseteq ToSet(s) \ {s[1]}
  BY <1>2, <1>4, <1>5 DEF ToSet
<1>7. ASSUME NEW k \in ToSet(s), k # s[1] PROVE k \in ToSet(z)
  <2>1. PICK i \in 1..n : k = s[i]
    BY <1>1 DEF ToSet
  <2>2. i # 1
    BY <2>1, <1>7
  <2>3. i - 1 \in 1..(n - 1) /\ (i - 1) + 1 = i
    BY <1>1, <2>2
  <2>4. z[i - 1] = k
    BY <1>2, <2>1, <2>3
  <2> QED BY <1>2, <2>3, <2>4 DEF ToSet
<1>8. Sorted(r, z)
  <2> SUFFICES ASSUME NEW i \in 1..(n - 1), NEW j \in 1..(n - 1), i < j
               PROVE  Before(r, z[i], z[j])
    BY <1>2 DEF Sorted
  <2>1. i + 1 \in 1..n /\ j + 1 \in 1..n /\ i + 1 < j + 1
    BY <1>1
  <2>2. Before(r, s[i + 1], s[j + 1])
    BY <2>1, <1>1 DEF Sorted
  <2> QED BY <2>2, <1>2
<1>9. \A j \in ToSet(z) : Before(r, s[1], j)
  BY <1>2, <1>4 DEF ToSet
<1> QED BY <1>1, <1>2, <1>3, <1>6, <1>7, <1>8, <1>9 DEF z

(***************************************************************************)
(* What becomes of an eviction under way.                                  *)
(***************************************************************************)
\* Nothing, where the rows stay.
LEMMA FitsOnSameRows ==
  ASSUME NEW c \in EvictCalls, NEW r, NEW n \in Nat, NEW m \in Nat, n <= m,
         c.seen \in Tables, EvictFits(c, r, n)
  PROVE  EvictFits(c, r, m)
<1>1. \A k \in DOMAIN c.seen : c.seen[k].nth \in Int
  BY StoreAssumption DEF Tables, RowType
<1>2. (\A k \in DOMAIN c.seen : c.seen[k].nth < n) => \A k \in DOMAIN c.seen : c.seen[k].nth < m
  BY <1>1
<1> QED BY <1>2 DEF EvictFits, Exact

\* Nothing, where a result is stored after it has its list: if it has seen a
\* row of that key, it is the row of another call.
LEMMA FitsWithNewRow ==
  ASSUME NEW c \in EvictCalls, NEW n \in Nat, c.listed, c.seen \in Tables,
         NEW k \in Keys, k \notin DOMAIN rows, NEW row, row.nth = n,
         EvictFits(c, rows, n)
  PROVE  EvictFits(c, OrIgnore(k, row), n + 1)
<1> DEFINE r2 == OrIgnore(k, row)
<1>1. DOMAIN r2 = (DOMAIN rows) \cup {k} /\ r2[k] = row /\ \A j \in DOMAIN rows : r2[j] = rows[j]
  BY DEF OrIgnore
<1> HIDE DEF r2
<1>2. \A j \in DOMAIN c.seen : c.seen[j].nth \in Int
  BY StoreAssumption DEF Tables, RowType
<1>3. ASSUME Exact(c, rows, n) PROVE Exact(c, r2, n + 1)
  <2>1. \A j \in DOMAIN c.seen : c.seen[j].nth < n + 1 /\ c.seen[j].nth # n
    BY <1>2, <1>3 DEF Exact
  <2>2. \A j \in ToSet(c.todo) : j \in DOMAIN r2 /\ r2[j] = c.seen[j]
    BY <1>1, <1>3 DEF Exact
  <2>3. \A j \in (DOMAIN c.seen) \ ToSet(c.todo) : ~ (j \in DOMAIN r2 /\ r2[j] = c.seen[j])
    BY <1>1, <1>3, <2>1 DEF Exact
  <2> QED BY <1>3, <2>1, <2>2, <2>3 DEF Exact
<1> QED BY <1>3 DEF EvictFits, r2

LEMMA FitsDisturbed ==
  ASSUME NEW c \in EvictCalls, NEW r, NEW n, NEW r2, NEW n2, EvictFits(c, r, n)
  PROVE  EvictFits([c EXCEPT !.steady = FALSE], r2, n2)
BY DEF EvictFits, EvictCalls

\* Disturb changes nothing else of a call.
LEMMA Disturbed ==
  ASSUME call \in [Threads -> CallType], NEW E, E \subseteq { u \in Threads : call[u].op = "evict" }
  PROVE  /\ Disturb(E) \in [Threads -> CallType]
         /\ \A u \in Threads :
              /\ Disturb(E)[u].op = call[u].op
              /\ Disturb(E)[u] = NoCall <=> call[u] = NoCall
              /\ u \notin E => Disturb(E)[u] = call[u]
              /\ u \in E => Disturb(E)[u] = [call[u] EXCEPT !.steady = FALSE]
<1> DEFINE d == Disturb(E)
<1>1. d = [u \in Threads |-> IF u \in E THEN [call[u] EXCEPT !.steady = FALSE] ELSE call[u]]
  BY DEF Disturb
<1> HIDE DEF d
<1>2. ASSUME NEW u \in Threads
      PROVE  /\ d[u] \in CallType /\ d[u].op = call[u].op
             /\ d[u] = NoCall <=> call[u] = NoCall
  <2>1. CASE u \in E
    <3>1. call[u].op = "evict"
      BY <2>1
    <3>2. call[u] \in EvictCalls
      BY <3>1 DEF CallType, NoCall, NameCalls
    <3>3. d[u] = [call[u] EXCEPT !.steady = FALSE]
      BY <1>1, <2>1
    <3>4. d[u] \in EvictCalls /\ d[u].op = "evict"
      BY <3>2, <3>3 DEF EvictCalls
    <3> QED BY <3>1, <3>4 DEF CallType, NoCall
  <2>2. CASE u \notin E
    BY <1>1, <2>2
  <2> QED BY <2>1, <2>2
<1>3. d \in [Threads -> CallType]
  BY <1>1, <1>2
<1> QED BY <1>1, <1>2, <1>3 DEF d

LEMMA Evicts ==
  ASSUME call \in [Threads -> CallType], NEW t \in Threads, call[t].op = "evict"
  PROVE  call[t] \in EvictCalls
BY DEF CallType, NoCall, NameCalls

(***************************************************************************)
(* The steps keep the invariant, part by part.                             *)
(***************************************************************************)
LEMMA ScalarsKept == ASSUME IInv, [Next]_vars PROVE Scalars'
<1> USE StoreAssumption DEF IInv, Scalars
<1>1. ASSUME NEW s \in Sessions, Open(s) PROVE Scalars'
  <2>1. Schema[s] \in Range(Schema)
    BY DEF Range
  <2>2. phase' \in [Sessions -> Phases]
    BY <1>1 DEF Open, CreateSchema, ReadVersion, InsertVersion, StampRelease, Opening, Phases
  <2>3. version' \in {version, Schema[s]}
    BY <1>1 DEF Open, CreateSchema, ReadVersion, InsertVersion, StampRelease, Opening, disk
  <2>4. UNCHANGED <<named, names, clock, crashes, calls>>
    BY <1>1 DEF Open, CreateSchema, ReadVersion, InsertVersion, StampRelease, Opening, disk
  <2> QED BY <2>1, <2>2, <2>3, <2>4
<1>2. ASSUME NEW s \in Sessions, Exit(s) PROVE Scalars'
  BY <1>2 DEF Exit, disk, Phases
<1>3. ASSUME NEW t \in Threads, PutWithMeta(t) PROVE Scalars'
  <2>1. CASE Put(t) \/ PutFails(t)
    BY <2>1 DEF Put, PutFails, Calls
  <2>2. CASE Name(t)
    <3>1. call[t] \in NameCalls
      BY <2>2 DEF Name, Naming, CallsHold, CallType, NoCall, EvictCalls
    <3>2. Entry(call[t].key) \in { Entry(k) : k \in Keys }
      BY <3>1 DEF NameCalls
    <3> QED BY <2>2, <3>2 DEF Name, Naming
  <2>3. CASE NameSkipped(t)
    BY <2>3 DEF NameSkipped, Naming
  <2> QED BY <1>3, <2>1, <2>2, <2>3 DEF PutWithMeta
<1>4. ASSUME NEW t \in Threads, Clear(t) \/ PruneOlderThan(t) \/ ReadTotal(t) PROVE Scalars'
  BY <1>4 DEF Clear, PruneOlderThan, ReadTotal, Calls
<1>5. ASSUME NEW t \in Threads, ListRows(t) \/ DeleteRow(t) \/ Evicted(t) \/ EvictFails(t)
      PROVE  Scalars'
  BY <1>5 DEF ListRows, DeleteRow, Evicted, EvictFails, Evicting
<1>6. CASE Tick
  BY <1>6 DEF Tick, disk
<1>7. CASE UNCHANGED vars
  BY <1>7 DEF vars, disk
<1> QED BY <1>1, <1>2, <1>3, <1>4, <1>5, <1>6, <1>7 DEF Next, Prune

LEMMA RestrictIsTable ==
  ASSUME RowsNumbered, NEW S, S \subseteq DOMAIN rows
  PROVE  /\ Restrict(rows, S) \in Tables /\ IsFiniteSet(DOMAIN Restrict(rows, S))
         /\ \A k \in DOMAIN Restrict(rows, S) : Restrict(rows, S)[k].nth < calls
<1>1. PICK D \in SUBSET Keys : rows \in [D -> RowType]
  BY DEF RowsNumbered, Tables
<1>2. Restrict(rows, S) \in [S -> RowType]
  BY <1>1 DEF Restrict
<1>3. IsFiniteSet(S)
  BY FS_Subset DEF RowsNumbered
<1> QED BY <1>1, <1>2, <1>3 DEF Tables, RowsNumbered, Restrict

LEMMA EmptyIsTable == <<>> \in Tables /\ IsFiniteSet(DOMAIN <<>>) /\ DOMAIN <<>> = {}
<1>1. DOMAIN <<>> = {}
  OBVIOUS
<1>2. <<>> \in [{} -> RowType]
  OBVIOUS
<1> QED BY <1>1, <1>2, FS_EmptySet DEF Tables

LEMMA RowsLater ==
  ASSUME RowsNumbered, UNCHANGED rows, calls \in Nat, calls' \in {calls, calls + 1}
  PROVE  RowsNumbered'
<1>1. \A k \in DOMAIN rows : rows[k].nth \in Int
  BY StoreAssumption DEF RowsNumbered, Tables, RowType
<1> QED BY <1>1 DEF RowsNumbered

LEMMA RowsKept == ASSUME IInv, [Next]_vars PROVE RowsNumbered'
<1>1. calls \in Nat
  BY StoreAssumption DEF IInv, Scalars
<1>2. RowsNumbered
  BY DEF IInv
<1>3. ASSUME UNCHANGED rows, calls' \in {calls, calls + 1} PROVE RowsNumbered'
  BY <1>1, <1>2, <1>3, RowsLater
<1>4. ASSUME NEW S, rows' = Restrict(rows, S), S \subseteq DOMAIN rows,
             calls' \in {calls, calls + 1}
      PROVE  RowsNumbered'
  <2>1. /\ rows' \in Tables /\ IsFiniteSet(DOMAIN rows')
        /\ \A k \in DOMAIN rows' : rows'[k].nth < calls
    BY <1>2, <1>4, RestrictIsTable
  <2>2. \A k \in DOMAIN rows' : rows'[k].nth \in Int
    BY <2>1, StoreAssumption DEF Tables, RowType
  <2> QED BY <1>1, <1>4, <2>1, <2>2 DEF RowsNumbered
<1>5. CASE \E s \in Sessions : Open(s) \/ Exit(s)
  BY <1>5, <1>3 DEF Open, CreateSchema, ReadVersion, InsertVersion, StampRelease, Opening,
                    Exit, disk
<1>6. ASSUME NEW t \in Threads, Put(t) PROVE RowsNumbered'
  <2>1. PICK k \in Keys : rows' \in {OrIgnore(k, Row(t)), rows} /\ Calls(t)
    BY <1>6 DEF Put
  <2>2. calls' = calls + 1 /\ calls < MaxCalls
    BY <2>1 DEF Calls
  <2>3. CASE rows' = rows
    BY <1>3, <2>2, <2>3
  <2>4. CASE rows' = OrIgnore(k, Row(t))
    <3>1. PICK D \in SUBSET Keys : rows \in [D -> RowType]
      BY <1>2 DEF RowsNumbered, Tables
    <3>2. Row(t) \in RowType /\ Row(t).nth = calls
      BY <2>2, <1>1, StoreAssumption DEF Row, RowType, IInv, Scalars
    <3>3. rows' \in [D \cup {k} -> RowType]
      BY <2>4, <3>1, <3>2 DEF OrIgnore
    <3>4. IsFiniteSet(D \cup {k})
      BY <1>2, <3>1, FS_AddElement DEF RowsNumbered
    <3>5. \A j \in D : rows[j].nth \in Int /\ rows[j].nth < calls
      BY <1>2, <3>1, StoreAssumption DEF RowsNumbered, RowType
    <3>6. \A j \in D \cup {k} : rows'[j] = IF j \in D THEN rows[j] ELSE Row(t)
      BY <2>4, <3>1 DEF OrIgnore
    <3>7. \A j \in D \cup {k} : rows'[j].nth < calls'
      BY <1>1, <2>2, <3>2, <3>5, <3>6
    <3> QED BY <3>3, <3>4, <3>7 DEF RowsNumbered, Tables
  <2> QED BY <2>1, <2>3, <2>4
<1>7. ASSUME NEW t \in Threads, PutFails(t) \/ ReadTotal(t) PROVE RowsNumbered'
  BY <1>3, <1>7 DEF PutFails, ReadTotal, Calls
<1>8. ASSUME NEW t \in Threads,
             Name(t) \/ NameSkipped(t) \/ ListRows(t) \/ Evicted(t) \/ EvictFails(t)
      PROVE  RowsNumbered'
  BY <1>3, <1>8 DEF Name, NameSkipped, Naming, ListRows, Evicted, EvictFails, Evicting, Released
<1>9. ASSUME NEW t \in Threads, Clear(t) PROVE RowsNumbered'
  BY <1>9, EmptyIsTable DEF Clear, RowsNumbered
<1>10. ASSUME NEW t \in Threads, PruneOlderThan(t) PROVE RowsNumbered'
  <2>1. PICK age \in Ages : Calls(t) /\ rows' = Restrict(rows, Recent(age))
    BY <1>10 DEF PruneOlderThan
  <2>2. Recent(age) \subseteq DOMAIN rows
    BY DEF Recent
  <2> QED BY <2>1, <2>2, <1>4 DEF Calls
<1>11. ASSUME NEW t \in Threads, DeleteRow(t) PROVE RowsNumbered'
  <2>1. rows' = Restrict(rows, DOMAIN rows \ {Head(call[t].todo)}) /\ calls' = calls
    BY <1>11 DEF DeleteRow, Evicting
  <2> QED BY <2>1, <1>4
<1>12. CASE Tick \/ UNCHANGED vars
  BY <1>3, <1>12 DEF Tick, vars, disk
<1> QED BY <1>5, <1>6, <1>7, <1>8, <1>9, <1>10, <1>11, <1>12 DEF Next, Prune, PutWithMeta

LEMMA TableIsDated ==
  ASSUME NEW r \in Tables, NEW S, S \subseteq DOMAIN r
  PROVE  Dated(r, S)
BY StoreAssumption DEF Tables, RowType, Dated

\* One thread gets another call, others are at most disturbed.
LEMMA CallReplaced ==
  ASSUME CallsHold, NEW t \in Threads, NEW d \in [Threads -> CallType],
         \A u \in Threads : d[u].op = call[u].op /\ (d[u] = NoCall <=> call[u] = NoCall),
         NEW c \in CallType, call' = [d EXCEPT ![t] = c],
         (c.op = "evict" <=> call[t].op = "evict"), phase[Home[t]] = "open",
         UNCHANGED <<lock, phase>>
  PROVE  CallsHold'
<1>1. call' \in [Threads -> CallType]
  OBVIOUS
<1>2. ASSUME NEW u \in Threads
      PROVE  /\ call'[u].op = "evict" <=> lock'[Home[u]] = {u}
             /\ call'[u] # NoCall => phase'[Home[u]] = "open"
  BY DEF CallsHold
<1> QED BY <1>1, <1>2 DEF CallsHold

\* The mutex is taken or given back with the call.
LEMMA CallLocked ==
  ASSUME CallsHold, NEW t \in Threads, NEW c \in CallType, call' = [call EXCEPT ![t] = c],
         NEW L \in SUBSET {t}, lock' = [lock EXCEPT ![Home[t]] = L],
         lock[Home[t]] \subseteq {t}, c.op = "evict" <=> L = {t},
         phase[Home[t]] = "open", UNCHANGED phase
  PROVE  CallsHold'
<1>1. Home[t] \in Sessions
  BY StoreAssumption
<1>2. call' \in [Threads -> CallType] /\ lock' \in [Sessions -> SUBSET Threads]
  BY <1>1 DEF CallsHold
<1>3. ASSUME NEW u \in Threads
      PROVE  /\ call'[u].op = "evict" <=> lock'[Home[u]] = {u}
             /\ call'[u] # NoCall => phase'[Home[u]] = "open"
  <2>1. CASE u = t
    BY <2>1, <1>1 DEF CallsHold
  <2>2. CASE u # t /\ Home[u] = Home[t]
    <3>1. lock[Home[t]] # {u} /\ lock'[Home[u]] # {u}
      BY <2>2, <1>1 DEF CallsHold
    <3>2. call'[u] = call[u]
      BY <2>2 DEF CallsHold
    <3> QED BY <3>1, <3>2, <2>2 DEF CallsHold
  <2>3. CASE Home[u] # Home[t]
    <3>1. lock'[Home[u]] = lock[Home[u]] /\ call'[u] = call[u]
      BY <2>3, StoreAssumption DEF CallsHold
    <3> QED BY <3>1 DEF CallsHold
  <2> QED BY <2>1, <2>2, <2>3
<1> QED BY <1>2, <1>3 DEF CallsHold

LEMMA OpeningHoldsCalls ==
  ASSUME CallsHold, NEW s \in Sessions, NEW from, NEW to, Opening(s, from, to), from # "open",
         phase \in [Sessions -> Phases]
  PROVE  CallsHold'
<1>1. \A t \in Threads : call[t] # NoCall => Home[t] # s
  BY DEF Opening, CallsHold
<1> QED BY <1>1, StoreAssumption DEF Opening, CallsHold

\* What the steps of an eviction make of its call.
LEMMA StartedType ==
  ASSUME IInv, NEW cap \in Caps
  PROVE  [op |-> "evict", cap |-> cap, total |-> Size(DOMAIN rows), listed |-> FALSE,
          todo |-> <<>>, seen |-> <<>>, last |-> <<>>, steady |-> TRUE] \in EvictCalls
<1>1. Size(DOMAIN rows) \in Nat
  <2>1. DOMAIN rows \subseteq Keys
    BY DEF IInv, RowsNumbered, Tables
  <2> QED BY <2>1, SizeType DEF IInv, RowsNumbered
<1>2. <<>> \in Seq(Keys) /\ <<>> \in Keys \cup {<<>>}
  OBVIOUS
<1> QED BY <1>1, <1>2, EmptyIsTable DEF EvictCalls

LEMMA ListedType ==
  ASSUME IInv, NEW c \in EvictCalls
  PROVE  /\ OldestFirst(rows) \in Seq(Keys)
         /\ [c EXCEPT !.listed = TRUE, !.todo = OldestFirst(rows), !.seen = rows] \in EvictCalls
<1>1. rows \in Tables /\ IsFiniteSet(DOMAIN rows) /\ DOMAIN rows \subseteq Keys
  BY DEF IInv, RowsNumbered, Tables
<1>2. OldestFirst(rows) \in Seq(DOMAIN rows)
  BY <1>1, TableIsDated, Listing
<1>3. OldestFirst(rows) \in Seq(Keys)
  BY <1>1, <1>2
<1> QED BY <1>1, <1>3 DEF EvictCalls

Shrunk(c) == IF c.total < Bytes[Head(c.todo)] THEN 0 ELSE c.total - Bytes[Head(c.todo)]
Shortened(c) ==
  [c EXCEPT !.todo = Tail(@), !.total = Shrunk(c), !.last = Head(c.todo)]

LEMMA ShortenedType ==
  ASSUME NEW c \in EvictCalls, c.todo # <<>>
  PROVE  Shortened(c) \in EvictCalls /\ Head(c.todo) \in Keys
<1>1. c.todo \in Seq(Keys) /\ c.total \in Nat
  BY DEF EvictCalls
<1>2. Head(c.todo) \in Keys /\ Tail(c.todo) \in Seq(Keys)
  BY <1>1
<1>3. Bytes[Head(c.todo)] \in Nat
  BY <1>2, StoreAssumption
<1>4. Shrunk(c) \in Nat
  BY <1>1, <1>3 DEF Shrunk
<1> QED BY <1>2, <1>4 DEF EvictCalls, Shortened

LEMMA CallsKept == ASSUME IInv, [Next]_vars PROVE CallsHold'
<1>1. CallsHold /\ call \in [Threads -> CallType] /\ phase \in [Sessions -> Phases]
  BY DEF IInv, CallsHold, Scalars
<1> DEFINE Quiet(d) ==
             /\ d \in [Threads -> CallType]
             /\ \A u \in Threads : d[u].op = call[u].op /\ (d[u] = NoCall <=> call[u] = NoCall)
<1>2. Quiet(call)
  BY <1>1
<1>3. ASSUME NEW t \in Threads PROVE Quiet(Added(t)) /\ Quiet(Deleted(t))
  <2>1. /\ Evictors(t) \subseteq { u \in Threads : call[u].op = "evict" }
        /\ { u \in Evictors(t) : ~call[u].listed }
             \subseteq { u \in Threads : call[u].op = "evict" }
    BY DEF Evictors
  <2> QED BY <2>1, <1>1, Disturbed DEF Added, Deleted
<1>4. ASSUME NEW d, Quiet(d), call' = d, UNCHANGED <<lock, phase>> PROVE CallsHold'
  BY <1>1, <1>4 DEF CallsHold
<1> HIDE DEF Quiet
<1>5. ASSUME NEW s \in Sessions, Open(s) PROVE CallsHold'
  <2>1. CASE CreateSchema(s)
    BY <1>1, <2>1, OpeningHoldsCalls DEF CreateSchema
  <2>2. CASE ReadVersion(s)
    BY <1>1, <2>2, OpeningHoldsCalls DEF ReadVersion
  <2>3. CASE InsertVersion(s)
    BY <1>1, <2>3, OpeningHoldsCalls DEF InsertVersion
  <2>4. CASE StampRelease(s)
    BY <1>1, <2>4, OpeningHoldsCalls DEF StampRelease
  <2> QED BY <1>5, <2>1, <2>2, <2>3, <2>4 DEF Open
<1>6. ASSUME NEW s \in Sessions, Exit(s) PROVE CallsHold'
  <2>1. /\ lock' = [lock EXCEPT ![s] = {}] /\ phase' = [phase EXCEPT ![s] = "closed"]
        /\ call' = [t \in Threads |-> IF Home[t] = s THEN NoCall ELSE call[t]]
    BY <1>6 DEF Exit
  <2>2. NoCall \in CallType /\ NoCall.op # "evict"
    BY DEF CallType, NoCall
  <2>3. call' \in [Threads -> CallType] /\ lock' \in [Sessions -> SUBSET Threads]
    BY <1>1, <2>1, <2>2 DEF CallsHold
  <2>4. ASSUME NEW t \in Threads
        PROVE  /\ call'[t].op = "evict" <=> lock'[Home[t]] = {t}
               /\ call'[t] # NoCall => phase'[Home[t]] = "open"
    BY <1>1, <2>1, <2>2, StoreAssumption DEF CallsHold
  <2> QED BY <2>3, <2>4 DEF CallsHold
<1>7. ASSUME NEW t \in Threads, Put(t) PROVE CallsHold'
  <2>1. PICK k \in Keys :
          /\ Calls(t) /\ UNCHANGED lock
          /\ call' = [(IF rows' = rows THEN call ELSE Added(t)) EXCEPT ![t] =
                        [op |-> "name", key |-> k, stored |-> k \in DOMAIN rows']]
    BY <1>7 DEF Put
  <2> DEFINE d == IF rows' = rows THEN call ELSE Added(t)
             c == [op |-> "name", key |-> k, stored |-> k \in DOMAIN rows']
  <2>2. Quiet(d)
    BY <1>2, <1>3
  <2>3. c \in CallType /\ c.op # "evict"
    BY DEF CallType, NameCalls
  <2>4. call[t].op # "evict" /\ phase[Home[t]] = "open" /\ UNCHANGED phase
    BY <2>1 DEF Calls, NoCall
  <2>5. call' = [d EXCEPT ![t] = c]
    BY <2>1
  <2> HIDE DEF d, c
  <2> QED BY <1>1, <2>1, <2>2, <2>3, <2>4, <2>5, CallReplaced DEF Quiet
<1>8. ASSUME NEW t \in Threads, PutFails(t) PROVE CallsHold'
  BY <1>2, <1>4, <1>8 DEF PutFails, Calls
<1>9. ASSUME NEW t \in Threads, Name(t) \/ NameSkipped(t) PROVE CallsHold'
  <2>1. /\ call[t].op = "name" /\ call' = [call EXCEPT ![t] = NoCall] /\ UNCHANGED <<lock, phase>>
    BY <1>9 DEF Name, NameSkipped, Naming
  <2>2. NoCall \in CallType /\ NoCall.op # "evict" /\ call[t] # NoCall
    BY <2>1 DEF CallType, NoCall
  <2>3. phase[Home[t]] = "open"
    BY <1>1, <2>2 DEF CallsHold
  <2> QED BY <1>1, <1>2, <2>1, <2>2, <2>3, CallReplaced DEF Quiet
<1>10. ASSUME NEW t \in Threads, Clear(t) \/ PruneOlderThan(t) PROVE CallsHold'
  <2>1. call' = Deleted(t) /\ UNCHANGED <<lock, phase>>
    BY <1>10 DEF Clear, PruneOlderThan, Calls
  <2> QED BY <1>3, <1>4, <2>1
<1>11. ASSUME NEW t \in Threads, ReadTotal(t) PROVE CallsHold'
  <2>1. PICK cap \in Caps :
          /\ Calls(t)
          /\ \/ UNCHANGED <<lock, call>>
             \/ /\ lock' = [lock EXCEPT ![Home[t]] = {t}]
                /\ call' = [call EXCEPT ![t] =
                      [op |-> "evict", cap |-> cap, total |-> Size(DOMAIN rows), listed |-> FALSE,
                       todo |-> <<>>, seen |-> <<>>, last |-> <<>>, steady |-> TRUE]]
    BY <1>11 DEF ReadTotal
  <2>2. lock[Home[t]] = {} /\ phase[Home[t]] = "open" /\ UNCHANGED phase
    BY <2>1 DEF Calls
  <2>3. CASE UNCHANGED <<lock, call>>
    BY <1>2, <1>4, <2>2, <2>3
  <2> DEFINE c == [op |-> "evict", cap |-> cap, total |-> Size(DOMAIN rows), listed |-> FALSE,
                   todo |-> <<>>, seen |-> <<>>, last |-> <<>>, steady |-> TRUE]
  <2>4. c \in CallType /\ c.op = "evict"
    BY StartedType DEF CallType
  <2>5. CASE lock' = [lock EXCEPT ![Home[t]] = {t}] /\ call' = [call EXCEPT ![t] = c]
    <3> HIDE DEF c
    <3> QED BY <1>1, <2>2, <2>4, <2>5, CallLocked
  <2> QED BY <2>1, <2>3, <2>5
<1>12. ASSUME NEW t \in Threads, ListRows(t) PROVE CallsHold'
  <2> DEFINE c == [call[t] EXCEPT !.listed = TRUE, !.todo = OldestFirst(rows), !.seen = rows]
  <2>1. /\ call[t].op = "evict" /\ UNCHANGED <<lock, phase>>
        /\ call' = [call EXCEPT ![t] = c]
    BY <1>12 DEF ListRows, Evicting
  <2>2. call[t] \in EvictCalls
    BY <1>1, <2>1, Evicts
  <2>3. c \in CallType /\ c.op = "evict"
    BY <2>2, ListedType DEF CallType, EvictCalls
  <2>4. phase[Home[t]] = "open"
    BY <1>1, <2>1 DEF CallsHold, NoCall
  <2> HIDE DEF c
  <2> QED BY <1>1, <1>2, <2>1, <2>3, <2>4, CallReplaced DEF Quiet
<1>13. ASSUME NEW t \in Threads, DeleteRow(t) PROVE CallsHold'
  <2> DEFINE d == IF rows' = rows THEN call ELSE Deleted(t)
  <2>1. /\ call[t].op = "evict" /\ call[t].todo # <<>> /\ UNCHANGED <<lock, phase>>
        /\ call' = [d EXCEPT ![t] = [d[t] EXCEPT
                      !.todo = Tail(@), !.total = Shrunk(call[t]), !.last = Head(call[t].todo)]]
    BY <1>13 DEF DeleteRow, Evicting, Enough, Shrunk
  <2>2. Quiet(d)
    BY <1>2, <1>3
  <2>3. d[t] = call[t]
    <3>1. t \notin Evictors(t) /\ Evictors(t) \subseteq { u \in Threads : call[u].op = "evict" }
      BY DEF Evictors
    <3> QED BY <1>1, <3>1, Disturbed DEF Deleted
  <2> DEFINE c == Shortened(call[t])
  <2>4. call' = [d EXCEPT ![t] = c]
    BY <2>1, <2>3 DEF Shortened
  <2>5. call[t] \in EvictCalls
    BY <1>1, <2>1, Evicts
  <2>6. c \in CallType /\ c.op = "evict"
    BY <2>1, <2>5, ShortenedType DEF CallType, EvictCalls
  <2>7. phase[Home[t]] = "open"
    BY <1>1, <2>1 DEF CallsHold, NoCall
  <2>8. call[t].op = "evict" /\ UNCHANGED <<lock, phase>>
    BY <2>1
  <2> HIDE DEF c, d
  <2> QED BY <1>1, <2>2, <2>4, <2>6, <2>7, <2>8, CallReplaced DEF Quiet
<1>14. ASSUME NEW t \in Threads, Evicted(t) \/ EvictFails(t) PROVE CallsHold'
  <2>1. /\ call[t].op = "evict" /\ UNCHANGED phase
        /\ lock' = [lock EXCEPT ![Home[t]] = {}] /\ call' = [call EXCEPT ![t] = NoCall]
    BY <1>14 DEF Evicted, EvictFails, Evicting, Released
  <2>2. NoCall \in CallType /\ NoCall.op # "evict" /\ call[t] # NoCall
    BY <2>1 DEF CallType, NoCall
  <2>3. lock[Home[t]] = {t} /\ phase[Home[t]] = "open"
    BY <1>1, <2>1, <2>2 DEF CallsHold
  <2>4. {} \in SUBSET {t} /\ {} # {t}
    OBVIOUS
  <2>5. lock[Home[t]] \subseteq {t}
    BY <2>3
  <2> QED BY <1>1, <2>1, <2>2, <2>3, <2>4, <2>5, CallLocked
<1>15. CASE Tick \/ UNCHANGED vars
  BY <1>2, <1>4, <1>15 DEF Tick, vars
<1> QED BY <1>5, <1>6, <1>7, <1>8, <1>9, <1>10, <1>11, <1>12, <1>13, <1>14, <1>15
        DEF Next, Prune, PutWithMeta

(***************************************************************************)
(* What the steps of an eviction make of what it knows.                    *)
(***************************************************************************)
LEMMA ListedFits ==
  ASSUME IInv, NEW c \in EvictCalls, ~c.listed, EvictFits(c, rows, calls)
  PROVE  EvictFits([c EXCEPT !.listed = TRUE, !.todo = OldestFirst(rows), !.seen = rows],
                   rows, calls)
<1> DEFINE s == OldestFirst(rows)
           d == [c EXCEPT !.listed = TRUE, !.todo = s, !.seen = rows]
<1>1. rows \in Tables /\ IsFiniteSet(DOMAIN rows) /\ \A k \in DOMAIN rows : rows[k].nth < calls
  BY DEF IInv, RowsNumbered
<1>2. ToSet(s) = DOMAIN rows /\ Sorted(rows, s)
  BY <1>1, TableIsDated, Listing
<1> HIDE DEF s
<1>3. /\ d.listed = TRUE /\ d.todo = s /\ d.seen = rows
      /\ d.total = c.total /\ d.cap = c.cap /\ d.last = c.last /\ d.steady = c.steady
  BY DEF EvictCalls
<1> HIDE DEF d
<1>4. c.last = <<>> /\ (c.steady => c.total = Size(DOMAIN rows) /\ c.total > c.cap)
  BY DEF EvictFits
<1>5. ASSUME d.steady PROVE Exact(d, rows, calls)
  BY <1>1, <1>2, <1>3, <1>4, <1>5 DEF Exact
<1>6. EvictFits(d, rows, calls)
  BY <1>2, <1>3, <1>5 DEF EvictFits
<1> QED BY <1>6 DEF d, s

LEMMA ShortenedFits ==
  ASSUME NEW c \in EvictCalls, c.listed, c.total > c.cap, c.todo # <<>>,
         EvictFits(c, rows, calls), RowsNumbered
  PROVE  EvictFits(Shortened(c), Restrict(rows, DOMAIN rows \ {Head(c.todo)}), calls)
<1> DEFINE k == Head(c.todo)
           s == ToSet(c.todo)
           r2 == Restrict(rows, DOMAIN rows \ {k})
           d == Shortened(c)
<1>1. /\ c.todo \in Seq(Keys) /\ c.total \in Nat /\ c.seen \in Tables
      /\ s \subseteq DOMAIN c.seen /\ DOMAIN c.seen \subseteq Keys
  BY DEF EvictCalls, EvictFits, Tables
<1>2. /\ d.listed /\ d.todo = Tail(c.todo) /\ d.seen = c.seen /\ d.total = Shrunk(c)
      /\ d.cap = c.cap /\ d.last = k /\ d.steady = c.steady
  BY DEF Shortened, EvictCalls
<1>3. DOMAIN r2 = DOMAIN rows \ {k} /\ \A j \in DOMAIN r2 : r2[j] = rows[j]
  BY DEF Restrict
<1>4. ToSet(Tail(c.todo)) \subseteq s
  <2>1. /\ DOMAIN Tail(c.todo) = 1..(Len(c.todo) - 1) /\ Len(c.todo) \in Nat
        /\ DOMAIN c.todo = 1..Len(c.todo)
        /\ \A i \in 1..(Len(c.todo) - 1) : Tail(c.todo)[i] = c.todo[i + 1]
    BY <1>1
  <2>2. \A i \in 1..(Len(c.todo) - 1) : i + 1 \in 1..Len(c.todo)
    BY <2>1
  <2> QED BY <2>1, <2>2 DEF ToSet
<1>5. ASSUME c.steady PROVE Exact(d, r2, calls)
  <2>1. Exact(c, rows, calls)
    BY <1>5 DEF EvictFits
  <2>2. /\ k \in s /\ ToSet(Tail(c.todo)) = s \ {k} /\ Sorted(c.seen, Tail(c.todo))
        /\ \A j \in s \ {k} : Before(c.seen, k, j)
    <3>1. Sorted(c.seen, c.todo) /\ Dated(c.seen, s)
      BY <1>1, <2>1, TableIsDated DEF Exact
    <3> QED BY <1>1, <3>1, SortedTail
  <2>3. \A j \in s \ {k} : j \in DOMAIN r2 /\ r2[j] = c.seen[j]
    BY <1>3, <2>1 DEF Exact
  <2>4. ASSUME NEW j \in (DOMAIN c.seen) \ (s \ {k})
        PROVE  /\ ~ (j \in DOMAIN r2 /\ r2[j] = c.seen[j])
               /\ \A i \in s \ {k} : Before(c.seen, j, i)
    <3>1. CASE j = k
      BY <3>1, <1>3, <2>2
    <3>2. CASE j # k
      BY <3>2, <1>3, <2>1 DEF Exact
    <3> QED BY <3>1, <3>2
  <2>5. k \in Keys /\ Bytes[k] \in Nat
    BY <1>1, <2>2, StoreAssumption
  <2>6. Size(s \ {k}) \in Nat /\ Size(s) = Bytes[k] + Size(s \ {k})
    <3>1. IsFiniteSet(s) /\ s \subseteq Keys
      BY <1>1, <2>1, FS_Subset DEF Exact
    <3>2. IsFiniteSet(s \ {k}) /\ s \ {k} \subseteq Keys
      BY <3>1, FS_Subset
    <3> QED BY <2>2, <3>1, <3>2, SizeType, SizeWithout
  <2>7. c.total = Size(s)
    BY <2>1 DEF Exact
  <2>8. Shrunk(c) = Size(s \ {k})
    BY <2>5, <2>6, <2>7 DEF Shrunk
  <2>9. d.total = Size(s \ {k}) /\ d.total + Bytes[k] > c.cap
    <3>1. d.total = Size(s \ {k}) /\ d.total + Bytes[k] = c.total
      BY <1>2, <2>5, <2>6, <2>7, <2>8
    <3> QED BY <3>1
  <2> HIDE DEF k, s, r2, d
  <2> QED BY <1>2, <2>1, <2>2, <2>3, <2>4, <2>5, <2>9 DEF Exact
<1> HIDE DEF k, s, r2, d
<1>6. EvictFits(d, r2, calls)
  BY <1>1, <1>2, <1>4, <1>5 DEF EvictFits
<1> QED BY <1>6 DEF d, r2, k

\* The other threads, in a step that leaves the rows.
LEMMA FitsLater ==
  ASSUME IInv, UNCHANGED rows, calls' \in {calls, calls + 1}, NEW u \in Threads,
         call[u].op = "evict"
  PROVE  EvictFits(call[u], rows', calls')
<1>1. calls \in Nat /\ calls' \in Nat /\ calls <= calls'
  BY StoreAssumption DEF IInv, Scalars
<1>2. call[u] \in EvictCalls
  BY Evicts DEF IInv, CallsHold
<1>3. call[u].seen \in Tables
  BY <1>2 DEF EvictCalls
<1>4. EvictFits(call[u], rows, calls)
  BY DEF IInv, EvictionsFit
<1>5. EvictFits(call[u], rows, calls')
  BY <1>1, <1>2, <1>3, <1>4, FitsOnSameRows
<1> QED BY <1>5

\* The other threads, in a step that deletes rows.
LEMMA FitsDeleted ==
  ASSUME IInv, NEW t \in Threads, NEW u \in Threads \ {t}, call[u].op = "evict", NEW r, NEW n
  PROVE  EvictFits(Deleted(t)[u], r, n)
<1>1. u \in Evictors(t) /\ Evictors(t) \subseteq { v \in Threads : call[v].op = "evict" }
  BY DEF Evictors
<1>2. Deleted(t)[u] = [call[u] EXCEPT !.steady = FALSE]
  BY <1>1, Disturbed DEF Deleted, IInv, CallsHold
<1>3. call[u] \in EvictCalls /\ EvictFits(call[u], rows, calls)
  BY Evicts DEF IInv, CallsHold, EvictionsFit
<1> QED BY <1>2, <1>3, FitsDisturbed

\* The other threads, when a result is stored.
LEMMA FitsStored ==
  ASSUME IInv, NEW t \in Threads, NEW u \in Threads \ {t}, call[u].op = "evict",
         NEW k \in Keys, rows' = OrIgnore(k, Row(t)), rows' # rows, calls' = calls + 1
  PROVE  EvictFits(Added(t)[u], rows', calls')
<1> DEFINE E == { v \in Evictors(t) : ~call[v].listed }
<1>1. call[u] \in EvictCalls /\ EvictFits(call[u], rows, calls) /\ call[u].seen \in Tables
  BY Evicts DEF IInv, CallsHold, EvictionsFit, EvictCalls
<1>2. E \subseteq { v \in Threads : call[v].op = "evict" } /\ (u \in E <=> ~call[u].listed)
  BY DEF Evictors
<1>3. /\ u \in E => Added(t)[u] = [call[u] EXCEPT !.steady = FALSE]
      /\ u \notin E => Added(t)[u] = call[u]
  BY <1>2, Disturbed DEF Added, IInv, CallsHold
<1>4. CASE ~call[u].listed
  BY <1>1, <1>2, <1>3, <1>4, FitsDisturbed
<1>5. CASE call[u].listed
  <2>1. k \notin DOMAIN rows
    <3>1. rows = [j \in DOMAIN rows |-> rows[j]]
      BY DEF IInv, RowsNumbered, Tables
    <3>2. k \in DOMAIN rows => OrIgnore(k, Row(t)) = [j \in DOMAIN rows |-> rows[j]]
      BY DEF OrIgnore
    <3> QED BY <3>1, <3>2
  <2>2. Row(t).nth = calls /\ calls \in Nat
    BY StoreAssumption DEF Row, IInv, Scalars
  <2>3. EvictFits(call[u], OrIgnore(k, Row(t)), calls + 1)
    BY <1>1, <1>5, <2>1, <2>2, FitsWithNewRow
  <2> QED BY <1>2, <1>3, <1>5, <2>3
<1> QED BY <1>4, <1>5

LEMMA EvictionsKept == ASSUME IInv, [Next]_vars PROVE EvictionsFit'
<1>1. call \in [Threads -> CallType]
  BY DEF IInv, CallsHold
\* Steps that leave the rows and no new eviction behind.
<1>2. ASSUME UNCHANGED rows, calls' \in {calls, calls + 1}, NEW t \in Threads,
             \A u \in Threads \ {t} : call'[u].op = "evict" => call'[u] = call[u],
             call'[t].op = "evict" => EvictFits(call'[t], rows', calls')
      PROVE  EvictionsFit'
  <2>1. ASSUME NEW u \in Threads, call'[u].op = "evict" PROVE EvictFits(call'[u], rows', calls')
    BY <1>2, <2>1, FitsLater
  <2> QED BY <2>1 DEF EvictionsFit
<1>3. ASSUME UNCHANGED rows, calls' \in {calls, calls + 1},
             \A u \in Threads : call'[u].op = "evict" => call'[u] = call[u]
      PROVE  EvictionsFit'
  <2>1. ASSUME NEW u \in Threads, call'[u].op = "evict" PROVE EvictFits(call'[u], rows', calls')
    BY <1>3, <2>1, FitsLater
  <2> QED BY <2>1 DEF EvictionsFit
<1>4. ASSUME NEW s \in Sessions, Open(s) \/ Exit(s) PROVE EvictionsFit'
  <2>1. UNCHANGED <<rows, calls>>
    BY <1>4 DEF Open, CreateSchema, ReadVersion, InsertVersion, StampRelease, Opening, Exit, disk
  <2>2. \A u \in Threads : call'[u].op = "evict" => call'[u] = call[u]
    BY <1>4 DEF Open, CreateSchema, ReadVersion, InsertVersion, StampRelease, Opening, Exit, NoCall
  <2> QED BY <2>1, <2>2, <1>3
<1>5. ASSUME NEW t \in Threads, Put(t) PROVE EvictionsFit'
  <2> DEFINE d == IF rows' = rows THEN call ELSE Added(t)
  <2>1. PICK k \in Keys :
          /\ Calls(t) /\ rows' \in {OrIgnore(k, Row(t)), rows}
          /\ call' = [d EXCEPT ![t] =
                        [op |-> "name", key |-> k, stored |-> k \in DOMAIN rows']]
    BY <1>5 DEF Put
  <2>2. calls' = calls + 1
    BY <2>1 DEF Calls
  <2>3. d \in [Threads -> CallType] /\ \A u \in Threads : d[u].op = call[u].op
    <3>1. { u \in Evictors(t) : ~call[u].listed } \subseteq { u \in Threads : call[u].op = "evict" }
      BY DEF Evictors
    <3> QED BY ZenonT(40), <1>1, <3>1, Disturbed DEF Added
  <2>4. ASSUME NEW u \in Threads, call'[u].op = "evict" PROVE EvictFits(call'[u], rows', calls')
    <3>1. call'[t].op = "name"
      BY <2>1, <2>3
    <3>2. u # t
      BY <2>4, <3>1
    <3>3. call'[u] = d[u]
      BY <2>1, <2>3, <3>2
    <3>4. call[u].op = "evict"
      BY <2>3, <2>4, <3>3
    <3>5. CASE rows' = rows
      BY <2>2, <3>3, <3>4, <3>5, FitsLater
    <3>6. CASE rows' # rows
      BY <2>1, <2>2, <3>2, <3>3, <3>4, <3>6, FitsStored
    <3> QED BY <3>5, <3>6
  <2> QED BY <2>4 DEF EvictionsFit
<1>6. ASSUME NEW t \in Threads, PutFails(t) PROVE EvictionsFit'
  BY <1>3, <1>6 DEF PutFails, Calls
<1>7. ASSUME NEW t \in Threads, Name(t) \/ NameSkipped(t) PROVE EvictionsFit'
  <2>1. UNCHANGED <<rows, calls>> /\ call' = [call EXCEPT ![t] = NoCall]
    BY <1>7 DEF Name, NameSkipped, Naming
  <2>2. \A u \in Threads : call'[u].op = "evict" => call'[u] = call[u]
    BY <1>1, <2>1 DEF NoCall
  <2> QED BY <2>1, <2>2, <1>3
<1>8. ASSUME NEW t \in Threads, Clear(t) \/ PruneOlderThan(t) PROVE EvictionsFit'
  <2>1. call[t] = NoCall /\ call' = Deleted(t)
    BY <1>8 DEF Clear, PruneOlderThan, Calls
  <2>2. \A u \in Threads : call'[u].op = call[u].op
    <3>1. Evictors(t) \subseteq { u \in Threads : call[u].op = "evict" }
      BY DEF Evictors
    <3> QED BY ZenonT(40), <1>1, <2>1, <3>1, Disturbed DEF Deleted
  <2>3. ASSUME NEW u \in Threads, call'[u].op = "evict" PROVE EvictFits(call'[u], rows', calls')
    <3>1. call[u].op = "evict" /\ u # t
      BY <2>1, <2>2, <2>3 DEF NoCall
    <3> QED BY <2>1, <3>1, FitsDeleted
  <2> QED BY <2>3 DEF EvictionsFit
<1>9. ASSUME NEW t \in Threads, ReadTotal(t) PROVE EvictionsFit'
  <2>1. PICK cap \in Caps :
          \/ UNCHANGED call
          \/ /\ Size(DOMAIN rows) > cap
             /\ call' = [call EXCEPT ![t] =
                      [op |-> "evict", cap |-> cap, total |-> Size(DOMAIN rows), listed |-> FALSE,
                       todo |-> <<>>, seen |-> <<>>, last |-> <<>>, steady |-> TRUE]]
    BY <1>9 DEF ReadTotal
  <2>2. UNCHANGED rows /\ calls' = calls + 1
    BY <1>9 DEF ReadTotal, Calls
  <2>3. CASE UNCHANGED call
    BY <1>3, <2>2, <2>3
  <2> DEFINE c == [op |-> "evict", cap |-> cap, total |-> Size(DOMAIN rows), listed |-> FALSE,
                   todo |-> <<>>, seen |-> <<>>, last |-> <<>>, steady |-> TRUE]
  <2>4. CASE Size(DOMAIN rows) > cap /\ call' = [call EXCEPT ![t] = c]
    <3>1. EvictFits(c, rows, calls')
      <4>1. ToSet(<<>>) = {}
        BY EmptyIsTable DEF ToSet
      <4> QED BY <2>4, <4>1 DEF EvictFits
    <3> HIDE DEF c
    <3>2. call'[t] = c /\ \A u \in Threads \ {t} : call'[u] = call[u]
      BY <1>1, <2>4
    <3>3. EvictFits(call'[t], rows', calls')
      BY <2>2, <3>1, <3>2
    <3> QED BY <1>2, <2>2, <3>2, <3>3
  <2> QED BY <2>1, <2>3, <2>4
<1>10. ASSUME NEW t \in Threads, ListRows(t) PROVE EvictionsFit'
  <2> DEFINE c == [call[t] EXCEPT !.listed = TRUE, !.todo = OldestFirst(rows), !.seen = rows]
  <2>1. /\ call[t].op = "evict" /\ ~call[t].listed /\ UNCHANGED <<rows, calls>>
        /\ call' = [call EXCEPT ![t] = c]
    BY <1>10 DEF ListRows, Evicting
  <2>2. call[t] \in EvictCalls /\ EvictFits(call[t], rows, calls)
    BY <1>1, <2>1, Evicts DEF IInv, EvictionsFit
  <2>3. EvictFits(c, rows, calls)
    BY <2>1, <2>2, ListedFits
  <2> HIDE DEF c
  <2>4. call'[t] = c /\ \A u \in Threads \ {t} : call'[u] = call[u]
    BY <1>1, <2>1
  <2>5. EvictFits(call'[t], rows', calls')
    BY <2>1, <2>3, <2>4
  <2> QED BY <1>2, <2>1, <2>4, <2>5
<1>11. ASSUME NEW t \in Threads, DeleteRow(t) PROVE EvictionsFit'
  <2> DEFINE d == IF rows' = rows THEN call ELSE Deleted(t)
             c == Shortened(call[t])
  <2>1. /\ call[t].op = "evict" /\ call[t].listed /\ call[t].todo # <<>> /\ UNCHANGED calls
        /\ ~ (call[t].total <= call[t].cap)
        /\ rows' = Restrict(rows, DOMAIN rows \ {Head(call[t].todo)})
        /\ call' = [d EXCEPT ![t] = [d[t] EXCEPT
                      !.todo = Tail(@), !.total = Shrunk(call[t]), !.last = Head(call[t].todo)]]
    BY <1>11 DEF DeleteRow, Evicting, Enough, Shrunk
  <2>2. call[t] \in EvictCalls /\ EvictFits(call[t], rows, calls) /\ RowsNumbered
    BY <1>1, <2>1, Evicts DEF IInv, EvictionsFit
  <2>3. call[t].total > call[t].cap
    <3>1. call[t].total \in Nat /\ call[t].cap \in Nat
      BY <2>2, StoreAssumption DEF EvictCalls
    <3> QED BY <2>1, <3>1
  <2>4. /\ d \in [Threads -> CallType] /\ d[t] = call[t]
        /\ \A u \in Threads : d[u].op = call[u].op
    <3>1. Evictors(t) \subseteq { u \in Threads : call[u].op = "evict" } /\ t \notin Evictors(t)
      BY DEF Evictors
    <3> QED BY <1>1, <3>1, Disturbed DEF Deleted
  <2>5. EvictFits(c, rows', calls')
    BY <2>1, <2>2, <2>3, ShortenedFits
  <2>6. call' = [d EXCEPT ![t] = c]
    BY <2>1, <2>4 DEF Shortened
  <2>7. ASSUME NEW u \in Threads, u # t, d[u].op = "evict" PROVE EvictFits(d[u], rows', calls')
    <3>1. call[u].op = "evict" /\ u \in Threads \ {t}
      BY <2>4, <2>7
    <3>2. CASE rows' = rows
      BY <2>1, <3>1, <3>2, FitsLater
    <3>3. CASE rows' # rows
      BY <3>1, <3>3, FitsDeleted
    <3> QED BY <3>2, <3>3
  <2> HIDE DEF c, d
  <2>8. ASSUME NEW u \in Threads, call'[u].op = "evict" PROVE EvictFits(call'[u], rows', calls')
    <3>1. call'[u] = IF u = t THEN c ELSE d[u]
      BY <2>4, <2>6
    <3> QED BY <2>5, <2>7, <2>8, <3>1
  <2> QED BY <2>8 DEF EvictionsFit
<1>12. ASSUME NEW t \in Threads, Evicted(t) \/ EvictFails(t) PROVE EvictionsFit'
  <2>1. UNCHANGED <<rows, calls>> /\ call' = [call EXCEPT ![t] = NoCall]
    BY <1>12 DEF Evicted, EvictFails, Evicting, Released
  <2>2. \A u \in Threads : call'[u].op = "evict" => call'[u] = call[u]
    BY <1>1, <2>1 DEF NoCall
  <2> QED BY <2>1, <2>2, <1>3
<1>13. CASE Tick \/ UNCHANGED vars
  BY <1>3, <1>13 DEF Tick, vars, disk
<1> QED BY <1>4, <1>5, <1>6, <1>7, <1>8, <1>9, <1>10, <1>11, <1>12, <1>13
        DEF Next, Prune, PutWithMeta

(***************************************************************************)
(* The theorems.                                                           *)
(***************************************************************************)
LEMMA InvHolds == Spec => []IInv
<1>1. Init => IInv
  <2> SUFFICES ASSUME Init PROVE IInv
    OBVIOUS
  <2>1. Scalars
    BY StoreAssumption DEF Init, Scalars, Phases
  <2>2. RowsNumbered
    BY EmptyIsTable DEF Init, RowsNumbered
  <2>3. NoCall \in CallType /\ NoCall.op # "evict"
    BY DEF CallType, NoCall
  <2>4. CallsHold
    <3>1. \A t \in Threads : {t} # {}
      OBVIOUS
    <3> QED BY <2>3, <3>1, StoreAssumption DEF Init, CallsHold
  <2>5. EvictionsFit
    BY <2>3 DEF Init, EvictionsFit
  <2> QED BY <2>1, <2>2, <2>4, <2>5 DEF IInv
<1>2. IInv /\ [Next]_vars => IInv'
  BY ScalarsKept, RowsKept, CallsKept, EvictionsKept DEF IInv
<1> QED BY <1>1, <1>2, PTL DEF Spec

(* Every variable keeps its type, a thread evicts exactly while it holds   *)
(* the mutex of its process's store, and a result is in the listing as     *)
(* soon as one call that stored it or found it stored came back without a  *)
(* complaint (store.rs put_with_meta, prune_to_max_size).                  *)
THEOREM TypeCorrect == Spec => []TypeOK
<1>1. IInv => TypeOK
  <2> SUFFICES ASSUME IInv PROVE TypeOK
    OBVIOUS
  <2>1. DOMAIN rows \subseteq Keys /\ \A k \in DOMAIN rows : rows[k] \in RowType
    BY DEF IInv, RowsNumbered, Tables
  <2>2. ASSUME NEW t \in Threads PROVE IsCall(t)
    <3>1. CASE call[t] = NoCall
      BY <3>1 DEF IsCall
    <3>2. CASE call[t] \in NameCalls
      BY <3>2 DEF IsCall, NameCalls
    <3>3. CASE call[t] \in EvictCalls
      <4>1. call[t].op = "evict"
        BY <3>3 DEF EvictCalls
      <4>2. ToSet(call[t].todo) \subseteq DOMAIN call[t].seen
        BY <4>1 DEF IInv, EvictionsFit, EvictFits
      <4> QED BY <3>3, <4>1, <4>2 DEF IsCall, EvictCalls
    <3> QED BY <3>1, <3>2, <3>3 DEF IInv, CallsHold, CallType
  <2> QED BY <2>1, <2>2 DEF IInv, Scalars, CallsHold, TypeOK
<1> QED BY <1>1, InvHolds, PTL

(* An eviction that no other deletion disturbs is exact, however many      *)
(* results are stored while it runs: when it ends, what it saw and left    *)
(* fits the size asked for, the rows it deleted were the oldest, and the   *)
(* last of them had to go (store.rs prune_to_max_size).                    *)
THEOREM EvictionIsExact == Spec => []PruneFits
<1>1. IInv => PruneFits
  <2> SUFFICES ASSUME IInv, NEW t \in Threads, call[t].op = "evict", call[t].listed,
                      call[t].steady, Enough(t)
               PROVE  LET seen == call[t].seen
                          left == { k \in (DOMAIN seen) \cap (DOMAIN rows) : rows[k] = seen[k] } IN
                      /\ Size(left) <= call[t].cap
                      /\ Size(left) + Bytes[call[t].last] > call[t].cap
                      /\ \A gone \in (DOMAIN seen) \ left, k \in left : Before(seen, gone, k)
    BY DEF PruneFits
  <2> DEFINE c == call[t]
             left == { k \in (DOMAIN c.seen) \cap (DOMAIN rows) : rows[k] = c.seen[k] }
  <2>1. c \in EvictCalls /\ EvictFits(c, rows, calls)
    BY Evicts DEF IInv, CallsHold, EvictionsFit
  <2>2. c.total \in Nat /\ c.cap \in Nat /\ ToSet(c.todo) \subseteq DOMAIN c.seen
    BY <2>1, StoreAssumption DEF EvictCalls, EvictFits
  <2>3. Exact(c, rows, calls)
    BY <2>1 DEF EvictFits
  <2>4. c.total <= c.cap \/ c.todo = <<>>
    BY DEF Enough
  <2> HIDE DEF c
  <2>5. left = ToSet(c.todo)
    BY <2>2, <2>3 DEF Exact
  <2>6. c.total = Size(left)
    BY <2>3, <2>5 DEF Exact
  <2>7. c.todo = <<>> => c.total = 0
    <3>1. ToSet(<<>>) = {}
      BY EmptyIsTable DEF ToSet
    <3>2. Size({}) = 0
      BY SizeSteps, FS_EmptySet
    <3> QED BY <2>5, <2>6, <3>1, <3>2
  <2>8. c.total <= c.cap
    BY <2>2, <2>4, <2>7
  <2>9. c.total + Bytes[c.last] > c.cap
    BY <2>2, <2>3, <2>8 DEF Exact
  <2>10. \A gone \in (DOMAIN c.seen) \ left, k \in left : Before(c.seen, gone, k)
    BY <2>3, <2>5 DEF Exact
  <2> HIDE DEF left
  <2>11. Size(left) <= c.cap /\ Size(left) + Bytes[c.last] > c.cap
    BY <2>6, <2>8, <2>9
  <2> QED BY <2>10, <2>11 DEF left, c
<1> QED BY <1>1, InvHolds, PTL

=============================================================================
