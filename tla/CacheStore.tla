------------------------------ MODULE CacheStore ------------------------------
(***************************************************************************)
(* The store of the persistent function cache (rustlab-cache/src/store.rs):*)
(* one SQLite file, any number of processes.  A statement of SQLite is one *)
(* step; opening the store, storing a result and evicting rows are several *)
(* statements, and other processes run theirs in between.  Inside a        *)
(* process the threads share one Store behind a mutex.                     *)
(***************************************************************************)
EXTENDS Integers, FiniteSets, FiniteSetsExt, Sequences, SequencesExt, Functions

CONSTANTS
  Sessions,   \* the processes, one open Store each
  Threads,    \* threads that use a Store
  Home,       \* the process of a thread
  Schema,     \* SCHEMA_VERSION of the program a process runs
  Keys,       \* pairs of entry id and input hash
  Bytes,      \* the size of the result under a key
  Caps,       \* sizes a store is pruned to
  Ages,       \* ages it is pruned by
  MaxClock, MaxCalls, MaxCrashes

ASSUME StoreAssumption ==
  /\ Home \in [Threads -> Sessions]
  /\ Schema \in [Sessions -> Nat \ {0}]
  /\ Keys \subseteq Nat \X Nat /\ Bytes \in [Keys -> Nat]
  /\ Caps \subseteq Nat /\ Ages \subseteq Nat
  /\ MaxClock \in Nat /\ MaxCalls \in Nat /\ MaxCrashes \in Nat

VARIABLES
  version,  \* schema_meta "version", 0 while it is absent
  rows,     \* cache_entries
  names,    \* the entry ids of fn_metadata
  clock,    \* the wall clock, in seconds
  phase,    \* how far each process is with its Store
  lock,     \* who holds the mutex of each Store
  call,     \* what each thread is in the middle of
  calls,    \* how many calls there were
  crashes,
  named     \* history: entries whose put_with_meta came back without a complaint

disk == <<version, rows, names>>
vars == <<disk, clock, phase, lock, call, calls, crashes, named>>

Entry(k) == k[1]
NoCall == [op |-> "none"]
Size(ks) == MapThenSumSet(LAMBDA k : Bytes[k], ks)

\* ORDER BY created_at, entry_id, input_hash.
Before(r, j, k) ==
  \/ r[j].at < r[k].at
  \/ r[j].at = r[k].at /\ (j[1] < k[1] \/ (j[1] = k[1] /\ j[2] < k[2]))
Enumerations(S) == [1..Cardinality(S) -> S]
\* Mutant: the order of the listing, newest first.
NewestFirst(r) == CHOOSE s \in Enumerations(DOMAIN r) :
  \A i, j \in DOMAIN s : i < j => Before(r, s[j], s[i])
OldestFirst(r) == CHOOSE s \in Enumerations(DOMAIN r) :
  \A i, j \in DOMAIN s : i < j => Before(r, s[i], s[j])

(***************************************************************************)
(* Store::open.                                                            *)
(***************************************************************************)
Opening(s, from, to) ==
  /\ phase[s] = from
  /\ phase' = [phase EXCEPT ![s] = to]
  /\ UNCHANGED <<clock, lock, call, calls, crashes, named>>

(* The WAL pragma and CREATE TABLE IF NOT EXISTS come before the version   *)
(* is read, on a newer store too; they change no version and no row.       *)
CreateSchema(s) == Opening(s, "closed", "schema") /\ UNCHANGED disk

ReadVersion(s) ==
  /\ Opening(s, "schema", IF version = 0 THEN "fresh"
                          ELSE IF version > Schema[s] THEN "disabled" ELSE "known")
  /\ UNCHANGED disk

\* Mutant: INSERT OR IGNORE.
InsertVersionOrIgnore(s) ==
  /\ Opening(s, "fresh", "known")
  /\ version' = IF version = 0 THEN Schema[s] ELSE version
  /\ UNCHANGED <<rows, names>>

\* A plain INSERT: who comes second violates the primary key, and open fails.
InsertVersion(s) ==
  \/ /\ version = 0
     /\ Opening(s, "fresh", "known")
     /\ version' = Schema[s]
     /\ UNCHANGED <<rows, names>>
  \/ /\ version # 0
     /\ Opening(s, "fresh", "failed")
     /\ UNCHANGED disk

\* "rustlab_version" is written with DO UPDATE; nothing reads it but a display.
StampRelease(s) == Opening(s, "known", "open") /\ UNCHANGED disk

(***************************************************************************)
(* Calls on an open Store.                                                 *)
(***************************************************************************)
\* Mutant: a Store without a mutex.
CallsUnlocked(t) ==
  /\ phase[Home[t]] = "open"
  /\ call[t] = NoCall /\ calls < MaxCalls
  /\ calls' = calls + 1
  /\ UNCHANGED <<version, clock, phase, crashes>>

Calls(t) ==
  /\ phase[Home[t]] = "open" /\ lock[Home[t]] = {}
  /\ call[t] = NoCall /\ calls < MaxCalls
  /\ calls' = calls + 1
  /\ UNCHANGED <<version, clock, phase, crashes>>

\* Rows are added or deleted while other threads evict.
Evictors(t) == { u \in Threads \ {t} : call[u].op = "evict" }
Disturb(E) ==
  [u \in Threads |-> IF u \in E THEN [call[u] EXCEPT !.steady = FALSE] ELSE call[u]]

Added(t) == Disturb({ u \in Evictors(t) : ~call[u].listed })
Deleted(t) == Disturb(Evictors(t))

Row(t) == [by |-> t, nth |-> calls, at |-> clock]

\* Mutant: INSERT OR REPLACE.
OrReplace(k, row) == (k :> row) @@ rows
OrIgnore(k, row) ==
  [j \in (DOMAIN rows) \cup {k} |-> IF j \in DOMAIN rows THEN rows[j] ELSE row]

\* put: the row may also be skipped, on a full disk and the like, and
\* put_with_meta goes on all the same.
Put(t) == \E k \in Keys :
  /\ Calls(t)
  /\ rows' \in {OrIgnore(k, Row(t)), rows}
  /\ call' = [(IF rows' = rows THEN call ELSE Added(t)) EXCEPT ![t] =
                [op |-> "name", key |-> k, stored |-> k \in DOMAIN rows']]
  /\ UNCHANGED <<names, lock, named>>

\* put fails otherwise: put_with_meta ends, and the evaluator goes on.
PutFails(t) == Calls(t) /\ UNCHANGED <<rows, names, lock, call, named>>

Naming(t) ==
  /\ call[t].op = "name" /\ lock[Home[t]] = {}
  /\ call' = [call EXCEPT ![t] = NoCall]
  /\ UNCHANGED <<version, rows, clock, phase, lock, calls, crashes>>

Name(t) ==
  /\ Naming(t)
  /\ names' = names \cup {Entry(call[t].key)}
  /\ named' = IF call[t].stored THEN named \cup {Entry(call[t].key)} ELSE named

NameSkipped(t) == Naming(t) /\ UNCHANGED <<names, named>>

Clear(t) ==
  /\ Calls(t)
  /\ rows' = <<>>
  /\ call' = Deleted(t)
  /\ UNCHANGED <<names, lock, named>>

Recent(age) == { k \in DOMAIN rows : rows[k].at > clock - age }
PruneOlderThan(t) == \E age \in Ages :
  /\ Calls(t)
  /\ rows' = Restrict(rows, Recent(age))
  /\ call' = Deleted(t)
  /\ UNCHANGED <<names, lock, named>>

(***************************************************************************)
(* prune_to_max_size keeps the mutex for its statements: the total, the    *)
(* list, and one DELETE per row.  A DELETE names a key, and the total is   *)
(* counted down whether or not it found a row.                             *)
(***************************************************************************)
ReadTotal(t) == \E cap \in Caps :
  /\ Calls(t)
  /\ \/ /\ Size(DOMAIN rows) <= cap
        /\ UNCHANGED <<lock, call>>
     \/ /\ Size(DOMAIN rows) > cap
        /\ lock' = [lock EXCEPT ![Home[t]] = {t}]
        /\ call' = [call EXCEPT ![t] =
                      [op |-> "evict", cap |-> cap, total |-> Size(DOMAIN rows), listed |-> FALSE,
                       todo |-> <<>>, seen |-> <<>>, last |-> <<>>, steady |-> TRUE]]
  /\ UNCHANGED <<rows, names, named>>

Evicting(t, listed) ==
  /\ call[t].op = "evict" /\ call[t].listed = listed
  /\ UNCHANGED <<version, names, clock, phase, calls, crashes, named>>
Enough(t) == call[t].total <= call[t].cap \/ call[t].todo = <<>>

ListRows(t) ==
  /\ Evicting(t, FALSE)
  /\ call' = [call EXCEPT ![t].listed = TRUE, ![t].todo = OldestFirst(rows), ![t].seen = rows]
  /\ UNCHANGED <<rows, lock>>

DeleteRow(t) ==
  LET k == Head(call[t].todo)
      total == IF call[t].total < Bytes[k] THEN 0 ELSE call[t].total - Bytes[k] IN
  /\ Evicting(t, TRUE) /\ ~Enough(t)
  /\ rows' = Restrict(rows, DOMAIN rows \ {k})
  /\ call' = [(IF rows' = rows THEN call ELSE Deleted(t)) EXCEPT
                ![t].todo = Tail(@), ![t].total = total, ![t].last = k]
  /\ UNCHANGED lock

Released(t) ==
  /\ lock' = [lock EXCEPT ![Home[t]] = {}]
  /\ call' = [call EXCEPT ![t] = NoCall]
  /\ UNCHANGED rows

Evicted(t) == Evicting(t, TRUE) /\ Enough(t) /\ Released(t)

\* A statement fails: the rows deleted so far stay deleted.
EvictFails(t) == \E listed \in BOOLEAN : Evicting(t, listed) /\ Released(t)

(***************************************************************************)
(* The process ends, however far its threads are.  SQLite keeps what was   *)
(* committed; the next process of that program opens the file again.       *)
(***************************************************************************)
Exit(s) ==
  /\ phase[s] # "closed" /\ crashes < MaxCrashes
  /\ crashes' = crashes + 1
  /\ phase' = [phase EXCEPT ![s] = "closed"]
  /\ lock' = [lock EXCEPT ![s] = {}]
  /\ call' = [t \in Threads |-> IF Home[t] = s THEN NoCall ELSE call[t]]
  /\ UNCHANGED <<disk, clock, calls, named>>

Tick ==
  /\ clock < MaxClock
  /\ clock' = clock + 1
  /\ UNCHANGED <<disk, phase, lock, call, calls, crashes, named>>

Init ==
  /\ version = 0 /\ rows = <<>> /\ names = {} /\ named = {}
  /\ clock = 0 /\ crashes = 0
  /\ phase = [s \in Sessions |-> "closed"]
  /\ lock = [s \in Sessions |-> {}]
  /\ call = [t \in Threads |-> NoCall]
  /\ calls = 0

Open(s) == CreateSchema(s) \/ ReadVersion(s) \/ InsertVersion(s) \/ StampRelease(s)
Prune(t) ==
  \/ PruneOlderThan(t)
  \/ ReadTotal(t) \/ ListRows(t) \/ DeleteRow(t) \/ Evicted(t) \/ EvictFails(t)
PutWithMeta(t) == Put(t) \/ PutFails(t) \/ Name(t) \/ NameSkipped(t)

Next ==
  \/ \E s \in Sessions : Open(s) \/ Exit(s)
  \/ \E t \in Threads : PutWithMeta(t) \/ Clear(t) \/ Prune(t)
  \/ Tick

Spec == Init /\ [][Next]_vars

(***************************************************************************)
(* Properties.                                                             *)
(***************************************************************************)
Phases == {"closed", "schema", "fresh", "known", "open", "disabled", "failed"}
RowType == [by : Threads, nth : 0..MaxCalls, at : 0..MaxClock]
IsCall(t) ==
  \/ call[t] = NoCall
  \/ /\ call[t].op = "name"
     /\ call[t].key \in Keys /\ call[t].stored \in BOOLEAN
  \/ /\ call[t].op = "evict"
     /\ call[t].cap \in Caps /\ call[t].total \in Nat
     /\ ToSet(call[t].todo) \subseteq DOMAIN call[t].seen

(* Every variable keeps its type.  A thread is in the middle of evicting   *)
(* exactly when it holds the mutex of its process's store, and only where  *)
(* that store is open.  A result has a name in the listing as soon as one  *)
(* call that stored it, or found it stored, came back without a complaint: *)
(* also if whoever wrote the row died before naming it (put_with_meta).    *)
TypeOK ==
  /\ version \in {0} \cup Range(Schema)
  /\ DOMAIN rows \subseteq Keys /\ \A k \in DOMAIN rows : rows[k] \in RowType
  /\ named \subseteq names /\ names \subseteq { Entry(k) : k \in Keys }
  /\ clock \in 0..MaxClock /\ crashes \in 0..MaxCrashes
  /\ phase \in [Sessions -> Phases]
  /\ lock \in [Sessions -> SUBSET Threads]
  /\ calls \in 0..MaxCalls
  /\ \A t \in Threads :
       /\ IsCall(t)
       /\ call[t].op = "evict" <=> lock[Home[t]] = {t}
       /\ call[t] # NoCall => phase[Home[t]] = "open"

(* A store whose schema is newer than the program is never written to: a   *)
(* process that has it open for writing knows the version on disk, also if *)
(* both were creating the file at once (store.rs:28-31, :84-118).          *)
NewerStaysUntouched ==
  \A s \in Sessions : phase[s] \in {"known", "open"} => version \in 1..Schema[s]

(* "Two simultaneous cold misses on the same key both compute and the      *)
(* second writer's INSERT is silently absorbed" (docs/functions.md:5130):  *)
(* while a row exists its result stays what its first writer stored.       *)
RowsAreFinal == [][\A k \in (DOMAIN rows) \cap (DOMAIN rows') : rows'[k] = rows[k]]_rows

(* "Drop oldest entries until total size <= N bytes"                       *)
(* (docs/functions.md:5057): when an eviction that nobody disturbed ends,  *)
(* what it saw and left fits, the rows it deleted were the oldest, and the *)
(* last of them had to go.  Others may store results all the while.        *)
PruneFits ==
  \A t \in Threads :
    call[t].op = "evict" /\ call[t].listed /\ call[t].steady /\ Enough(t) =>
      LET seen == call[t].seen
          left == { k \in (DOMAIN seen) \cap (DOMAIN rows) : rows[k] = seen[k] } IN
      /\ Size(left) <= call[t].cap
      /\ Size(left) + Bytes[call[t].last] > call[t].cap
      /\ \A gone \in (DOMAIN seen) \ left, k \in left : Before(seen, gone, k)

=============================================================================
