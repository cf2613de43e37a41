------------------------------- MODULE WatchLoop -------------------------------
(***************************************************************************)
(* "notebook watch" with a destination (rustlab-notebook/src/watch.rs):    *)
(* one thread that renders every notebook once, then follows file events,  *)
(* and renders the notebooks that changed or that embed a changed file.    *)
(* The rendered Markdown goes to another directory, or over the source     *)
(* itself ("in place"); there its own writes come back as events.          *)
(* Authors save and remove files between any two steps of the thread.      *)
(***************************************************************************)
EXTENDS Integers, FiniteSets

CONSTANTS
  Sources,         \* the .md files of the tree
  Place,         \* the place of each in path order
  Pages,         \* those rendered as pages (not partials)
  Embeds,        \* what each file embeds at first
  Bodies,        \* sets of embeds an author may give each file
  Draws,         \* what a render may compute
  MaxSaves,      \* saves of all authors
  MaxRemovals    \* files removed

ASSUME WatchAssumption ==
  /\ Pages \subseteq Sources
  /\ Place \in [Sources -> Nat] /\ \A f, g \in Sources : Place[f] = Place[g] => f = g
  /\ \A f \in Sources : Embeds[f] \in Bodies[f] /\ Bodies[f] \subseteq SUBSET (Sources \ {f})
  /\ Draws \subseteq Nat \ {0} /\ Draws # {}
  /\ MaxSaves \in Nat /\ MaxRemovals \in Nat

VARIABLES
  inPlace,     \* the destination is the source directory
  disk,        \* the source files
  out,         \* the rendered files, when they are elsewhere
  hashes,      \* WRITE_OUTPUT_HASHES: what was last written
  selfWrites,  \* self_writes: what a file held after its last render
  graph,       \* DependencyGraph
  watching,    \* the watcher is installed
  events,      \* file events not yet received
  pending,     \* files to look at when the debounce window closes
  job,         \* pages still to render, and how far the first of them is
  saves, removals,
  author,      \* history: what the author last made of each file
  lapsed,      \* history: files whose last change nobody could notice
  gaps         \* history: pages that embedded a missing file when last scanned

tables == <<hashes, selfWrites, graph>>
authors == <<saves, removals, author, lapsed>>
watchVars == <<inPlace, disk, out, tables, watching, events, pending, job, authors, gaps>>

(***************************************************************************)
(* A file has text of its own, references to other files, text of other    *)
(* files pasted into it by a render in place, and outputs (0: none).       *)
(* Texts are numbered from 1; a piece with text 0 is an embed error.       *)
(***************************************************************************)
Absent == [own |-> 0, refs |-> {}, pasted |-> {}, drawn |-> 0]
Written(own, refs) == [own |-> own, refs |-> refs, pasted |-> {}, drawn |-> 0]

\* Every file that f embeds on disk d, directly or not: those in every set
\* that holds what f names and what its members name.
Closed(d, f, S) == d[f].refs \subseteq S /\ \A g \in S : d[g].refs \subseteq S
Reached(d, f) == { g \in Sources : \A S \in SUBSET Sources : Closed(d, f, S) => g \in S }

Present(S) == { g \in S : disk[g] # Absent }

\* expand_embeds, execute and render: embedded text takes the place of the
\* references, and code blocks compute something.
Rendered(d, f, draw) ==
  [own |-> d[f].own, refs |-> {}, drawn |-> draw,
   pasted |-> { <<g, d[g].own>> : g \in Reached(d, f) }
                \cup UNION { d[g].pasted : g \in Reached(d, f) \cup {f} }]

Output(f) == IF inPlace THEN disk[f] ELSE out[f]

\* collect_embed_targets.  A target that is missing is not recorded.
\* Mutant: only what the page itself names.
CollectDirect(f) == Present(disk[f].refs)
CollectEmbedTargets(f) == Present(Reached(disk, f))

(***************************************************************************)
(* File events.  Two of one file that wait together are taken for one.     *)
(***************************************************************************)
Noticed(f) == IF watching THEN events \cup {f} ELSE events

Idle == job.todo = {}
Subject(f) == f \in job.todo /\ \A g \in job.todo : Place[f] <= Place[g]

\* is_self_write_echo.  Mutant: every event counts.
EchoNever(f) == FALSE
IsSelfWriteEcho(f) == inPlace /\ selfWrites[f] # Absent /\ selfWrites[f] = disk[f]

Receive(f) ==
  /\ watching /\ Idle /\ f \in events
  /\ events' = events \ {f}
  /\ pending' = IF IsSelfWriteEcho(f) THEN pending ELSE pending \cup {f}
  /\ UNCHANGED <<inPlace, disk, out, tables, watching, job, authors, gaps>>

\* compute_render_set.  Mutant: a partial becomes a page.
RenderSetAll(changed) == changed \cup { f \in Pages : graph[f] \cap changed # {} }
ComputeRenderSet(changed) ==
  (changed \cap Pages) \cup { f \in Pages : graph[f] \cap changed # {} }

Rendering(S) == [todo |-> S, step |-> "next", made |-> Absent]

\* The window has passed without an event; it may be as short as 0 ms.
Flush ==
  /\ watching /\ Idle /\ pending # {}
  /\ job' = Rendering(ComputeRenderSet(pending))
  /\ pending' = {}
  /\ UNCHANGED <<inPlace, disk, out, tables, watching, events, authors, gaps>>

\* The first pass is over.
Install ==
  /\ ~watching /\ Idle
  /\ watching' = TRUE
  /\ UNCHANGED <<inPlace, disk, out, tables, events, pending, job, authors, gaps>>

(***************************************************************************)
(* render_one_with_tracking, and what the loop does after it.              *)
(***************************************************************************)
At(f, step) == Subject(f) /\ job.step = step
Turn == UNCHANGED <<inPlace, watching, pending, authors>>
NextPage(f) == Rendering(job.todo \ {f})

\* src.exists()
Gone(f) ==
  /\ At(f, "next") /\ disk[f] = Absent
  /\ job' = NextPage(f)
  /\ Turn /\ UNCHANGED <<disk, out, tables, events, gaps>>

Exists(f) ==
  /\ At(f, "next") /\ disk[f] # Absent
  /\ job' = [job EXCEPT !.step = "exists"]
  /\ Turn /\ UNCHANGED <<disk, out, tables, events, gaps>>

ReadSource(f) ==
  /\ At(f, "exists") /\ disk[f] # Absent
  /\ \E draw \in Draws :
       job' = [job EXCEPT !.step = "read", !.made = Rendered(disk, f, draw)]
  /\ Turn /\ UNCHANGED <<disk, out, tables, events, gaps>>

\* The file vanished meanwhile: nothing is written, the rest goes on.
ReadFails(f) ==
  /\ At(f, "exists") /\ disk[f] = Absent
  /\ job' = [job EXCEPT !.step = "written"]
  /\ Turn /\ UNCHANGED <<disk, out, tables, events, gaps>>

\* Not written if these bytes were written last, nor if the file holds them.
WriteOutput(f) ==
  /\ At(f, "read")
  /\ hashes' = [hashes EXCEPT ![f] = job.made]
  /\ \/ /\ job.made \in {hashes[f], Output(f)}
        /\ UNCHANGED <<disk, out, events>>
     \/ /\ job.made \notin {hashes[f], Output(f)}
        /\ disk' = IF inPlace THEN [disk EXCEPT ![f] = job.made] ELSE disk
        /\ out' = IF inPlace THEN out ELSE [out EXCEPT ![f] = job.made]
        /\ events' = IF inPlace THEN Noticed(f) ELSE events
  /\ job' = [job EXCEPT !.step = "written"]
  /\ Turn /\ UNCHANGED <<selfWrites, graph, gaps>>

\* The source is read once more, for its embeds.
Scan(f) ==
  /\ At(f, "written")
  /\ graph' = [graph EXCEPT ![f] = CollectEmbedTargets(f)]
  /\ gaps' = IF Reached(disk, f) \subseteq Present(Sources) THEN gaps \ {f} ELSE gaps \cup {f}
  /\ job' = [job EXCEPT !.step = "scanned"]
  /\ Turn /\ UNCHANGED <<disk, out, hashes, selfWrites, events>>

\* The output is read back and its hash recorded.
Record(f) ==
  /\ At(f, "scanned")
  /\ selfWrites' = IF inPlace /\ disk[f] # Absent
                   THEN [selfWrites EXCEPT ![f] = disk[f]] ELSE selfWrites
  /\ job' = NextPage(f)
  /\ Turn /\ UNCHANGED <<disk, out, hashes, graph, events, gaps>>

(***************************************************************************)
(* Authors.  Nobody can notice a change before the watcher is installed;   *)
(* in place, one that comes between the read and the hash of a render is   *)
(* overwritten or taken for the watcher's own; and in place, text saved    *)
(* again without its outputs is not written again if it was rendered last  *)
(* (hashes), and is taken for an echo if a render recorded it so.          *)
(***************************************************************************)
Unnoticed(f, content) ==
  \/ ~watching
  \/ inPlace /\ Subject(f) /\ job.step \in {"read", "written", "scanned"}
  \/ inPlace /\ f \in Pages /\ content.own = hashes[f].own
  \/ inPlace /\ content = selfWrites[f] /\ content.drawn = 0

Change(f, content) ==
  /\ content # disk[f]
  /\ disk' = [disk EXCEPT ![f] = content]
  /\ events' = Noticed(f)
  /\ author' = [author EXCEPT ![f] = content]
  /\ lapsed' = IF Unnoticed(f, content) THEN lapsed \cup {f} ELSE lapsed \ {f}
  /\ UNCHANGED <<inPlace, out, tables, watching, pending, job, gaps>>

\* New text in what the file holds now, or the author's own copy.
Save(f) ==
  /\ saves < MaxSaves
  /\ saves' = saves + 1
  /\ \/ disk[f] # Absent /\ Change(f, [disk[f] EXCEPT !.own = saves + 2])
     \/ \E own \in {author[f].own, saves + 2} \ {0} : \E refs \in Bodies[f] :
          Change(f, Written(own, refs))
  /\ UNCHANGED removals

Unlink(f) ==
  /\ removals < MaxRemovals
  /\ removals' = removals + 1
  /\ Change(f, Absent)
  /\ UNCHANGED saves

(***************************************************************************)
(* The specification.                                                      *)
(***************************************************************************)
WatchInit ==
  /\ inPlace \in BOOLEAN
  /\ disk = [f \in Sources |-> Written(1, Embeds[f])]
  /\ out = [f \in Pages |-> Absent]
  /\ hashes = [f \in Pages |-> Absent]
  /\ selfWrites = [f \in Sources |-> Absent]
  /\ graph = [f \in Pages |-> {}]
  /\ watching = FALSE
  /\ events = {}
  /\ pending = {}
  /\ job = Rendering(Pages)
  /\ saves = 0 /\ removals = 0
  /\ author = disk
  /\ lapsed = {}
  /\ gaps = {}

RenderOne(f) == \/ Gone(f) \/ Exists(f) \/ ReadSource(f) \/ ReadFails(f)
                \/ WriteOutput(f) \/ Scan(f) \/ Record(f)
Loop == (\E f \in Sources : Receive(f) \/ RenderOne(f)) \/ Flush \/ Install
WatchNext == Loop \/ (\E f \in Sources : Save(f) \/ Unlink(f))

\* The loop is one thread that never waits for an author.
WatchSpec == WatchInit /\ [][WatchNext]_watchVars /\ WF_watchVars(Loop)

(***************************************************************************)
(* Properties.                                                             *)
(***************************************************************************)
Contents ==
  [own : 0..(MaxSaves + 1), refs : SUBSET Sources,
   pasted : SUBSET (Sources \X (0..(MaxSaves + 1))), drawn : Draws \cup {0}]

(* Every variable keeps its type.  Only pages are rendered, and with a     *)
(* destination elsewhere no source is touched.                             *)
WatchTypeOK ==
  /\ inPlace \in BOOLEAN /\ watching \in BOOLEAN
  /\ disk \in [Sources -> Contents] /\ author \in [Sources -> Contents]
  /\ out \in [Pages -> Contents] /\ hashes \in [Pages -> Contents]
  /\ selfWrites \in [Sources -> Contents] /\ graph \in [Pages -> SUBSET Sources]
  /\ events \subseteq Sources /\ pending \subseteq Sources
  /\ lapsed \subseteq Sources /\ gaps \subseteq Pages
  /\ job \in [todo : SUBSET Pages, made : Contents,
             step : {"next", "exists", "read", "written", "scanned"}]
  /\ saves \in 0..MaxSaves /\ removals \in 0..MaxRemovals
  /\ ~inPlace => disk = author

Settled == watching /\ Idle /\ pending = {} /\ events = {}

(* When the loop has come to rest, a page rendered elsewhere shows the     *)
(* text its source and every file it embeds, directly or not, now has, and *)
(* a page rendered in place has the author's last text, with outputs       *)
(* (compute_render_set, collect_embed_targets, is_self_write_echo).        *)
(* Exempt are changes nobody could notice and embeds of missing files.     *)
Current(f) ==
  IF inPlace
  THEN disk[f].own = author[f].own /\ disk[f].drawn # 0
  ELSE out[f] = Rendered(disk, f, out[f].drawn) /\ out[f].drawn # 0
SettledCurrent ==
  Settled => \A f \in Pages :
    \/ disk[f] = Absent
    \/ f \in lapsed
    \/ ~inPlace /\ (f \in gaps \/ Reached(disk, f) \cap lapsed # {})
    \/ Current(f)

(* Once the authors stop, the loop comes to rest: its own writes do not    *)
(* keep it going, whatever the notebooks draw ("Stop the runaway-loop      *)
(* family of bugs", docs/notebooks.md:50).                                 *)
Quiesces == <>[]Settled

=============================================================================
