-------------------------- MODULE RenderLoopProof ---------------------------
(***************************************************************************)
(* Proofs about RenderLoop, for every number of blocks and every bound on  *)
(* edits, drags, runs and panics.                                          *)
(***************************************************************************)
EXTENDS RenderLoop, TLAPS

USE BoundsAssumption

LEMMA TaskType == ASSUME Renders, NEW g \in Live PROVE task[g] \in Task /\ g \in 1..gen
  BY DEF Renders, Live

LEMMA MergeType ==
  ASSUME NEW a \in RenderRequest, NEW b \in RenderRequest
  PROVE  MergePending(a, b) \in RenderRequest
  BY DEF RenderRequest, MergePending, MergeForce

(* The flags, apart from the rest of the types: no arithmetic.             *)
LEMMA FlagsInit == Init => Flags
  BY Zenon DEF Init, Flags

LEMMA FlagsNext == Flags /\ [Next]_vars => Flags'
<1> SUFFICES ASSUME Flags, [Next]_vars PROVE Flags'
  OBVIOUS
<1> USE DEF Flags, fileVars, queueVars, loopVars, pageVars
<1>1. CASE EditorUnlink \/ EditorWrite
  BY <1>1, Zenon DEF EditorUnlink, EditorWrite, WriteSource
<1>2. CASE StartWatching \/ Bridge \/ WidgetUpdate
  BY <1>2, Zenon DEF StartWatching, Bridge, WidgetUpdate
<1>3. ASSUME NEW k \in 0..(Blocks - 1), RunBlock(k) \/ SaveRunBlock(k) PROVE Flags'
  BY <1>3, Zenon DEF RunBlock, SaveRunBlock, WriteSource, RequestRun
<1>4. CASE SaveRunRequest \/ SaveRunDropped
  BY <1>4, Zenon DEF SaveRunRequest, SaveRunDropped, RequestRun
<1>5. CASE Receive \/ ScheduleRender
  BY <1>5, Zenon DEF Receive, ScheduleRender
<1>6. ASSUME NEW g \in Live, RenderStep(g) \/ PanicRender(g) PROVE Flags'
  <2>1. CASE SnapshotWidgets(g) \/ BeginRender(g) \/ BeginPoisoned(g)
    BY <2>1, Zenon DEF SnapshotWidgets, BeginRender, BeginPoisoned
  <2>2. CASE FinishRender(g) \/ PreemptRender(g) \/ PanicRender(g)
    BY <2>2, Zenon DEF FinishRender, PreemptRender, PanicRender, EndRender
  <2>3. CASE AbandonRender(g) \/ ReportError(g) \/ Publish(g)
    BY <2>3, Zenon DEF AbandonRender, ReportError, Publish, StatusDone, Leave
  <2> QED BY <1>6, <2>1, <2>2, <2>3 DEF RenderStep
<1>7. CASE UNCHANGED vars
  BY <1>7, Zenon DEF vars
<1> QED
  BY <1>1, <1>2, <1>3, <1>4, <1>5, <1>6, <1>7 DEF Next, Server, Environment

LEMMA CountersNext == Counters /\ [Next]_vars => Counters'
<1> SUFFICES ASSUME Counters, [Next]_vars PROVE Counters'
  OBVIOUS
<1> USE DEF Counters, fileVars, queueVars, loopVars, pageVars
<1>1. CASE EditorUnlink
  BY <1>1 DEF EditorUnlink, Notify
<1>2. CASE EditorWrite
  BY <1>2 DEF EditorWrite, WriteSource, Notify
<1>3. CASE StartWatching \/ Bridge
  BY SMTT(40), <1>3 DEF StartWatching, Bridge
<1>4. CASE WidgetUpdate
  BY <1>4 DEF WidgetUpdate
<1>5. ASSUME NEW k \in 0..(Blocks - 1), RunBlock(k) \/ SaveRunBlock(k) PROVE Counters'
  BY <1>5 DEF RunBlock, SaveRunBlock, WriteSource, Notify
<1>6. CASE SaveRunRequest \/ SaveRunDropped
  BY <1>6 DEF SaveRunRequest, SaveRunDropped, NoForce
<1>7. CASE Receive \/ ScheduleRender
  BY <1>7 DEF Receive, ScheduleRender
<1>8. ASSUME NEW g \in Live, RenderStep(g) \/ PanicRender(g) PROVE Counters'
  <2>1. CASE PanicRender(g)
    BY <2>1 DEF PanicRender, EndRender
  <2>2. CASE RenderStep(g)
    <3>1. UNCHANGED <<version, noticed, fsEvents, slider, saving, runs, panics>>
      BY <2>2, Zenon DEF RenderStep, SnapshotWidgets, BeginRender, BeginPoisoned, FinishRender,
         PreemptRender, EndRender, AbandonRender, ReportError, Publish, Leave
    <3> QED BY <3>1
  <2> QED BY <1>8, <2>1, <2>2
<1>9. CASE UNCHANGED vars
  BY <1>9 DEF vars
<1> QED
  BY <1>1, <1>2, <1>3, <1>4, <1>5, <1>6, <1>7, <1>8, <1>9 DEF Next, Server, Environment

LEMMA QueuesNext == Counters /\ Queues /\ [Next]_vars => Queues'
<1> SUFFICES ASSUME Counters, Queues, [Next]_vars PROVE Queues'
  OBVIOUS
<1> USE DEF Queues
<1>1. CASE Bridge
  <2>1. Rerender \in RenderRequest
    BY DEF Rerender, NoRequest, NoForce, RenderRequest
  <2> QED BY <1>1, <2>1 DEF Bridge
<1>2. CASE WidgetUpdate
  <2>1. [force |-> NoForce, flash |-> slider'] \in RenderRequest
    BY <1>2 DEF WidgetUpdate, Counters, NoForce, RenderRequest
  <2> QED BY <1>2, <2>1 DEF WidgetUpdate, RequestWidgetRender
<1>3. ASSUME NEW k \in 0..Blocks, RequestRun(k), UNCHANGED pending PROVE Queues'
  <2>1. [force |-> k, flash |-> 0] \in RenderRequest
    BY DEF RenderRequest
  <2> QED BY <1>3, <2>1 DEF RequestRun
<1>4. ASSUME NEW k \in 0..(Blocks - 1), RunBlock(k) PROVE Queues'
  BY <1>3, <1>4 DEF RunBlock
<1>5. CASE SaveRunRequest
  BY <1>3, <1>5 DEF SaveRunRequest, Counters
<1>6. CASE Receive
  <2>1. Head(inbox) \in RenderRequest /\ Tail(inbox) \in Seq(RenderRequest)
    BY <1>6 DEF Receive
  <2> QED BY <1>6, <2>1, MergeType DEF Receive
<1>7. CASE ScheduleRender
  BY <1>7 DEF ScheduleRender, Drained, NoRequest, NoForce, RenderRequest
<1>8. CASE UNCHANGED queueVars
  BY <1>8 DEF queueVars
<1>9. CASE EditorUnlink \/ EditorWrite \/ StartWatching \/ SaveRunDropped
  BY <1>8, <1>9, Zenon DEF EditorUnlink, EditorWrite, StartWatching, SaveRunDropped
<1>10. ASSUME NEW k \in 0..(Blocks - 1), SaveRunBlock(k) PROVE Queues'
  BY <1>8, <1>10, Zenon DEF SaveRunBlock
<1>11. ASSUME NEW g \in Live, RenderStep(g) \/ PanicRender(g) PROVE Queues'
  BY <1>8, <1>11, Zenon DEF RenderStep, SnapshotWidgets, BeginRender, BeginPoisoned,
     FinishRender, PreemptRender, PanicRender, EndRender, AbandonRender, ReportError,
     Publish, Leave
<1>12. CASE UNCHANGED vars
  BY <1>8, <1>12 DEF vars
<1> QED
  BY <1>1, <1>2, <1>4, <1>5, <1>6, <1>7, <1>9, <1>10, <1>11, <1>12
  DEF Next, Server, Environment

LEMMA RendersNext ==
  Counters /\ Queues /\ Renders /\ [Next]_vars => Renders'
<1> SUFFICES ASSUME Counters, Queues, Renders, [Next]_vars PROVE Renders'
  OBVIOUS
<1>1. CASE UNCHANGED loopVars
  BY <1>1 DEF loopVars, Renders, Live
<1>2. CASE ScheduleRender
  <2>1. Live' = Live \cup {gen + 1} /\ gen' = gen + 1
    BY <1>2 DEF ScheduleRender, Live, NextGeneration
  <2>2. Spawned(pending) \in Task
    BY DEF Spawned, Task, TaskState, RenderRequest, Queues
  <2>3. task' \in [Live' -> Task]
    BY <1>2, <2>1, <2>2 DEF ScheduleRender, NextGeneration, Renders
  <2> QED BY <1>2, <2>1, <2>3 DEF ScheduleRender, InFlight, Renders
<1>3. ASSUME NEW g \in Live, RenderStep(g) \/ PanicRender(g) PROVE Renders'
  <2> USE TaskType DEF Renders
  <2>1. CASE SnapshotWidgets(g)
    BY <2>1 DEF SnapshotWidgets, Live, Task, TaskState, Counters
  <2>2. CASE BeginRender(g)
    BY <2>2 DEF BeginRender, Live, Task, TaskState, Counters
  <2>3. CASE BeginPoisoned(g)
    BY <2>3 DEF BeginPoisoned, Live, Task, TaskState
  <2>4. CASE FinishRender(g)
    BY <2>4 DEF FinishRender, EndRender, Live, Task, TaskState
  <2>5. CASE PreemptRender(g)
    BY <2>5 DEF PreemptRender, EndRender, Live, Task, TaskState
  <2>6. CASE PanicRender(g)
    BY <2>6 DEF PanicRender, EndRender, Live, Task, TaskState
  <2>7. ASSUME Leave(g) PROVE Renders'
    BY <2>7 DEF Leave, Live
  <2>8. CASE AbandonRender(g) \/ ReportError(g) \/ Publish(g)
    BY <2>7, <2>8 DEF AbandonRender, ReportError, Publish
  <2> QED BY <1>3, <2>1, <2>2, <2>3, <2>4, <2>5, <2>6, <2>8 DEF RenderStep
<1>4. CASE \/ EditorUnlink \/ EditorWrite \/ StartWatching \/ Bridge \/ WidgetUpdate
           \/ SaveRunRequest \/ SaveRunDropped \/ Receive
  BY <1>1, <1>4, Zenon DEF EditorUnlink, EditorWrite, StartWatching, Bridge, WidgetUpdate,
     SaveRunRequest, SaveRunDropped, Receive
<1>5. ASSUME NEW k \in 0..(Blocks - 1), RunBlock(k) \/ SaveRunBlock(k) PROVE Renders'
  BY <1>1, <1>5, Zenon DEF RunBlock, SaveRunBlock
<1>6. CASE UNCHANGED vars
  BY <1>1, <1>6 DEF vars
<1> QED
  BY <1>2, <1>3, <1>4, <1>5, <1>6 DEF Next, Server, Environment

LEMMA PublishedNext ==
  Queues /\ Renders /\ Published /\ [Next]_vars => Published'
<1> SUFFICES ASSUME Queues, Renders, Published, [Next]_vars PROVE Published'
  OBVIOUS
<1>1. ASSUME UNCHANGED <<page, echoed, echoes>>, gen' = gen \/ gen' = gen + 1 PROVE Published'
  BY <1>1 DEF Published, Renders
<1>2. ASSUME NEW g \in Live, Publish(g) PROVE Published'
  BY <1>2, TaskType DEF Publish, Leave, Published, Renders, Task
<1>3. CASE ScheduleRender
  BY <1>1, <1>3 DEF ScheduleRender, NextGeneration, pageVars
<1>4. CASE \/ EditorUnlink \/ EditorWrite \/ StartWatching \/ Bridge \/ WidgetUpdate
           \/ SaveRunRequest \/ SaveRunDropped \/ Receive
  BY <1>1, <1>4, Zenon DEF EditorUnlink, EditorWrite, StartWatching, Bridge, WidgetUpdate,
     SaveRunRequest, SaveRunDropped, Receive, loopVars, pageVars
<1>5. ASSUME NEW k \in 0..(Blocks - 1), RunBlock(k) \/ SaveRunBlock(k) PROVE Published'
  BY <1>1, <1>5, Zenon DEF RunBlock, SaveRunBlock, loopVars, pageVars
<1>6. ASSUME NEW g \in Live, RenderStep(g) \/ PanicRender(g), ~Publish(g) PROVE Published'
  BY <1>1, <1>6, Zenon DEF RenderStep, SnapshotWidgets, BeginRender, BeginPoisoned,
     FinishRender, PreemptRender, PanicRender, EndRender, AbandonRender, ReportError,
     Leave, pageVars
<1>7. CASE UNCHANGED vars
  BY <1>1, <1>7, Zenon DEF vars, loopVars, pageVars
<1> QED
  BY <1>2, <1>3, <1>4, <1>5, <1>6, <1>7 DEF Next, Server, Environment

LEMMA DataInit == Init => Counters /\ Queues /\ Renders /\ Published
<1> SUFFICES ASSUME Init PROVE Counters /\ Queues /\ Renders /\ Published
  OBVIOUS
<1>1. Counters
  BY DEF Init, Counters, NoForce
<1>2. Queues
  BY DEF Init, Queues, RenderRequest, NoRequest, NoForce
<1>3. Renders
  BY DEF Init, Renders, Live
<1>4. Published
  BY DEF Init, Published
<1> QED BY <1>1, <1>2, <1>3, <1>4

-----------------------------------------------------------------------------
(* The steps outside the render tasks and the scheduler leave those alone. *)
Outside ==
  \/ EditorUnlink \/ EditorWrite \/ StartWatching \/ Bridge \/ WidgetUpdate
  \/ SaveRunRequest \/ SaveRunDropped \/ Receive
  \/ \E k \in 0..(Blocks - 1) : RunBlock(k) \/ SaveRunBlock(k)

TaskStep(g) == RenderStep(g) \/ PanicRender(g)

LEMMA NextCases ==
  [Next]_vars <=> \/ Outside \/ ScheduleRender \/ UNCHANGED vars
                  \/ \E g \in Live : TaskStep(g)
  BY DEF Next, Server, Environment, Outside, TaskStep

LEMMA OutsideLeaves == Outside => UNCHANGED loopVars /\ UNCHANGED <<page, echoed, echoes>>
  BY Zenon DEF Outside, EditorUnlink, EditorWrite, StartWatching, Bridge, WidgetUpdate,
     SaveRunRequest, SaveRunDropped, Receive, RunBlock, SaveRunBlock, pageVars

(* A step of a task either moves it to another state, keeping its request, *)
(* or ends it.                                                             *)
Moves(g) ==
  /\ Live' = Live /\ \A h \in Live \ {g} : task'[h] = task[h]
  /\ task'[g].flash = task[g].flash
  /\ task'[g].st # "spawned"
  /\ task'[g].slider = IF task[g].st = "spawned" THEN slider ELSE task[g].slider
  /\ \/ task[g].st = "queued" /\ task'[g].st = "running" /\ task'[g].ver = version
     \/ task'[g].ver = task[g].ver /\ task'[g].st # "running"
  /\ task'[g].st = "page" => task[g].st = "running"
  /\ UNCHANGED <<gen, slot, tripped, page, echoed, echoes, version, slider, inbox, pending>>

Ends(g) ==
  /\ Leave(g)
  /\ task[g].st \in {"page", "preempted", "error"}
  /\ UNCHANGED <<version, slider, inbox, pending>>
  /\ \/ UNCHANGED <<page, echoed, echoes>>
     \/ /\ gen = g /\ task[g].st = "page"
        /\ page' = [gen |-> g, ver |-> task[g].ver, slider |-> task[g].slider]
        /\ \/ UNCHANGED <<echoed, echoes>>
           \/ task[g].flash # 0 /\ echoed' = task[g].flash /\ echoes' = echoes + 1

LEMMA TaskStepCases ==
  ASSUME Renders, NEW g \in Live, TaskStep(g)
  PROVE  Moves(g) \/ Ends(g)
<1> USE TaskType DEF fileVars, queueVars, loopVars, pageVars
<1>1. CASE SnapshotWidgets(g)
  BY <1>1 DEF SnapshotWidgets, Moves, Live, Task, Renders
<1>2. CASE BeginRender(g)
  <2>1. CASE task' = [task EXCEPT ![g].st = "running", ![g].ver = version]
    BY <1>2, <2>1 DEF BeginRender, Moves, Live, Task, Renders
  <2>2. CASE task' = [task EXCEPT ![g].st = "error"]
    BY <1>2, <2>2 DEF BeginRender, Moves, Live, Task, Renders
  <2> QED BY <1>2, <2>1, <2>2 DEF BeginRender
<1>3. CASE BeginPoisoned(g)
  BY <1>3 DEF BeginPoisoned, Moves, Live, Task, Renders
<1>4. ASSUME NEW outcome \in {"page", "preempted", "error"}, EndRender(g, outcome) PROVE Moves(g)
  BY <1>4 DEF EndRender, Moves, Live, Task, Renders
<1>5. CASE FinishRender(g) \/ PreemptRender(g) \/ PanicRender(g)
  BY <1>4, <1>5 DEF FinishRender, PreemptRender, PanicRender
<1>6. CASE AbandonRender(g) \/ ReportError(g)
  BY <1>6 DEF AbandonRender, ReportError, Ends, Leave
<1>7. CASE Publish(g)
  BY <1>7 DEF Publish, IsStale, Ends, Leave
<1> QED BY <1>1, <1>2, <1>3, <1>5, <1>6, <1>7 DEF TaskStep, RenderStep

-----------------------------------------------------------------------------
(* The prefix-cache lock.                                                  *)

LEMMA LockNext == Renders /\ LockOwned /\ [Next]_vars => LockOwned'
<1> SUFFICES ASSUME Renders, LockOwned, [Next]_vars PROVE LockOwned'
  OBVIOUS
<1> USE DEF LockOwned, LockHeldWhileRunning, Live
<1>1. CASE UNCHANGED loopVars
  BY <1>1 DEF loopVars
<1>2. CASE ScheduleRender
  BY <1>2 DEF ScheduleRender, NextGeneration, Spawned, Renders
<1>3. ASSUME NEW g \in Live, TaskStep(g) PROVE LockOwned'
  <2> USE DEF Renders
  <2>1. CASE SnapshotWidgets(g)
    BY <2>1 DEF SnapshotWidgets
  <2>2. CASE BeginRender(g)
    <3>1. g # 0 /\ holder = 0
      BY <2>2 DEF BeginRender, CacheFree
    <3>2. CASE /\ task' = [task EXCEPT ![g].st = "running", ![g].ver = version]
               /\ holder' = g
      <4>1. Live' = Live /\ task'[g].st = "running"
        BY <3>2, TaskType DEF Task
      <4>2. \A h \in Live : h # g => task'[h] = task[h]
        BY <3>2
      <4> QED BY <3>1, <3>2, <4>1, <4>2
    <3>3. CASE task' = [task EXCEPT ![g].st = "error"] /\ holder' = holder
      BY <3>1, <3>3
    <3> QED BY <2>2, <3>2, <3>3 DEF BeginRender
  <2>3. CASE BeginPoisoned(g)
    BY <2>3 DEF BeginPoisoned
  <2>4. ASSUME NEW outcome \in {"page", "preempted", "error"}, EndRender(g, outcome)
        PROVE  LockOwned'
    BY <2>4 DEF EndRender
  <2>5. CASE FinishRender(g) \/ PreemptRender(g) \/ PanicRender(g)
    BY <2>4, <2>5 DEF FinishRender, PreemptRender, PanicRender
  <2>6. ASSUME Ends(g) PROVE LockOwned'
    BY <2>6 DEF Ends, Leave
  <2>7. CASE AbandonRender(g) \/ ReportError(g)
    BY <2>6, <2>7 DEF AbandonRender, ReportError, Ends, Leave, pageVars, fileVars, queueVars
  <2>8. CASE Publish(g)
    BY <2>6, <2>8 DEF Publish, IsStale, Ends, Leave, fileVars, queueVars
  <2> QED BY <1>3, <2>1, <2>2, <2>3, <2>5, <2>7, <2>8 DEF TaskStep, RenderStep
<1>4. UNCHANGED vars => UNCHANGED loopVars
  BY DEF vars
<1> QED BY <1>1, <1>2, <1>3, <1>4, NextCases, OutsideLeaves

(* Every reachable state of the render loop is well typed, and the cache   *)
(* lock is held exactly while a render runs.                               *)
THEOREM TypeCorrect == Spec => []TypeOK
<1>1. Init => TypeOK
  <2>1. Init => LockOwned
    BY DEF Init, LockOwned, LockHeldWhileRunning, Live
  <2> QED BY <2>1, FlagsInit, DataInit DEF TypeOK
<1>2. TypeOK /\ [Next]_vars => TypeOK'
  BY FlagsNext, CountersNext, QueuesNext, RendersNext, PublishedNext, LockNext DEF TypeOK
<1> QED BY <1>1, <1>2, PTL DEF Spec

(* Two renders of one notebook never run at once: whoever runs holds the   *)
(* cache lock, and it is given back on every way out, a panic included.    *)
THEOREM RendersSerialised == Spec => []LockHeldWhileRunning
<1>1. TypeOK => LockHeldWhileRunning
  BY DEF TypeOK, LockOwned
<1> QED BY <1>1, TypeCorrect, PTL

-----------------------------------------------------------------------------
(* Preemption.                                                             *)

LEMMA SlotNext ==
  Renders /\ SlotOwned /\ OnlyNewestRuns /\ [Next]_vars
    => SlotOwned' /\ OnlyNewestRuns'
<1> SUFFICES ASSUME Renders, SlotOwned, OnlyNewestRuns, [Next]_vars
             PROVE  SlotOwned' /\ OnlyNewestRuns'
  OBVIOUS
<1> USE DEF SlotOwned, OnlyNewestRuns, Live
<1>1. CASE UNCHANGED loopVars
  BY <1>1 DEF loopVars
<1>2. CASE ScheduleRender
  BY <1>2 DEF ScheduleRender, NextGeneration, InFlight, Renders
<1>3. ASSUME NEW g \in Live, Moves(g) PROVE SlotOwned' /\ OnlyNewestRuns'
  BY <1>3 DEF Moves
<1>4. ASSUME NEW g \in Live, Ends(g) PROVE SlotOwned' /\ OnlyNewestRuns'
  BY <1>4 DEF Ends, Leave, Renders
<1>5. UNCHANGED vars => UNCHANGED loopVars
  BY DEF vars
<1> QED BY <1>1, <1>2, <1>3, <1>4, <1>5, NextCases, OutsideLeaves, TaskStepCases

(* At any moment every live render but the newest has its cancel flag set, *)
(* whatever was saved, dragged or run, and however many times.             *)
THEOREM PreemptionReachesAll == Spec => []OnlyNewestRuns
<1>1. Init => SlotOwned /\ OnlyNewestRuns
  BY DEF Init, SlotOwned, OnlyNewestRuns, Live
<1>2. (TypeOK /\ SlotOwned /\ OnlyNewestRuns) /\ [Next]_vars
        => SlotOwned' /\ OnlyNewestRuns'
  BY SlotNext DEF TypeOK
<1> QED BY <1>1, <1>2, TypeCorrect, PTL DEF Spec

-----------------------------------------------------------------------------
(* Publishing.                                                             *)

LEMMA InputsGrow ==
  ASSUME Counters, Outside PROVE version' >= version /\ slider' >= slider
<1> USE DEF Counters, fileVars
<1>1. CASE \/ EditorUnlink \/ StartWatching \/ Bridge \/ SaveRunRequest
           \/ SaveRunDropped \/ Receive \/ \E k \in 0..(Blocks - 1) : RunBlock(k)
  BY <1>1 DEF EditorUnlink, StartWatching, Bridge, SaveRunRequest, SaveRunDropped,
     Receive, RunBlock
<1>2. CASE EditorWrite \/ WidgetUpdate \/ \E k \in 0..(Blocks - 1) : SaveRunBlock(k)
  BY <1>2 DEF EditorWrite, WidgetUpdate, SaveRunBlock, WriteSource
<1> QED BY <1>1, <1>2 DEF Outside

LEMMA AheadNext ==
  ASSUME TypeOK, AheadOfPage, [Next]_vars
  PROVE  AheadOfPage' /\ (PageForward \/ UNCHANGED vars)
<1>0. /\ version \in Nat /\ slider \in Nat /\ version' \in Nat /\ slider' \in Nat
      /\ gen \in Nat /\ page.gen \in 0..gen /\ page.ver \in Nat /\ page.slider \in Nat
      /\ \A g \in Live : g \in 1..gen /\ task[g].ver \in Nat /\ task[g].slider \in Nat
  <2>1. Counters /\ Counters' /\ Renders /\ Published
    BY CountersNext DEF TypeOK
  <2> QED BY <2>1, TaskType DEF Counters, Renders, Published, Task
<1>1. CASE Outside
  <2>1. UNCHANGED <<page, task>> /\ version' >= version /\ slider' >= slider
    BY <1>1, OutsideLeaves, InputsGrow DEF loopVars, TypeOK
  <2> QED BY <1>0, <2>1 DEF AheadOfPage, PageForward, Live
<1>2. CASE ScheduleRender
  <2>1. UNCHANGED <<page, version, slider>>
    BY <1>2 DEF ScheduleRender, pageVars, fileVars
  <2>2. Live' = Live \cup {gen + 1} /\ \A g \in Live : task'[g] = task[g]
    BY <1>0, <1>2 DEF ScheduleRender, NextGeneration, Live
  <2>3. /\ task'[gen + 1].st = "spawned"
        /\ task'[gen + 1].ver = 0 /\ task'[gen + 1].slider = 0
    BY <1>0, <1>2 DEF ScheduleRender, NextGeneration, Spawned
  <2> QED BY <1>0, <2>1, <2>2, <2>3 DEF AheadOfPage, PageForward
<1>3. ASSUME NEW g \in Live, Moves(g) PROVE AheadOfPage' /\ PageForward
  BY <1>0, <1>3 DEF Moves, AheadOfPage, PageForward
<1>4. ASSUME NEW g \in Live, Ends(g) PROVE AheadOfPage' /\ PageForward
  <2>1. /\ Live' = Live \ {g} /\ \A h \in Live' : task'[h] = task[h]
        /\ UNCHANGED <<version, slider>>
    BY <1>4 DEF Ends, Leave, Live
  <2>2. CASE UNCHANGED page
    BY <1>0, <2>1, <2>2 DEF AheadOfPage, PageForward
  <2>3. CASE /\ gen = g /\ task[g].st = "page"
             /\ page' = [gen |-> g, ver |-> task[g].ver, slider |-> task[g].slider]
    <3>1. /\ page'.gen = g /\ page'.ver = task[g].ver /\ page'.slider = task[g].slider
          /\ g > page.gen /\ task[g].ver >= page.ver /\ task[g].slider >= page.slider
      BY <1>0, <2>3 DEF AheadOfPage
    <3>2. ASSUME NEW h \in Live' PROVE h < g
      <4>1. h \in Live /\ h # g
        BY <2>1
      <4>2. gen \in Nat /\ h \in 1..gen
        BY <1>0, <4>1
      <4>3. gen = g
        BY <2>3
      <4> QED BY <4>1, <4>2, <4>3
    <3> QED BY <1>0, <2>1, <3>1, <3>2 DEF AheadOfPage, PageForward
  <2> QED BY <1>4, <2>2, <2>3 DEF Ends
<1>5. CASE UNCHANGED vars
  BY <1>5 DEF AheadOfPage, Live, vars, fileVars, loopVars, pageVars
<1> QED BY <1>1, <1>2, <1>3, <1>4, <1>5, NextCases, TaskStepCases DEF TypeOK

(* The published page never goes back to an older render, an older source  *)
(* or an older slider value, in whatever order the renders finish.         *)
THEOREM StaleNeverPublishes == Spec => NeverBackwards
<1>1. Init => AheadOfPage
  BY DEF Init, AheadOfPage, Live
<1>2. TypeOK /\ AheadOfPage /\ [Next]_vars => AheadOfPage' /\ [PageForward]_vars
  BY AheadNext
<1> QED BY <1>1, <1>2, TypeCorrect, PTL DEF Spec, NeverBackwards

-----------------------------------------------------------------------------
(* Flash ids.  What a step outside the tasks does to the requests: nothing,*)
(* one more of them, or the first moves into the window.                   *)
Waits == UNCHANGED <<inbox, pending>> /\ slider' \in Nat /\ slider' >= slider

Arrives ==
  /\ UNCHANGED pending
  /\ \E r \in RenderRequest :
       /\ inbox' = Append(inbox, r)
       /\ \/ r.flash = 0 /\ slider' = slider
          \/ r.flash = slider + 1 /\ slider' = slider + 1

Merges ==
  /\ inbox # <<>> /\ inbox' = Tail(inbox) /\ slider' = slider
  /\ pending'.flash \in {Head(inbox).flash, pending.flash}
  /\ Head(inbox).flash # 0 => pending'.flash = Head(inbox).flash

LEMMA OutsideRequests ==
  ASSUME Counters, Queues, Outside PROVE Waits \/ Arrives \/ Merges
<1> USE DEF fileVars, queueVars
<1>1. CASE EditorUnlink \/ EditorWrite \/ StartWatching \/ SaveRunDropped
  BY <1>1 DEF EditorUnlink, EditorWrite, StartWatching, SaveRunDropped, Waits, Counters
<1>2. ASSUME NEW k \in 0..(Blocks - 1), SaveRunBlock(k) PROVE Waits
  BY <1>2 DEF SaveRunBlock, Waits, Counters
<1>3. CASE Bridge
  <2>1. Rerender \in RenderRequest /\ Rerender.flash = 0
    BY DEF Rerender, NoRequest, NoForce, RenderRequest
  <2> QED BY <1>3, <2>1 DEF Bridge, Arrives
<1>4. CASE WidgetUpdate
  <2>1. [force |-> NoForce, flash |-> slider'] \in RenderRequest
    BY <1>4 DEF WidgetUpdate, Counters, NoForce, RenderRequest
  <2> QED BY <1>4, <2>1 DEF WidgetUpdate, RequestWidgetRender, Arrives
<1>5. ASSUME NEW k \in 0..Blocks, RequestRun(k), UNCHANGED <<pending, slider>> PROVE Arrives
  <2>1. [force |-> k, flash |-> 0] \in RenderRequest
    BY DEF RenderRequest
  <2> QED BY <1>5, <2>1 DEF RequestRun, Arrives
<1>6. ASSUME NEW k \in 0..(Blocks - 1), RunBlock(k) PROVE Arrives
  BY <1>5, <1>6 DEF RunBlock
<1>7. CASE SaveRunRequest
  BY <1>5, <1>7 DEF SaveRunRequest, Counters
<1>8. CASE Receive
  <2>1. MergePending(pending, Head(inbox)).flash
          = IF Head(inbox).flash # 0 THEN Head(inbox).flash ELSE pending.flash
    BY DEF MergePending
  <2> QED BY <1>8, <2>1 DEF Receive, Merges
<1> QED BY <1>1, <1>2, <1>3, <1>4, <1>6, <1>7, <1>8 DEF Outside

LEMMA FlashTypes ==
  ASSUME TypeOK
  PROVE  /\ slider \in Nat /\ echoed \in Nat /\ pending.flash \in Nat
         /\ gen \in Nat /\ page.gen \in 0..gen
         /\ inbox \in Seq(RenderRequest)
         /\ \A i \in 1..Len(inbox) : inbox[i].flash \in Nat
         /\ \A g \in Live : g \in 1..gen /\ task[g].flash \in Nat /\ task[g].slider \in Nat
<1>1. Counters /\ Queues /\ Renders /\ Published
  BY DEF TypeOK
<1>2. \A i \in 1..Len(inbox) : inbox[i] \in RenderRequest
  BY <1>1 DEF Queues
<1> QED BY <1>1, <1>2, TaskType DEF Counters, Queues, Renders, Published, Task, RenderRequest

LEMMA FlashOutside ==
  ASSUME TypeOK, FlashOrder, Outside PROVE FlashOrder' /\ UNCHANGED <<echoed, echoes>>
<1> USE FlashTypes DEF FlashOrder, NotReached
<1>1. UNCHANGED <<task, page, echoed, echoes>> /\ Live' = Live
  BY OutsideLeaves DEF loopVars, Live
<1>2. Waits \/ Arrives \/ Merges
  BY OutsideRequests DEF TypeOK
<1>3. slider' \in Nat /\ slider' >= slider
  BY <1>2 DEF Waits, Arrives, Merges
<1>4. TaskFlashes'
  BY <1>1, <1>3 DEF TaskFlashes
<1>5. CASE Waits
  BY <1>1, <1>3, <1>4, <1>5 DEF Waits, InboxFlashes, PendingFlash
<1>6. CASE Arrives
  <2>1. PICK r \in RenderRequest :
          /\ inbox' = Append(inbox, r)
          /\ \/ r.flash = 0 /\ slider' = slider
             \/ r.flash = slider + 1 /\ slider' = slider + 1
    BY <1>6 DEF Arrives
  <2>2. /\ Len(inbox') = Len(inbox) + 1 /\ inbox'[Len(inbox) + 1] = r
        /\ \A i \in 1..Len(inbox) : inbox'[i] = inbox[i]
    BY <2>1
  <2>3. PendingFlash' /\ pending' = pending
    BY <1>1, <1>3, <1>6 DEF Arrives, PendingFlash
  <2>4. ASSUME NEW i \in 1..Len(inbox'), inbox'[i].flash # 0
        PROVE  /\ inbox'[i].flash <= slider' /\ inbox'[i].flash > pending'.flash
               /\ NotReached(inbox'[i].flash)
               /\ \A j \in 1..(i - 1) : inbox'[i].flash > inbox'[j].flash
    <3>1. CASE i <= Len(inbox)
      <4>1. i \in 1..Len(inbox) /\ 1..(i - 1) \subseteq 1..Len(inbox)
        BY <3>1
      <4>2. inbox'[i] = inbox[i] /\ \A j \in 1..(i - 1) : inbox'[j] = inbox[j]
        BY <2>2, <4>1
      <4>3. /\ inbox[i].flash <= slider /\ inbox[i].flash > pending.flash
            /\ NotReached(inbox[i].flash)
            /\ \A j \in 1..(i - 1) : inbox[i].flash > inbox[j].flash
        BY <2>4, <4>1, <4>2 DEF InboxFlashes
      <4>4. inbox[i].flash <= slider'
        BY <1>3, <4>1, <4>3
      <4> HIDE DEF NotReached
      <4> QED BY <2>3, <4>2, <4>3, <4>4
    <3>2. CASE i = Len(inbox) + 1
      <4>1. inbox'[i].flash = slider + 1 /\ slider' = slider + 1
        BY <2>1, <2>2, <2>4, <3>2
      <4>2. pending.flash <= slider
        BY DEF PendingFlash
      <4>3. \A j \in 1..Len(inbox) : inbox[j].flash <= slider
        BY DEF InboxFlashes
      <4>4. echoed <= slider /\ \A g \in Live : task[g].flash <= slider
        BY DEF TaskFlashes
      <4>5. NotReached(slider + 1)
        BY <4>4
      <4>6. 1..(i - 1) = 1..Len(inbox)
        BY <3>2
      <4>7. \A j \in 1..(i - 1) : slider + 1 > inbox'[j].flash
        BY SMTT(40), <2>2, <4>3, <4>6
      <4>8. slider + 1 > pending.flash
        BY <2>4, <4>1, <4>2
      <4> HIDE DEF NotReached
      <4> QED BY <2>3, <4>1, <4>5, <4>7, <4>8
    <3> QED BY <2>2, <2>4, <3>1, <3>2
  <2>5. InboxFlashes'
    BY <1>1, <2>4 DEF InboxFlashes
  <2> QED BY <1>1, <1>4, <2>3, <2>5
<1>7. CASE Merges
  <2>1. /\ inbox # <<>> /\ Len(inbox) >= 1 /\ Head(inbox) = inbox[1]
        /\ Len(inbox') = Len(inbox) - 1
        /\ \A i \in 1..Len(inbox') : inbox'[i] = inbox[i + 1] /\ i + 1 \in 1..Len(inbox)
    BY <1>7 DEF Merges
  <2>2. /\ slider' = slider /\ pending'.flash \in {inbox[1].flash, pending.flash}
        /\ inbox[1].flash # 0 => pending'.flash = inbox[1].flash
    BY <1>7, <2>1 DEF Merges
  <2>3. PendingFlash'
    BY <1>1, <2>1, <2>2 DEF PendingFlash, InboxFlashes
  <2>4. ASSUME NEW i \in 1..Len(inbox'), inbox'[i].flash # 0
        PROVE  /\ inbox'[i].flash <= slider' /\ inbox'[i].flash > pending'.flash
               /\ NotReached(inbox'[i].flash)
               /\ \A j \in 1..(i - 1) : inbox'[i].flash > inbox'[j].flash
    <3>1. i + 1 \in 1..Len(inbox) /\ inbox'[i] = inbox[i + 1] /\ 1 \in 1..((i + 1) - 1)
      BY <2>1
    <3>2. /\ inbox[i + 1].flash <= slider /\ inbox[i + 1].flash > pending.flash
          /\ NotReached(inbox[i + 1].flash)
          /\ \A j \in 1..((i + 1) - 1) : inbox[i + 1].flash > inbox[j].flash
      BY <2>4, <3>1 DEF InboxFlashes
    <3>3. inbox[i + 1].flash > inbox[1].flash
      BY <3>1, <3>2
    <3>4. ASSUME NEW j \in 1..(i - 1) PROVE inbox'[i].flash > inbox'[j].flash
      <4>1. j \in 1..Len(inbox') /\ j + 1 \in 1..((i + 1) - 1)
        BY <2>1
      <4> QED BY <2>1, <3>1, <3>2, <4>1
    <3> QED BY <2>2, <3>1, <3>2, <3>3, <3>4
  <2>5. InboxFlashes'
    BY <1>1, <2>4 DEF InboxFlashes
  <2> QED BY <1>1, <1>4, <2>3, <2>5
<1> QED BY <1>1, <1>2, <1>5, <1>6, <1>7

LEMMA FlashNext ==
  ASSUME TypeOK, AheadOfPage, FlashOrder, [Next]_vars
  PROVE  FlashOrder' /\ (EchoForward \/ UNCHANGED vars)
<1> USE FlashTypes DEF FlashOrder, NotReached, EchoForward
<1>1. CASE Outside
  BY <1>1, FlashOutside
<1>2. CASE ScheduleRender
  <2>1. /\ UNCHANGED <<page, echoed, echoes, slider, inbox>> /\ pending' = NoRequest
        /\ task'[gen + 1] = Spawned(pending)
        /\ Live' = Live \cup {gen + 1} /\ \A g \in Live : task'[g] = task[g]
    BY <1>2 DEF ScheduleRender, Drained, NextGeneration, Live, pageVars
  <2>2. task'[gen + 1].flash = pending.flash /\ task'[gen + 1].st = "spawned"
    BY <2>1 DEF Spawned
  <2>3. pending'.flash = 0
    BY <2>1 DEF NoRequest
  <2>4. InboxFlashes'
    <3> SUFFICES ASSUME NEW i \in 1..Len(inbox), inbox[i].flash # 0
                 PROVE  /\ inbox[i].flash <= slider /\ inbox[i].flash > pending'.flash
                        /\ NotReached(inbox[i].flash)'
                        /\ \A j \in 1..(i - 1) : inbox[i].flash > inbox[j].flash
      BY <2>1, Zenon DEF InboxFlashes
    <3>1. /\ inbox[i].flash <= slider /\ inbox[i].flash > pending.flash
          /\ NotReached(inbox[i].flash)
          /\ \A j \in 1..(i - 1) : inbox[i].flash > inbox[j].flash
      BY DEF InboxFlashes
    <3>2. inbox[i].flash \in Nat /\ inbox[i].flash > 0
      OBVIOUS
    <3>3. inbox[i].flash > echoed' /\ \A g \in Live' : inbox[i].flash > task'[g].flash
      <4> SUFFICES ASSUME NEW g \in Live' PROVE inbox[i].flash > task'[g].flash
        BY <2>1, <3>1
      <4>1. CASE g \in Live
        BY <2>1, <3>1, <4>1
      <4>2. CASE g = gen + 1
        BY <2>2, <3>1, <4>2
      <4> QED BY <2>1, <4>1, <4>2
    <3>4. NotReached(inbox[i].flash)'
      BY <2>1, <3>3
    <3> HIDE DEF NotReached
    <3> QED BY <2>3, <3>1, <3>2, <3>4
  <2>5. PendingFlash'
    BY <2>3 DEF PendingFlash
  <2>6. TaskFlashes'
    <3>1. pending.flash <= slider /\ (pending.flash # 0 => NotReached(pending.flash))
      BY DEF PendingFlash, TaskFlashes
    <3>2. \A g \in Live : g < gen + 1
      OBVIOUS
    <3> QED BY SMTT(40), <2>1, <2>2, <3>1, <3>2 DEF TaskFlashes
  <2> QED BY <2>1, <2>4, <2>5, <2>6
<1>3. ASSUME NEW g \in Live, Moves(g) PROVE FlashOrder' /\ EchoForward
  <2>1. /\ UNCHANGED <<page, echoed, echoes, slider, inbox, pending>> /\ Live' = Live
        /\ \A h \in Live : task'[h].flash = task[h].flash
        /\ \A h \in Live \ {g} : task'[h] = task[h]
    BY <1>3 DEF Moves
  <2>2. InboxFlashes' /\ PendingFlash'
    BY <2>1 DEF InboxFlashes, PendingFlash
  <2>3. task'[g].flash <= task'[g].slider
    BY <1>3 DEF Moves, TaskFlashes
  <2>4. TaskFlashes'
    BY <2>1, <2>3 DEF TaskFlashes
  <2> QED BY <2>1, <2>2, <2>4
<1>4. ASSUME NEW g \in Live, Ends(g) PROVE FlashOrder' /\ EchoForward
  <2>1. /\ UNCHANGED <<slider, inbox, pending>> /\ Live' = Live \ {g}
        /\ \A h \in Live' : h \in Live /\ task'[h] = task[h]
    BY <1>4 DEF Ends, Leave, Live
  <2>2. CASE UNCHANGED <<page, echoed, echoes>>
    BY <2>1, <2>2 DEF InboxFlashes, PendingFlash, TaskFlashes
  <2>3. CASE /\ gen = g /\ task[g].st = "page"
             /\ page' = [gen |-> g, ver |-> task[g].ver, slider |-> task[g].slider]
             /\ \/ UNCHANGED <<echoed, echoes>>
                \/ task[g].flash # 0 /\ echoed' = task[g].flash /\ echoes' = echoes + 1
    <3>1. page'.gen = gen /\ page'.slider = task[g].slider /\ g > page.gen
      BY <2>3 DEF AheadOfPage
    <3>2. /\ echoed <= slider /\ task[g].flash <= slider /\ task[g].flash <= task[g].slider
          /\ task[g].flash # 0 => task[g].flash > echoed
      BY <2>3, <3>1 DEF TaskFlashes
    <3>3. EchoForward /\ echoed' <= slider
      BY <2>3, <3>1, <3>2
    <3>4. \A flash \in Nat : NotReached(flash) => (NotReached(flash))'
      BY <2>1, <2>3
    <3>5. InboxFlashes' /\ PendingFlash'
      BY <2>1, <3>4 DEF InboxFlashes, PendingFlash
    <3>6. \A h \in Live' : ~(h > page'.gen)
      BY <2>1, <3>1
    <3>7. TaskFlashes'
      BY <2>1, <3>3, <3>6 DEF TaskFlashes
    <3> QED BY <3>3, <3>5, <3>7
  <2> QED BY <1>4, <2>2, <2>3 DEF Ends
<1>5. CASE UNCHANGED vars
  BY <1>5 DEF vars, loopVars, pageVars, queueVars, Live, InboxFlashes, PendingFlash,
     TaskFlashes
<1> QED BY <1>1, <1>2, <1>3, <1>4, <1>5, NextCases, TaskStepCases DEF TypeOK

(* A flash id is broadcast at most once, in the order of the drags, and    *)
(* only with a page that was rendered with the value its drag set or a     *)
(* newer one, whatever is merged, preempted or overtaken on the way.       *)
THEOREM FlashesAreEchoed == Spec => EchoOwnRender
<1>1. Init => AheadOfPage /\ FlashOrder
  BY DEF Init, AheadOfPage, FlashOrder, InboxFlashes, PendingFlash, TaskFlashes,
     NotReached, NoRequest, Live
<1>2. TypeOK /\ AheadOfPage /\ FlashOrder /\ [Next]_vars
        => AheadOfPage' /\ FlashOrder' /\ [EchoForward]_vars
  BY AheadNext, FlashNext
<1> QED BY <1>1, <1>2, TypeCorrect, PTL DEF Spec, EchoOwnRender

-----------------------------------------------------------------------------
(* Settling.  Steps outside the tasks: all that makes the page out of date *)
(* leaves a trace in the queues.                                           *)
LEMMA WatchedWrites ==
  ASSUME Flags, Counters, NothingMissed, WriteSource
  PROVE  /\ noticed' <= version' /\ version' \in Nat
         /\ watching => fsEvents' > 0
         /\ ~watching => noticed' = noticed
<1>1. /\ version' = version + 1 /\ version \in Nat /\ fsEvents \in Nat /\ noticed \in Nat
      /\ noticed <= version
  BY DEF WriteSource, Counters, NothingMissed
<1>2. CASE watching
  BY <1>1, <1>2 DEF WriteSource, Notify
<1>3. CASE ~watching
  BY <1>1, <1>3 DEF WriteSource, Notify
<1> QED BY <1>1, <1>2, <1>3

LEMMA SettleOutside ==
  ASSUME TypeOK, AheadOfPage, NothingMissed, Outside
  PROVE  NothingMissed'
<1>0. /\ Flags /\ Counters /\ Queues /\ Renders /\ Published
      /\ noticed \in Nat /\ version \in Nat /\ fsEvents \in Nat /\ slider \in Nat
      /\ page.ver \in Nat /\ page.slider \in Nat /\ page.slider <= slider
  BY DEF TypeOK, Counters, Published, AheadOfPage
<1>1. UNCHANGED <<gen, slot, tripped, task, poisoned, page>> /\ Live' = Live
  BY OutsideLeaves DEF loopVars, Live
<1>2. NewestSpared' /\ \A states : Newest(states) => Newest(states)'
  BY <1>1 DEF NothingMissed, NewestSpared, Newest
<1>3. ASSUME Unsettled', Upcoming' \/ ((Upcoming => Upcoming') /\ (spinner' => spinner)),
             noticed' <= version', ~watching' => noticed' = 0 /\ slider' = 0
      PROVE  NothingMissed'
  BY <1>1, <1>2, <1>3 DEF NothingMissed, SpinnerOwed, SourceOwed, SliderOwed
<1>4. ASSUME Unsettled => Unsettled', Upcoming => Upcoming', spinner' => spinner,
             UNCHANGED <<version, noticed, slider>>, watching => watching'
      PROVE  NothingMissed'
  <2>1. SourceOwed'
    BY <1>1, <1>2, <1>4 DEF NothingMissed, SourceOwed
  <2>2. SliderOwed'
    BY <1>1, <1>2, <1>4 DEF NothingMissed, SliderOwed
  <2>3. SpinnerOwed'
    BY <1>1, <1>4 DEF NothingMissed, SpinnerOwed
  <2> QED BY <1>2, <1>4, <2>1, <2>2, <2>3 DEF NothingMissed
<1>5. ASSUME WriteSource, UNCHANGED <<watching, slider, inbox, open>>, spinner' => spinner
      PROVE  NothingMissed'
  <2>1. Upcoming => Upcoming'
    BY <1>5 DEF Upcoming
  <2>2. CASE watching
    <3>1. Unsettled' /\ noticed' <= version'
      BY <1>0, <1>5, <2>2, WatchedWrites DEF Unsettled
    <3> QED BY <1>3, <1>5, <2>1, <2>2, <3>1
  <2>3. CASE ~watching
    <3>1. noticed' <= version' /\ noticed' = 0 /\ slider' = 0
      BY <1>0, <1>5, <2>3, WatchedWrites DEF NothingMissed
    <3>2. page'.ver >= noticed' /\ page'.slider = slider'
      BY <1>0, <1>1, <1>5, <3>1
    <3>3. SpinnerOwed'
      BY <1>1, <1>5, <2>1 DEF NothingMissed, SpinnerOwed
    <3> QED BY <1>2, <3>1, <3>2, <3>3 DEF NothingMissed, SourceOwed, SliderOwed
  <2> QED BY <2>2, <2>3
<1>6. ASSUME Upcoming', UNCHANGED <<version, noticed>>, watching => watching',
             slider' = slider \/ watching
      PROVE  NothingMissed'
  <2>1. Unsettled'
    BY <1>6 DEF Unsettled
  <2>2. noticed' <= version'
    BY <1>6 DEF NothingMissed
  <2>3. ~watching' => noticed' = 0 /\ slider' = 0
    BY <1>6 DEF NothingMissed
  <2>4. SpinnerOwed'
    BY <1>6 DEF SpinnerOwed
  <2>5. SourceOwed' /\ SliderOwed'
    BY <2>1 DEF SourceOwed, SliderOwed
  <2> QED BY <1>2, <2>2, <2>3, <2>4, <2>5 DEF NothingMissed
<1>7. \A r : \A q \in Seq(RenderRequest) : Append(q, r) # <<>>
  <2> SUFFICES ASSUME NEW r, NEW q \in Seq(RenderRequest) PROVE Append(q, r) # <<>>
    OBVIOUS
  <2>1. q \in Seq(RenderRequest \cup {r})
    OBVIOUS
  <2>2. Len(Append(q, r)) = Len(q) + 1 /\ Len(q) \in Nat
    BY <2>1
  <2> QED BY <2>2
<1>8. inbox \in Seq(RenderRequest)
  BY <1>0 DEF Queues
<1>9. CASE EditorUnlink
  <2>1. Unsettled' /\ (Upcoming => Upcoming')
    BY <1>9 DEF EditorUnlink, Unsettled, Upcoming, queueVars
  <2>2. (spinner' => spinner) /\ UNCHANGED <<version, noticed, watching, slider>>
    BY <1>9, Zenon DEF EditorUnlink, pageVars
  <2> QED BY <1>3, <2>1, <2>2 DEF NothingMissed
<1>10. CASE EditorWrite
  BY <1>5, <1>10, Zenon DEF EditorWrite, pageVars, queueVars
<1>11. CASE StartWatching
  <2>1. UNCHANGED <<version, noticed, slider, fsEvents, inbox>> /\ (watching => watching')
    BY <1>11, Zenon DEF StartWatching, queueVars
  <2>2. (present' => present) /\ (open => open') /\ (spinner' => spinner)
    BY <1>11, Zenon DEF StartWatching, queueVars, pageVars
  <2> QED BY <1>4, <2>1, <2>2 DEF Unsettled, Upcoming
<1>12. CASE Bridge
  BY <1>6, <1>7, <1>8, <1>12, Zenon DEF Bridge, Upcoming, fileVars
<1>13. CASE WidgetUpdate
  BY <1>6, <1>7, <1>8, <1>13, Zenon DEF WidgetUpdate, RequestWidgetRender, Upcoming, fileVars
<1>14. ASSUME NEW k, RunBlock(k) PROVE NothingMissed'
  BY <1>6, <1>7, <1>8, <1>14, Zenon DEF RunBlock, RequestRun, Upcoming, fileVars
<1>15. ASSUME NEW k, SaveRunBlock(k) PROVE NothingMissed'
  BY <1>5, <1>15, Zenon DEF SaveRunBlock, pageVars, queueVars
<1>16. CASE SaveRunRequest
  BY <1>6, <1>7, <1>8, <1>16, Zenon DEF SaveRunRequest, RequestRun, Upcoming, fileVars
<1>17. CASE SaveRunDropped
  <2>1. UNCHANGED <<version, noticed, slider, fsEvents, inbox>> /\ (watching => watching')
    BY <1>17, Zenon DEF SaveRunDropped, queueVars, fileVars
  <2>2. (present' => present) /\ (open => open') /\ (spinner' => spinner)
    BY <1>17, Zenon DEF SaveRunDropped, queueVars, pageVars, fileVars
  <2> QED BY <1>4, <2>1, <2>2 DEF Unsettled, Upcoming
<1>18. CASE Receive
  BY <1>6, <1>18, Zenon DEF Receive, Upcoming, fileVars
<1> QED BY <1>9, <1>10, <1>11, <1>12, <1>13, <1>14, <1>15, <1>16, <1>17, <1>18 DEF Outside

(* The window closes on a render that starts from scratch.                 *)
LEMMA SettleSchedule ==
  ASSUME TypeOK, NothingMissed, ScheduleRender
  PROVE  NothingMissed'
<1>1. /\ gen \in Nat /\ slot \in 0..gen /\ tripped \subseteq 1..gen /\ Live \subseteq 1..gen
  BY DEF TypeOK, Renders
<1>2. /\ gen' = gen + 1 /\ tripped' = tripped \cup ({slot} \ {0})
      /\ gen' \in Live' /\ task'[gen'].st = "spawned"
  BY DEF ScheduleRender, NextGeneration, InFlight, Spawned, Live
<1>3. UNCHANGED <<version, noticed, watching, slider>>
  BY Zenon DEF ScheduleRender, fileVars
<1>4. NewestSpared'
  BY <1>1, <1>2 DEF NewestSpared
<1>5. SpinnerOwed' /\ SourceOwed' /\ SliderOwed'
  BY <1>2 DEF SpinnerOwed, SourceOwed, SliderOwed, Newest
<1> QED BY <1>3, <1>4, <1>5, Zenon DEF NothingMissed

(* A render task touches nothing that others are waiting in.               *)
LEMMA TaskLeaves ==
  ASSUME NEW g, TaskStep(g)
  PROVE  /\ UNCHANGED <<version, noticed, watching, slider, gen>>
         /\ Unsettled => Unsettled'
         /\ Upcoming => Upcoming'
         /\ poisoned => poisoned'
         /\ spinner' => spinner
         /\ tripped' \subseteq tripped
<1> USE DEF fileVars, queueVars, loopVars, pageVars
<1>1. UNCHANGED <<version, noticed, watching, slider, gen, fsEvents, inbox>>
  BY Zenon DEF TaskStep, RenderStep, SnapshotWidgets, BeginRender, BeginPoisoned, FinishRender,
     PreemptRender, PanicRender, EndRender, AbandonRender, ReportError, Publish, Leave
<1>2. present' => present
  BY Zenon DEF TaskStep, RenderStep, SnapshotWidgets, BeginRender, BeginPoisoned, FinishRender,
     PreemptRender, PanicRender, EndRender, AbandonRender, ReportError, Publish, Leave
<1>6. open => open'
  BY Zenon DEF TaskStep, RenderStep, SnapshotWidgets, BeginRender, BeginPoisoned, FinishRender,
     PreemptRender, PanicRender, EndRender, AbandonRender, ReportError, Publish, Leave
<1>3. poisoned => poisoned'
  BY Zenon DEF TaskStep, RenderStep, SnapshotWidgets, BeginRender, BeginPoisoned, FinishRender,
     PreemptRender, PanicRender, EndRender, AbandonRender, ReportError, Publish, Leave
<1>4. spinner' => spinner
  BY Zenon DEF TaskStep, RenderStep, SnapshotWidgets, BeginRender, BeginPoisoned, FinishRender,
     PreemptRender, PanicRender, EndRender, AbandonRender, ReportError, Publish, Leave,
     StatusDone
<1>5. tripped' \subseteq tripped
  BY DEF TaskStep, RenderStep, SnapshotWidgets, BeginRender, BeginPoisoned, FinishRender,
     PreemptRender, PanicRender, EndRender, AbandonRender, ReportError, Publish, Leave
<1> QED BY <1>1, <1>2, <1>3, <1>4, <1>5, <1>6 DEF Unsettled, Upcoming

(* An older render changes nothing the newest one depends on.              *)
LEMMA SettleOlder ==
  ASSUME TypeOK, NothingMissed, NEW g \in Live, TaskStep(g), g # gen
  PROVE  NothingMissed'
<1>1. Moves(g) \/ Ends(g)
  BY TaskStepCases DEF TypeOK
<1>2. page' = page /\ gen' = gen /\ (gen \in Live => gen \in Live' /\ task'[gen] = task[gen])
  <2>1. CASE Moves(g)
    BY <2>1 DEF Moves
  <2>2. CASE Ends(g)
    BY <2>2, TaskLeaves DEF Ends, Leave, Live
  <2> QED BY <1>1, <2>1, <2>2
<1>3. gen \in Live' => gen \in Live
  BY <1>1 DEF Moves, Ends, Leave, Live
<1>4. NewestSpared' /\ \A states : Newest(states) => Newest(states)'
  BY <1>2, <1>3, TaskLeaves DEF NothingMissed, NewestSpared, Newest
<1>5. SpinnerOwed'
  BY <1>2, TaskLeaves DEF NothingMissed, SpinnerOwed
<1>6. SourceOwed'
  BY <1>2, <1>4, TaskLeaves DEF NothingMissed, SourceOwed, Newest
<1>7. SliderOwed'
  BY <1>2, <1>4, TaskLeaves DEF NothingMissed, SliderOwed, Newest
<1> QED BY <1>4, <1>5, <1>6, <1>7, TaskLeaves DEF NothingMissed

(* The newest render reads what is there, publishes it, or fails; it fails *)
(* only in the gap of a save or after a panic.                             *)
LEMMA SettleNewest ==
  ASSUME TypeOK, AheadOfPage, NothingMissed, gen \in Live, TaskStep(gen)
  PROVE  NothingMissed'
<1>0. /\ Renders /\ Published /\ Counters
      /\ version \in Nat /\ noticed \in Nat /\ slider \in Nat /\ gen \in Nat
      /\ page.ver \in Nat /\ page.slider \in Nat
      /\ task[gen] \in Task /\ task[gen].ver \in Nat /\ task[gen].slider \in Nat
  BY TaskType DEF TypeOK, Renders, Published, Counters, Task
<1> USE DEF fileVars, queueVars, loopVars, pageVars
<1>1. gen' = gen /\ slider' = slider /\ noticed' = noticed /\ noticed <= version
  BY TaskLeaves DEF NothingMissed
<1>2. ASSUME gen \in Live', page' = page, task'[gen].st # "preempted", SourceOwed', SliderOwed'
      PROVE  NothingMissed'
  <2>1. NewestSpared'
    BY <1>1, <1>2, TaskLeaves DEF NothingMissed, NewestSpared
  <2>2. SpinnerOwed'
    BY <1>1, <1>2 DEF SpinnerOwed
  <2> QED BY <1>2, <2>1, <2>2, TaskLeaves DEF NothingMissed
<1>3. CASE SnapshotWidgets(gen)
  <2>1. /\ gen \in Live' /\ page' = page /\ task[gen].st = "spawned"
        /\ task'[gen].st = "queued" /\ task'[gen].slider = slider
    BY <1>0, <1>3 DEF SnapshotWidgets, Live, Task
  <2> QED BY <1>1, <1>2, <2>1 DEF SourceOwed, SliderOwed, Newest
<1>4. CASE BeginRender(gen)
  <2>1. /\ gen \in Live' /\ page' = page /\ task[gen].st = "queued"
        /\ task'[gen].slider = task[gen].slider
        /\ \/ task'[gen].st = "running" /\ task'[gen].ver = version
           \/ task'[gen].st = "error" /\ ~present
    <3>1. /\ page' = page /\ task[gen].st = "queued"
          /\ \/ /\ present
                /\ task' = [task EXCEPT ![gen].st = "running", ![gen].ver = version]
             \/ ~present /\ task' = [task EXCEPT ![gen].st = "error"]
      BY <1>4, Zenon DEF BeginRender
    <3>2. CASE task' = [task EXCEPT ![gen].st = "running", ![gen].ver = version]
      BY <1>0, <3>1, <3>2 DEF Live, Task, Renders
    <3>3. CASE ~present /\ task' = [task EXCEPT ![gen].st = "error"]
      BY <1>0, <3>1, <3>3 DEF Live, Task, Renders
    <3> QED BY <3>1, <3>2, <3>3, Zenon
  <2>2. CASE task'[gen].st = "error" /\ ~present
    <3>1. Unsettled'
      BY <2>2, TaskLeaves DEF Unsettled
    <3> QED BY <1>2, <2>1, <2>2, <3>1 DEF SourceOwed, SliderOwed
  <2>3. CASE task'[gen].st = "running" /\ task'[gen].ver = version
    <3>1. SourceOwed'
      BY <1>0, <1>1, <2>1, <2>3 DEF SourceOwed, Newest
    <3>2. SliderOwed'
      BY <1>1, <2>1, <2>3, TaskLeaves DEF NothingMissed, SliderOwed, Newest
    <3> QED BY <1>2, <2>1, <2>3, <3>1, <3>2
  <2> QED BY <2>1, <2>2, <2>3
<1>5. ASSUME poisoned', gen \in Live', page' = page, task'[gen].st # "preempted"
      PROVE  NothingMissed'
  BY <1>2, <1>5 DEF SourceOwed, SliderOwed
<1>6. CASE BeginPoisoned(gen)
  <2>1. gen \in Live' /\ page' = page /\ task'[gen].st = "error"
    BY <1>0, <1>6 DEF BeginPoisoned, Live, Task
  <2>2. poisoned'
    BY <1>6, TaskLeaves DEF BeginPoisoned
  <2> QED BY <1>5, <2>1, <2>2
<1>7. CASE FinishRender(gen)
  <2>1. /\ gen \in Live' /\ page' = page /\ task[gen].st = "running" /\ task'[gen].st = "page"
        /\ task'[gen].slider = task[gen].slider /\ task'[gen].ver = task[gen].ver
    BY <1>0, <1>7 DEF FinishRender, EndRender, Live, Task
  <2>2. SourceOwed'
    BY <1>1, <2>1, TaskLeaves DEF NothingMissed, SourceOwed, Newest
  <2>3. SliderOwed'
    BY <1>1, <2>1, TaskLeaves DEF NothingMissed, SliderOwed, Newest
  <2> QED BY <1>2, <2>1, <2>2, <2>3
<1>8. CASE PreemptRender(gen)
  BY <1>8 DEF PreemptRender, NothingMissed, NewestSpared
<1>9. CASE PanicRender(gen)
  <2>1. gen \in Live' /\ page' = page /\ task'[gen].st = "error"
    BY <1>0, <1>9 DEF PanicRender, EndRender, Live, Task
  <2>2. poisoned'
    BY <1>9 DEF PanicRender
  <2> QED BY <1>5, <2>1, <2>2
<1>10. CASE AbandonRender(gen)
  BY <1>10 DEF AbandonRender, IsStale, NothingMissed, NewestSpared
<1>11. ASSUME Leave(gen), ~spinner', SourceOwed', SliderOwed' PROVE NothingMissed'
  <2>1. NewestSpared'
    BY <1>1, <1>11, TaskLeaves DEF NothingMissed, NewestSpared, Leave, Live
  <2>2. SpinnerOwed'
    BY <1>11 DEF SpinnerOwed
  <2> QED BY <1>11, <2>1, <2>2, TaskLeaves DEF NothingMissed
<1>12. CASE ReportError(gen)
  <2>1. Leave(gen) /\ ~spinner' /\ page' = page /\ task[gen].st = "error"
    BY <1>12 DEF ReportError, StatusDone
  <2>2. SourceOwed'
    BY <1>1, <2>1, TaskLeaves DEF NothingMissed, SourceOwed, Newest
  <2>3. SliderOwed'
    BY <1>1, <2>1, TaskLeaves DEF NothingMissed, SliderOwed, Newest
  <2> QED BY <1>11, <2>1, <2>2, <2>3
<1>13. CASE Publish(gen)
  <2>1. /\ Leave(gen) /\ ~spinner' /\ task[gen].st = "page"
        /\ page'.ver = task[gen].ver /\ page'.slider = task[gen].slider
    BY <1>13 DEF Publish, StatusDone
  <2>2. gen > page.gen
    BY <1>0 DEF AheadOfPage, Published
  <2>3. task[gen].ver >= page.ver /\ task[gen].slider >= page.slider /\ task[gen].slider <= slider
    BY <2>1, <2>2 DEF AheadOfPage
  <2>4. SourceOwed'
    BY <1>0, <1>1, <2>1, <2>3, TaskLeaves DEF NothingMissed, SourceOwed, Newest
  <2>5. SliderOwed'
    BY <1>0, <1>1, <2>1, <2>3, TaskLeaves DEF NothingMissed, SliderOwed, Newest
  <2> QED BY <1>11, <2>1, <2>4, <2>5
<1> QED BY <1>3, <1>4, <1>6, <1>7, <1>8, <1>9, <1>10, <1>12, <1>13 DEF TaskStep, RenderStep

(* When nothing is queued or in flight, the page shows the newest source   *)
(* that the watcher saw written and the live value of the slider, unless a *)
(* panic poisoned the cache lock, and no spinner is left: no file event,   *)
(* drag or click is ever lost between the queues, the window and the       *)
(* renders that preempt one another.                                       *)
THEOREM SettledIsCurrent == Spec => []SettledPageCurrent
<1>1. Init => AheadOfPage /\ NothingMissed
  BY DEF Init, AheadOfPage, Live, NothingMissed, NewestSpared, SpinnerOwed, SourceOwed,
     SliderOwed
<1>2. TypeOK /\ AheadOfPage /\ NothingMissed /\ [Next]_vars => AheadOfPage' /\ NothingMissed'
  <2> SUFFICES ASSUME TypeOK, AheadOfPage, NothingMissed, [Next]_vars PROVE NothingMissed'
    BY AheadNext
  <2>1. ASSUME NEW g \in Live, TaskStep(g) PROVE NothingMissed'
    BY <2>1, SettleOlder, SettleNewest
  <2>2. CASE UNCHANGED vars
    <3>1. /\ UNCHANGED <<version, noticed, fsEvents, slider, inbox, gen, tripped, task, page>>
          /\ Live' = Live
      BY <2>2 DEF vars, fileVars, queueVars, loopVars, pageVars, Live
    <3>2. /\ watching => watching'
          /\ present' => present
          /\ open => open'
          /\ poisoned => poisoned'
          /\ spinner' => spinner
      BY <2>2, Zenon DEF vars, fileVars, queueVars, loopVars, pageVars
    <3> QED BY <3>1, <3>2 DEF NothingMissed, NewestSpared, SpinnerOwed, SourceOwed, SliderOwed,
          Unsettled, Upcoming, Newest
  <2> QED BY <2>1, <2>2, NextCases, SettleOutside, SettleSchedule
<1>3. NothingMissed => SettledPageCurrent
  BY DEF NothingMissed, SpinnerOwed, SourceOwed, SliderOwed, Unsettled, Upcoming, Newest,
     SettledPageCurrent, Quiescent
<1> QED BY <1>1, <1>2, <1>3, TypeCorrect, PTL DEF Spec
=============================================================================
