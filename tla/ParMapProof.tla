---------------------------- MODULE ParMapProof ----------------------------
(***************************************************************************)
(* ScopeOfTask for any pool, any callers and any script.  The invariant    *)
(* behind it speaks of every frame of a stack, not only of the top: what a *)
(* frame saved is what was in force below it, and no element is worked on  *)
(* twice, so that ending one task takes nothing from another.              *)
(***************************************************************************)
EXTENDS ParMap, SequenceTheorems, FiniteSetTheorems, WellFoundedInduction, TLAPS

Flags == {"clear", "set"}
AnyJail == Jails \cup {NoJail}

(* The parts of the invariant, over values of the variables.               *)
Stacks(st) == st \in [Workers -> Seq(Frames)]

Table(cs) ==
  /\ cs = [id \in DOMAIN cs |-> cs[id]]
  /\ \A id \in DOMAIN cs : id \in Ids /\ cs[id] \in Calls

RunsIn(cs, f) ==
  /\ f.call \in DOMAIN cs
  /\ f.at \in DOMAIN cs[f.call].trials
  /\ cs[f.call].trials[f.at].state = "running"

Held(st, cs) == \A w \in Workers : \A k \in 1..Len(st[w]) : RunsIn(cs, st[w][k])

Apart(st) ==
  \A v, w \in Workers : \A k \in 1..Len(st[v]) : \A l \in 1..Len(st[w]) :
    st[v][k].call = st[w][l].call /\ st[v][k].at = st[w][l].at => v = w /\ k = l

InForce(st, cs, w, k) == IF k = 0 THEN NoJail ELSE cs[st[w][k].call].jail

JailsFit(st, jl, cs) ==
  \A w \in Workers :
    /\ jl[w] = InForce(st, cs, w, Len(st[w]))
    /\ \A k \in 1..Len(st[w]) : st[w][k].jail = InForce(st, cs, w, k - 1)

FlagOver(k) == IF k = 0 THEN "clear" ELSE "set"

FlagsFit(st, fl) ==
  \A w \in Workers :
    /\ fl[w] = FlagOver(Len(st[w]))
    /\ \A k \in 1..Len(st[w]) : st[w][k].flag = FlagOver(k - 1)

Sound(st, fl, jl, cs) ==
  /\ Held(st, cs) /\ Apart(st)
  /\ JailsFit(st, jl, cs) /\ FlagsFit(st, fl)

(* A thread takes up the element f.at of f.call, and leaves its newest task.*)
Pushing(st, fl, jl, cs, w, f, st2, fl2, jl2, cs2) ==
  /\ w \in Workers /\ f \in Frames /\ f.flag = fl[w] /\ f.jail = jl[w]
  /\ f.call \in DOMAIN cs /\ f.at \in DOMAIN cs[f.call].trials
  /\ cs[f.call].trials[f.at].state = "todo"
  /\ st2 = [st EXCEPT ![w] = Append(st[w], f)]
  /\ cs2 = [cs EXCEPT ![f.call].trials[f.at].state = "running"]
  /\ fl2 = [fl EXCEPT ![w] = "set"]
  /\ jl2 = [jl EXCEPT ![w] = cs[f.call].jail]

Popping(st, fl, jl, cs, w, state, log, st2, fl2, jl2, cs2) ==
  LET f == st[w][Len(st[w])] IN
  /\ w \in Workers /\ st[w] # <<>> /\ state \in {"ok", "error"} /\ log \in Promise!Logs
  /\ st2 = [st EXCEPT ![w] = SubSeq(st[w], 1, Len(st[w]) - 1)]
  /\ cs2 = Marked(cs, f, state, log)
  /\ fl2 = [fl EXCEPT ![w] = f.flag]
  /\ jl2 = [jl EXCEPT ![w] = f.jail]

(* The newest task goes on under its label and its scope.                  *)
GoingOn(st, w, f, st2) ==
  LET g == st[w][Len(st[w])] IN
  /\ w \in Workers /\ st[w] # <<>> /\ f \in Frames
  /\ st2 = [st EXCEPT ![w][Len(st[w])] = f]
  /\ f.call = g.call /\ f.at = g.at /\ f.flag = g.flag /\ f.jail = g.jail

IInv == TypeOK /\ Sound(stack, flag, jail, calls)

-----------------------------------------------------------------------------
(* The newest frame of a stack that is not empty.                          *)
LEMMA TopIsFrame ==
  ASSUME NEW st, Stacks(st), NEW w \in Workers, st[w] # <<>>
  PROVE  /\ Len(st[w]) \in Nat /\ Len(st[w]) > 0
         /\ Len(st[w]) \in 1..Len(st[w]) /\ DOMAIN st[w] = 1..Len(st[w])
         /\ st[w][Len(st[w])] \in Frames
BY LenProperties, ElementOfSeq DEF Stacks

(* A step that changes the newest frame only beyond what the invariant     *)
(* reads keeps the stacks' shape and labels.                               *)
LEMMA TopChanged ==
  ASSUME NEW st, Stacks(st), NEW w, NEW f, NEW st2, GoingOn(st, w, f, st2)
  PROVE  /\ Stacks(st2)
         /\ \A v \in Workers :
              /\ Len(st2[v]) = Len(st[v])
              /\ \A k \in 1..Len(st[v]) :
                   /\ st2[v][k].call = st[v][k].call /\ st2[v][k].at = st[v][k].at
                   /\ st2[v][k].flag = st[v][k].flag /\ st2[v][k].jail = st[v][k].jail
<1> USE DEF GoingOn
<1> DEFINE n == Len(st[w])
           q == [st[w] EXCEPT ![n] = f]
<1>1. n \in 1..Len(st[w]) /\ DOMAIN st[w] = 1..n /\ n \in Nat
  BY TopIsFrame
<1>2. st[w] \in Seq(Frames) /\ DOMAIN st = Workers
  BY DEF Stacks
<1>3. q \in Seq(Frames) /\ Len(q) = Len(st[w])
      /\ \A k \in 1..n : q[k] = IF k = n THEN f ELSE st[w][k]
  BY <1>1, <1>2, ExceptSeq
<1>4. st2 = [st EXCEPT ![w] = q]
  OBVIOUS
<1> HIDE DEF q
<1>5. \A v \in Workers : st2[v] = IF v = w THEN q ELSE st[v]
  BY <1>2, <1>4
<1>6. Stacks(st2)
  BY <1>2, <1>3, <1>4 DEF Stacks
<1>7. QED
  BY <1>3, <1>5, <1>6

(* Labels and calls that frames run in unchanged: still sound.             *)
LEMMA SameLabels ==
  ASSUME NEW st, Stacks(st), NEW fl, NEW jl, NEW cs, Sound(st, fl, jl, cs),
         NEW st2, NEW cs2,
         \A v \in Workers :
              /\ Len(st2[v]) = Len(st[v])
              /\ \A k \in 1..Len(st[v]) :
                   /\ st2[v][k].call = st[v][k].call /\ st2[v][k].at = st[v][k].at
                   /\ st2[v][k].flag = st[v][k].flag /\ st2[v][k].jail = st[v][k].jail,
         \A v \in Workers : \A k \in 1..Len(st[v]) :
              st[v][k].call \in DOMAIN cs2 /\ cs2[st[v][k].call] = cs[st[v][k].call]
  PROVE  Sound(st2, fl, jl, cs2)
<1>0. \A v \in Workers : Len(st[v]) \in Nat
  BY LenProperties DEF Stacks
<1>1. Held(st2, cs2)
  BY SMTT(40) DEF Sound, Held, RunsIn
<1>2. Apart(st2)
  BY DEF Sound, Apart
<1>3. \A v \in Workers : \A k \in 0..Len(st[v]) : InForce(st2, cs2, v, k) = InForce(st, cs, v, k)
  BY <1>0 DEF InForce
<1>4. JailsFit(st2, jl, cs2)
  <2> SUFFICES ASSUME NEW v \in Workers
               PROVE  /\ jl[v] = InForce(st2, cs2, v, Len(st2[v]))
                      /\ \A k \in 1..Len(st2[v]) : st2[v][k].jail = InForce(st2, cs2, v, k - 1)
    BY DEF JailsFit
  <2>1. jl[v] = InForce(st, cs, v, Len(st[v]))
        /\ \A k \in 1..Len(st[v]) : st[v][k].jail = InForce(st, cs, v, k - 1)
    BY DEF Sound, JailsFit
  <2>2. \A k \in 1..Len(st[v]) : k - 1 \in 0..Len(st[v])
    BY <1>0
  <2>3. Len(st[v]) \in 0..Len(st[v])
    BY <1>0
  <2> QED
    BY <1>3, <2>1, <2>2, <2>3
<1>5. FlagsFit(st2, fl)
  BY DEF Sound, FlagsFit
<1> QED
  BY <1>1, <1>2, <1>4, <1>5 DEF Sound

(* A call with no running element is the call of no frame.                 *)
LEMMA EndedIsNobodys ==
  ASSUME NEW st, NEW cs, Held(st, cs), NEW id \in DOMAIN cs,
         \A i \in DOMAIN cs[id].trials : cs[id].trials[i].state \in {"ok", "error"}
  PROVE  \A v \in Workers : \A k \in 1..Len(st[v]) :
           /\ st[v][k].call \in DOMAIN WithoutCall(cs, id)
           /\ WithoutCall(cs, id)[st[v][k].call] = cs[st[v][k].call]
BY DEF Held, RunsIn, WithoutCall

(* A new call takes nothing from the calls in progress.                    *)
LEMMA NewTakesNothing ==
  ASSUME NEW st, NEW cs, Held(st, cs), NEW id, NEW call
  PROVE  \A v \in Workers : \A k \in 1..Len(st[v]) :
           /\ st[v][k].call \in DOMAIN WithCall(cs, id, call)
           /\ WithCall(cs, id, call)[st[v][k].call] = cs[st[v][k].call]
BY DEF Held, RunsIn, WithCall

(* From one table to the other only the trial i of the call id changes, to *)
(* another state.                                                          *)
OnlyTrial(cs, cs2, id, i, state) ==
  /\ DOMAIN cs2 = DOMAIN cs
  /\ \A k \in DOMAIN cs :
       /\ cs2[k].fn = cs[k].fn /\ cs2[k].jail = cs[k].jail /\ cs2[k].seed = cs[k].seed
       /\ DOMAIN cs2[k].trials = DOMAIN cs[k].trials
       /\ \A j \in DOMAIN cs[k].trials :
            ~(k = id /\ j = i) => cs2[k].trials[j] = cs[k].trials[j]
  /\ cs2[id].trials[i].state = state

(* What taking up the element i of the call id does to the table.          *)
LEMMA TakenUp ==
  ASSUME NEW cs, Table(cs), NEW id \in DOMAIN cs, NEW i \in DOMAIN cs[id].trials,
         NEW cs2, cs2 = [cs EXCEPT ![id].trials[i].state = "running"]
  PROVE  /\ Table(cs2) /\ OnlyTrial(cs, cs2, id, i, "running")
<1> DEFINE c == cs[id]
           t == [c.trials[i] EXCEPT !.state = "running"]
           ts == [c.trials EXCEPT ![i] = t]
           c2 == [c EXCEPT !.trials = ts]
<1>1. c \in Calls /\ c.trials \in Seq(Trials) /\ id \in Ids
  BY DEF Table, Calls
<1>2. c.trials[i] \in Trials /\ DOMAIN c.trials = 1..Len(c.trials)
  BY <1>1, ElementOfSeq, LenProperties
<1>3. t \in Trials /\ t.state = "running"
  BY <1>2 DEF Trials
<1>4. ts \in Seq(Trials) /\ DOMAIN ts = DOMAIN c.trials
      /\ \A j \in DOMAIN c.trials : ts[j] = IF j = i THEN t ELSE c.trials[j]
  <2> HIDE DEF t
  <2> QED BY <1>1, <1>2, <1>3, ExceptSeq, LenProperties
<1>5. /\ c2 \in Calls /\ c2.trials = ts
      /\ c2.fn = c.fn /\ c2.jail = c.jail /\ c2.seed = c.seed
  <2> HIDE DEF ts, c
  <2> QED BY <1>1, <1>4 DEF Calls
<1>6. cs2 = [cs EXCEPT ![id] = c2]
  OBVIOUS
<1> HIDE DEF c2
<1>7. DOMAIN cs2 = DOMAIN cs /\ \A k \in DOMAIN cs : cs2[k] = IF k = id THEN c2 ELSE cs[k]
  BY <1>6
<1>8. cs2 = [k \in DOMAIN cs2 |-> cs2[k]]
  BY <1>6
<1>9. Table(cs2)
  BY <1>1, <1>5, <1>7, <1>8 DEF Table
<1>10. cs2[id].trials[i].state = "running"
  <2>1. cs2[id] = c2 /\ ts[i] = t
    BY <1>4, <1>7
  <2> HIDE DEF ts, t
  <2> QED BY <1>3, <1>5, <2>1
<1> HIDE DEF ts, t
<1>11. OnlyTrial(cs, cs2, id, i, "running")
  BY <1>4, <1>5, <1>7, <1>10 DEF OnlyTrial
<1> QED
  BY <1>9, <1>11

(* The trial of f has the log it ended with.                               *)
OfLog(cs2, f, log) == cs2[f.call].trials[f.at].log = log

(* What ending the frame f does to the table.                              *)
LEMMA Ended ==
  ASSUME NEW cs, Table(cs), NEW f \in Frames, RunsIn(cs, f),
         NEW state \in {"ok", "error"}, NEW log \in Promise!Logs,
         NEW cs2, cs2 = Marked(cs, f, state, log)
  PROVE  /\ Table(cs2) /\ OnlyTrial(cs, cs2, f.call, f.at, state)
         /\ OfLog(cs2, f, log)
<1> DEFINE id == f.call
           i == f.at
           c == cs[id]
           t == [state |-> state, log |-> log]
           ts == [c.trials EXCEPT ![i] = t]
           c2 == [c EXCEPT !.trials = ts]
<1>0. id \in DOMAIN cs /\ i \in DOMAIN c.trials
  BY DEF RunsIn
<1>1. c \in Calls /\ c.trials \in Seq(Trials) /\ id \in Ids
  BY <1>0 DEF Table, Calls
<1>2. DOMAIN c.trials = 1..Len(c.trials)
  BY <1>1, LenProperties
<1>3. t \in Trials
  BY DEF Trials
<1>4. ts \in Seq(Trials) /\ DOMAIN ts = DOMAIN c.trials
      /\ \A j \in DOMAIN c.trials : ts[j] = IF j = i THEN t ELSE c.trials[j]
  <2> HIDE DEF t
  <2> QED BY <1>0, <1>1, <1>2, <1>3, ExceptSeq, LenProperties
<1>5. /\ c2 \in Calls /\ c2.trials = ts
      /\ c2.fn = c.fn /\ c2.jail = c.jail /\ c2.seed = c.seed
  <2> HIDE DEF ts, c
  <2> QED BY <1>1, <1>4 DEF Calls
<1>6. cs2 = [cs EXCEPT ![id] = c2]
  BY DEF Marked
<1> HIDE DEF c2
<1>7. DOMAIN cs2 = DOMAIN cs /\ \A k \in DOMAIN cs : cs2[k] = IF k = id THEN c2 ELSE cs[k]
  BY <1>0, <1>6
<1>8. cs2 = [k \in DOMAIN cs2 |-> cs2[k]]
  BY <1>6
<1>9. Table(cs2)
  BY <1>1, <1>5, <1>7, <1>8 DEF Table
<1>10. cs2[f.call].trials[f.at] = t
  BY <1>0, <1>4, <1>5, <1>7
<1>11. t = [state |-> state, log |-> log]
  OBVIOUS
<1> HIDE DEF ts, t
<1>12. OnlyTrial(cs, cs2, id, i, state)
  BY <1>4, <1>5, <1>7, <1>10, <1>11 DEF OnlyTrial
<1> QED
  BY <1>9, <1>10, <1>11, <1>12 DEF OfLog

(* Taking up an element nobody works on.                                   *)
LEMMA Pushed ==
  ASSUME NEW st, Stacks(st), NEW fl \in [Workers -> Flags], NEW jl \in [Workers -> AnyJail],
         NEW cs, Table(cs), Sound(st, fl, jl, cs),
         NEW w, NEW f, NEW st2, NEW fl2, NEW jl2, NEW cs2,
         Pushing(st, fl, jl, cs, w, f, st2, fl2, jl2, cs2)
  PROVE  Stacks(st2) /\ Sound(st2, fl2, jl2, cs2)
<1> USE DEF Pushing
<1> DEFINE n == Len(st[w])
<1>1. st[w] \in Seq(Frames) /\ n \in Nat /\ \A v \in Workers : Len(st[v]) \in Nat
  BY LenProperties DEF Stacks
<1>2. /\ Append(st[w], f) \in Seq(Frames) /\ Len(Append(st[w], f)) = n + 1
      /\ Append(st[w], f)[n + 1] = f
      /\ \A k \in 1..n : Append(st[w], f)[k] = st[w][k]
  BY <1>1, AppendProperties
<1>3. Stacks(st2)
  BY <1>2 DEF Stacks
<1>4. /\ Len(st2[w]) = n + 1 /\ st2[w][n + 1] = f
      /\ \A k \in 1..n : st2[w][k] = st[w][k]
      /\ \A v \in Workers \ {w} : st2[v] = st[v]
  BY <1>2 DEF Stacks
<1>5. \A v \in Workers : \A k \in 1..Len(st2[v]) :
        (v = w /\ k = n + 1 /\ st2[v][k] = f) \/ (k \in 1..Len(st[v]) /\ st2[v][k] = st[v][k])
  BY <1>1, <1>4
<1>60. OnlyTrial(cs, cs2, f.call, f.at, "running")
  <2> DEFINE id == f.call
             i == f.at
  <2>1. id \in DOMAIN cs /\ i \in DOMAIN cs[id].trials
        /\ cs2 = [cs EXCEPT ![id].trials[i].state = "running"]
    OBVIOUS
  <2> HIDE DEF id, i
  <2>2. OnlyTrial(cs, cs2, id, i, "running")
    BY <2>1, TakenUp
  <2> QED BY <2>2 DEF id, i
<1>6. /\ DOMAIN cs2 = DOMAIN cs
      /\ \A k \in DOMAIN cs :
              /\ cs2[k].jail = cs[k].jail
              /\ DOMAIN cs2[k].trials = DOMAIN cs[k].trials
              /\ \A j \in DOMAIN cs[k].trials :
                   cs2[k].trials[j].state =
                     IF k = f.call /\ j = f.at THEN "running" ELSE cs[k].trials[j].state
  BY <1>60 DEF OnlyTrial
<1>7. Held(st2, cs2)
  <2> SUFFICES ASSUME NEW v \in Workers, NEW k \in 1..Len(st2[v])
               PROVE  RunsIn(cs2, st2[v][k])
    BY DEF Held
  <2>1. CASE st2[v][k] = f
    <3>1. RunsIn(cs2, f)
      <4>1. f.call \in DOMAIN cs2 /\ f.at \in DOMAIN cs2[f.call].trials
        BY <1>6
      <4> QED BY <1>60, <4>1 DEF RunsIn, OnlyTrial
    <3> QED BY <2>1, <3>1
  <2>2. CASE k \in 1..Len(st[v]) /\ st2[v][k] = st[v][k]
    <3>1. RunsIn(cs, st[v][k])
      BY <2>2 DEF Sound, Held
    <3> DEFINE g == st[v][k]
    <3>2. g.call \in DOMAIN cs /\ g.at \in DOMAIN cs[g.call].trials
          /\ cs[g.call].trials[g.at].state = "running"
      BY <3>1 DEF RunsIn
    <3> HIDE DEF g
    <3>3. g.call \in DOMAIN cs2 /\ g.at \in DOMAIN cs2[g.call].trials
      BY <1>6, <3>2
    <3>4. cs2[g.call].trials[g.at].state = "running"
      BY <1>6, <3>2
    <3>5. RunsIn(cs2, g)
      BY <3>3, <3>4 DEF RunsIn
    <3> QED BY <2>2, <3>5 DEF g
  <2> QED BY <1>5, <2>1, <2>2
<1>8. \A v \in Workers : \A k \in 1..Len(st[v]) :
        ~(st[v][k].call = f.call /\ st[v][k].at = f.at)
  BY DEF Sound, Held, RunsIn
<1>9. Apart(st2)
  <2> SUFFICES ASSUME NEW u \in Workers, NEW v \in Workers,
                      NEW k \in 1..Len(st2[u]), NEW l \in 1..Len(st2[v]),
                      st2[u][k].call = st2[v][l].call /\ st2[u][k].at = st2[v][l].at
               PROVE  u = v /\ k = l
    BY DEF Apart
  <2>1. CASE u = w /\ k = n + 1 /\ st2[u][k] = f
    <3>1. v = w /\ l = n + 1
      BY <1>5, <1>8, <2>1
    <3> QED BY <2>1, <3>1
  <2>2. CASE k \in 1..Len(st[u]) /\ st2[u][k] = st[u][k]
    <3>1. l \in 1..Len(st[v]) /\ st2[v][l] = st[v][l]
      BY <1>5, <1>8, <2>2
    <3>2. Apart(st)
      BY DEF Sound
    <3> HIDE DEF Pushing
    <3>3. st[u][k].call = st[v][l].call /\ st[u][k].at = st[v][l].at
      BY <2>2, <3>1
    <3> QED BY <2>2, <3>1, <3>2, <3>3 DEF Apart
  <2> QED BY <1>5, <2>1, <2>2
<1>10. \A v \in Workers : \A k \in 0..Len(st[v]) : InForce(st2, cs2, v, k) = InForce(st, cs, v, k)
  <2> SUFFICES ASSUME NEW v \in Workers, NEW k \in 0..Len(st[v]), k # 0
               PROVE  cs2[st2[v][k].call].jail = cs[st[v][k].call].jail
    BY DEF InForce
  <2>1. k \in 1..Len(st[v])
    BY <1>1
  <2>2. st2[v][k] = st[v][k]
    BY <1>4, <2>1
  <2>3. RunsIn(cs, st[v][k])
    BY <2>1 DEF Sound, Held
  <2> QED BY <1>6, <2>2, <2>3 DEF RunsIn
<1>11. JailsFit(st2, jl2, cs2)
  <2> SUFFICES ASSUME NEW v \in Workers
               PROVE  /\ jl2[v] = InForce(st2, cs2, v, Len(st2[v]))
                      /\ \A k \in 1..Len(st2[v]) : st2[v][k].jail = InForce(st2, cs2, v, k - 1)
    BY DEF JailsFit
  <2>1. /\ jl[v] = InForce(st, cs, v, Len(st[v]))
        /\ \A k \in 1..Len(st[v]) : st[v][k].jail = InForce(st, cs, v, k - 1)
    BY DEF Sound, JailsFit
  <2>2. /\ Len(st[v]) \in 0..Len(st[v])
        /\ \A k \in 1..Len(st[v]) : k - 1 \in 0..Len(st[v])
    BY <1>1
  <2>3. CASE v # w
    <3>1. st2[v] = st[v] /\ jl2[v] = jl[v]
      BY <1>4, <2>3
    <3> QED BY <1>10, <2>1, <2>2, <3>1
  <2>4. CASE v = w
    <3>1. jl2[v] = cs[f.call].jail
      BY <2>4
    <3>2. InForce(st2, cs2, w, n + 1) = cs[f.call].jail
      BY <1>1, <1>4, <1>6 DEF InForce
    <3>3. \A k \in 1..n : st2[w][k].jail = InForce(st2, cs2, w, k - 1)
      BY <1>4, <1>10, <2>1, <2>2, <2>4
    <3>4. st2[w][n + 1].jail = InForce(st2, cs2, w, n)
      BY <1>4, <1>10, <2>1, <2>2, <2>4
    <3>5. n + 1 - 1 = n /\ \A k \in 1..(n + 1) : k = n + 1 \/ k \in 1..n
      BY <1>1
    <3>6. Len(st2[w]) = n + 1
      BY <1>4
    <3>7. jl2[w] = InForce(st2, cs2, w, Len(st2[w]))
      BY <2>4, <3>1, <3>2, <3>6
    <3>8. \A k \in 1..Len(st2[w]) : st2[w][k].jail = InForce(st2, cs2, w, k - 1)
      <4> SUFFICES ASSUME NEW k \in 1..(n + 1)
                   PROVE  st2[w][k].jail = InForce(st2, cs2, w, k - 1)
        BY <3>6
      <4>1. CASE k \in 1..n
        BY <3>3, <4>1
      <4>2. CASE k = n + 1
        BY <3>4, <3>5, <4>2
      <4> QED BY <3>5, <4>1, <4>2
    <3> QED BY <2>4, <3>7, <3>8
  <2> QED BY <2>3, <2>4
<1>12. FlagsFit(st2, fl2)
  <2> SUFFICES ASSUME NEW v \in Workers
               PROVE  /\ fl2[v] = FlagOver(Len(st2[v]))
                      /\ \A k \in 1..Len(st2[v]) : st2[v][k].flag = FlagOver(k - 1)
    BY DEF FlagsFit
  <2>1. /\ fl[v] = FlagOver(Len(st[v]))
        /\ \A k \in 1..Len(st[v]) : st[v][k].flag = FlagOver(k - 1)
    BY DEF Sound, FlagsFit
  <2>2. CASE v # w
    BY <1>4, <2>1, <2>2
  <2>3. CASE v = w
    <3>1. fl2[w] = "set" /\ FlagOver(n + 1) = "set"
      <4>1. n + 1 # 0
        BY <1>1
      <4> QED BY <4>1 DEF FlagOver
    <3>2. \A k \in 1..n : st2[w][k].flag = FlagOver(k - 1)
      BY <1>4, <2>1, <2>3
    <3>3. st2[w][n + 1].flag = FlagOver(n + 1 - 1)
      <4>1. f.flag = FlagOver(n) /\ n + 1 - 1 = n
        BY <1>1, <2>1, <2>3
      <4> QED BY <1>4, <4>1
    <3>4. \A k \in 1..(n + 1) : k = n + 1 \/ k \in 1..n
      BY <1>1
    <3>5. \A k \in 1..(n + 1) : st2[w][k].flag = FlagOver(k - 1)
      <4> SUFFICES ASSUME NEW k \in 1..(n + 1) PROVE st2[w][k].flag = FlagOver(k - 1)
        OBVIOUS
      <4>1. CASE k \in 1..n
        BY <3>2, <4>1
      <4>2. CASE k = n + 1
        BY <3>3, <4>2
      <4> QED BY <3>4, <4>1, <4>2
    <3>6. Len(st2[w]) = n + 1
      BY <1>4
    <3> QED BY <2>3, <3>1, <3>5, <3>6
  <2> QED BY <2>2, <2>3
<1> QED
  BY <1>3, <1>7, <1>9, <1>11, <1>12 DEF Sound

(* Ending the newest task of a thread.                                     *)
LEMMA Popped ==
  ASSUME NEW st, Stacks(st), NEW fl \in [Workers -> Flags], NEW jl \in [Workers -> AnyJail],
         NEW cs, Table(cs), Sound(st, fl, jl, cs),
         NEW w, NEW state, NEW log, NEW st2, NEW fl2, NEW jl2, NEW cs2,
         Popping(st, fl, jl, cs, w, state, log, st2, fl2, jl2, cs2)
  PROVE  Stacks(st2) /\ Table(cs2) /\ Sound(st2, fl2, jl2, cs2)
<1> DEFINE f == st[w][Len(st[w])]
<1> USE DEF Popping
<1> DEFINE n == Len(st[w])
<1>1. /\ st[w] \in Seq(Frames) /\ n \in Nat /\ n > 0 /\ n \in 1..n /\ f \in Frames
      /\ \A v \in Workers : Len(st[v]) \in Nat
  BY TopIsFrame, LenProperties DEF Stacks
<1>2. /\ SubSeq(st[w], 1, n - 1) \in Seq(Frames) /\ Len(SubSeq(st[w], 1, n - 1)) = n - 1
      /\ \A k \in 1..(n - 1) : SubSeq(st[w], 1, n - 1)[k] = st[w][k]
  <2>1. \A k \in 1..(n - 1) : k \in 1..Len(st[w]) /\ 1 + k - 1 = k
    BY <1>1
  <2>2. \A k \in 1..(n - 1) : st[w][k] \in Frames
    BY <1>1, <2>1, ElementOfSeq
  <2> QED BY <1>1, <2>1, <2>2, SubSeqProperties
<1>3. Stacks(st2)
  BY <1>2 DEF Stacks
<1>4. /\ Len(st2[w]) = n - 1 /\ \A k \in 1..(n - 1) : st2[w][k] = st[w][k]
      /\ \A v \in Workers \ {w} : st2[v] = st[v]
  BY <1>2 DEF Stacks
<1>5. \A v \in Workers : \A k \in 1..Len(st2[v]) :
        k \in 1..Len(st[v]) /\ st2[v][k] = st[v][k] /\ ~(v = w /\ k = n)
  BY <1>1, <1>4
<1>6. RunsIn(cs, f)
  BY <1>1 DEF Sound, Held
<1>7. /\ Table(cs2) /\ DOMAIN cs2 = DOMAIN cs
      /\ \A k \in DOMAIN cs :
              /\ cs2[k].fn = cs[k].fn /\ cs2[k].jail = cs[k].jail /\ cs2[k].seed = cs[k].seed
              /\ DOMAIN cs2[k].trials = DOMAIN cs[k].trials
              /\ \A j \in DOMAIN cs[k].trials :
                   ~(k = f.call /\ j = f.at) => cs2[k].trials[j] = cs[k].trials[j]
  <2>1. state \in {"ok", "error"} /\ log \in Promise!Logs /\ cs2 = Marked(cs, f, state, log)
    OBVIOUS
  <2> HIDE DEF f, Popping
  <2>2. f \in Frames
    BY <1>1
  <2>3. Table(cs2) /\ OnlyTrial(cs, cs2, f.call, f.at, state)
    BY <1>6, <2>1, <2>2, Ended
  <2> QED BY <2>3 DEF OnlyTrial
<1>8. Held(st2, cs2)
  <2> SUFFICES ASSUME NEW v \in Workers, NEW k \in 1..Len(st2[v])
               PROVE  RunsIn(cs2, st2[v][k])
    BY DEF Held
  <2>1. k \in 1..Len(st[v]) /\ st2[v][k] = st[v][k] /\ ~(v = w /\ k = n)
    BY <1>5
  <2>2. RunsIn(cs, st[v][k])
    BY <2>1 DEF Sound, Held
  <2>3. ~(st[v][k].call = f.call /\ st[v][k].at = f.at)
    <3>1. Apart(st) /\ n \in 1..Len(st[w])
      BY <1>1 DEF Sound
    <3> QED BY SMTT(40), <2>1, <3>1 DEF Apart
  <2> QED BY <1>7, <2>1, <2>2, <2>3 DEF RunsIn
<1>9. Apart(st2)
  <2> SUFFICES ASSUME NEW u \in Workers, NEW v \in Workers,
                      NEW k \in 1..Len(st2[u]), NEW l \in 1..Len(st2[v]),
                      st2[u][k].call = st2[v][l].call /\ st2[u][k].at = st2[v][l].at
               PROVE  u = v /\ k = l
    BY DEF Apart
  <2>1. k \in 1..Len(st[u]) /\ st2[u][k] = st[u][k] /\ l \in 1..Len(st[v]) /\ st2[v][l] = st[v][l]
    BY <1>5
  <2> QED BY <2>1 DEF Sound, Apart
<1>10. \A v \in Workers : \A k \in 0..Len(st2[v]) : InForce(st2, cs2, v, k) = InForce(st, cs, v, k)
  <2> SUFFICES ASSUME NEW v \in Workers, NEW k \in 0..Len(st2[v]), k # 0
               PROVE  cs2[st2[v][k].call].jail = cs[st[v][k].call].jail
    BY DEF InForce
  <2>1. k \in 1..Len(st2[v])
    BY <1>1, <1>4
  <2>2. k \in 1..Len(st[v]) /\ st2[v][k] = st[v][k]
    BY <1>5, <2>1
  <2>3. RunsIn(cs, st[v][k])
    BY <2>2 DEF Sound, Held
  <2> QED BY <1>7, <2>2, <2>3 DEF RunsIn
<1>11. JailsFit(st2, jl2, cs2)
  <2> SUFFICES ASSUME NEW v \in Workers
               PROVE  /\ jl2[v] = InForce(st2, cs2, v, Len(st2[v]))
                      /\ \A k \in 1..Len(st2[v]) : st2[v][k].jail = InForce(st2, cs2, v, k - 1)
    BY DEF JailsFit
  <2>1. /\ jl[v] = InForce(st, cs, v, Len(st[v]))
        /\ \A k \in 1..Len(st[v]) : st[v][k].jail = InForce(st, cs, v, k - 1)
    BY DEF Sound, JailsFit
  <2>2. /\ Len(st2[v]) \in 0..Len(st2[v])
        /\ \A k \in 1..Len(st2[v]) : k - 1 \in 0..Len(st2[v])
    BY <1>1, <1>4
  <2>3. \A k \in 1..Len(st2[v]) : st2[v][k].jail = InForce(st2, cs2, v, k - 1)
    BY <1>5, <1>10, <2>1, <2>2
  <2>4. jl2[v] = InForce(st2, cs2, v, Len(st2[v]))
    <3>1. CASE v # w
      BY <1>4, <1>10, <2>1, <2>2, <3>1
    <3>2. CASE v = w
      <4>1. jl2[v] = f.jail
        BY <3>2
      <4>2. f.jail = InForce(st, cs, w, n - 1)
        BY <1>1, <2>1, <3>2
      <4>3. Len(st2[w]) = n - 1 /\ n - 1 \in 0..Len(st2[w])
        BY <1>1, <1>4
      <4>4. InForce(st2, cs2, w, n - 1) = InForce(st, cs, w, n - 1)
        BY <1>10, <4>3
      <4>5. jl2[w] = InForce(st2, cs2, w, Len(st2[w]))
        BY <3>2, <4>1, <4>2, <4>3, <4>4
      <4> QED BY <3>2, <4>5
    <3> QED BY <3>1, <3>2
  <2> QED BY <2>3, <2>4
<1>12. FlagsFit(st2, fl2)
  <2> SUFFICES ASSUME NEW v \in Workers
               PROVE  /\ fl2[v] = FlagOver(Len(st2[v]))
                      /\ \A k \in 1..Len(st2[v]) : st2[v][k].flag = FlagOver(k - 1)
    BY DEF FlagsFit
  <2>1. /\ fl[v] = FlagOver(Len(st[v]))
        /\ \A k \in 1..Len(st[v]) : st[v][k].flag = FlagOver(k - 1)
    BY DEF Sound, FlagsFit
  <2>2. \A k \in 1..Len(st2[v]) : st2[v][k].flag = FlagOver(k - 1)
    BY <1>5, <2>1
  <2>3. CASE v # w
    BY <1>4, <2>1, <2>2, <2>3
  <2>4. CASE v = w
    <3>1. fl2[w] = f.flag /\ f.flag = FlagOver(n - 1) /\ Len(st2[w]) = n - 1
      BY <1>1, <1>4, <2>1, <2>4
    <3> QED BY <2>2, <2>4, <3>1
  <2> QED BY <2>3, <2>4
<1> QED
  BY <1>3, <1>7, <1>8, <1>9, <1>11, <1>12 DEF Sound

-----------------------------------------------------------------------------
(* The type invariant in the parts the lemmas speak of.                    *)
Rest(rn, fl, jl, an) ==
  /\ rn \in [Workers -> Promise!Numbers]
  /\ fl \in [Workers -> Flags]
  /\ jl \in [Workers -> AnyJail]
  /\ an \in [Callers -> Seq([failed : SUBSET Nat, log : Promise!Logs])]

(* What TypeOK says is what the parts say, in this state and in the next.  *)
LEMMA TypeParts ==
  /\ TypeOK <=> Stacks(stack) /\ Held(stack, calls) /\ Table(calls) /\ Rest(rng, flag, jail, answers)
  /\ TypeOK' <=> Stacks(stack') /\ Held(stack', calls') /\ Table(calls')
                  /\ Rest(rng', flag', jail', answers')
<1>1. ASSUME Stacks(stack)
      PROVE  (\A w \in Workers : \A k \in DOMAIN stack[w] : Runs(stack[w][k])) <=> Held(stack, calls)
  BY <1>1, LenProperties DEF Stacks, Held, Runs, RunsIn
<1>2. ASSUME Stacks(stack')
      PROVE  (\A w \in Workers : \A k \in DOMAIN stack[w] : Runs(stack[w][k]))' <=> Held(stack', calls')
  BY <1>2, LenProperties DEF Stacks, Held, Runs, RunsIn
<1>3. TypeOK <=> Stacks(stack) /\ Held(stack, calls) /\ Table(calls) /\ Rest(rng, flag, jail, answers)
  BY <1>1 DEF TypeOK, Stacks, Table, Rest, AnyJail, Flags
<1>4. TypeOK' <=> Stacks(stack') /\ Held(stack', calls') /\ Table(calls')
                  /\ Rest(rng', flag', jail', answers')
  BY <1>2 DEF TypeOK, Stacks, Table, Rest, AnyJail, Flags
<1> QED
  BY <1>3, <1>4

(* The invariant in those parts.                                           *)
LEMMA InvParts ==
  /\ IInv <=> Stacks(stack) /\ Table(calls) /\ Rest(rng, flag, jail, answers)
               /\ Sound(stack, flag, jail, calls)
  /\ IInv' <=> Stacks(stack') /\ Table(calls') /\ Rest(rng', flag', jail', answers')
                /\ Sound(stack', flag', jail', calls')
BY TypeParts DEF IInv, Sound

(* A seed has a seed for every element.                                    *)
LEMMA SeedType ==
  ASSUME NEW s \in Promise!Seeds, NEW i \in Nat
  PROVE  Derive(s, i) \in Promise!Seeds
<1>1. i \in Callers \cup Nat
  OBVIOUS
<1> QED
  BY <1>1, AppendProperties DEF Derive, Promise!Derive, Promise!Seeds

(* A call begins with one trial for each element, none of them taken up.   *)
LEMMA NewCallType ==
  ASSUME NEW f \in Lambdas, NEW j \in AnyJail, NEW s \in Promise!Seeds
  PROVE  NewCall(f, j, s) \in Calls
<1>1. Len(Body[f]) \in Nat
  BY ScriptAssumption, LenProperties DEF Promise!Script
<1>2. [state |-> "todo", log |-> {}] \in Trials
  BY DEF Trials, Promise!Logs
<1>3. [i \in 1..Len(Body[f]) |-> [state |-> "todo", log |-> {}]] \in Seq(Trials)
  BY <1>1, <1>2, IsASeq
<1> QED
  BY <1>3 DEF NewCall, Calls, AnyJail, Flags

(* The table with a call more or less is a table.                          *)
LEMMA TableChanged ==
  ASSUME NEW cs, Table(cs), NEW id, NEW call
  PROVE  /\ id \in Ids /\ call \in Calls => Table(WithCall(cs, id, call))
         /\ Table(WithoutCall(cs, id))
BY DEF Table, WithCall, WithoutCall

(* The log of one operation is a log.                                      *)
LEMMA BelowType ==
  ASSUME NEW n \in Nat, NEW log \in Promise!Logs
  PROVE  Promise!Below(n, log) \in Promise!Logs
<1>1. \A d \in log : d.place \in Seq(Nat) /\ <<n>> \in Seq(Nat)
  BY DEF Promise!Logs
<1>2. \A d \in log : <<n>> \o d.place \in Seq(Nat)
  BY <1>1, ConcatProperties
<1> QED
  BY <1>2 DEF Promise!Below, Promise!Logs

(* What a call returns has the type of an answer.                          *)
LEMMA AnswerType ==
  ASSUME NEW ts \in Seq(Trials)
  PROVE  Promise!Answer(ts) \in [failed : SUBSET Nat, log : Promise!Logs]
<1>1. DOMAIN ts \subseteq Nat /\ \A i \in DOMAIN ts : ts[i] \in Trials
  BY LenProperties, ElementOfSeq
<1>2. Promise!Errors(ts) \subseteq Nat
  BY <1>1 DEF Promise!Errors
<1>3. \A i \in DOMAIN ts : Promise!Below(i, ts[i].log) \in Promise!Logs
  BY <1>1, BelowType DEF Trials
<1>4. UNION {Promise!Below(i, ts[i].log) : i \in DOMAIN ts} \in Promise!Logs
  BY <1>3 DEF Promise!Logs
<1>5. {} \in Promise!Logs
  BY DEF Promise!Logs
<1> QED
  BY <1>2, <1>4, <1>5 DEF Promise!Answer

(* The name of a nested call is a name.                                    *)
LEMMA NestedType ==
  ASSUME NEW f \in Frames
  PROVE  Nested(f) \in Ids
<1>1. f.call \in Seq(Callers \cup Nat) /\ f.at \in Nat /\ f.pc \in Nat
  BY DEF Frames, Ids
<1>2. <<f.at, f.pc>> \in Seq(Callers \cup Nat)
  BY <1>1
<1> QED
  BY <1>1, <1>2, ConcatProperties DEF Nested, Ids

-----------------------------------------------------------------------------
(* Initially no thread is in a task.                                       *)
LEMMA InitSound == Init => IInv
<1> SUFFICES ASSUME Init PROVE IInv
  OBVIOUS
<1>1. Stacks(stack) /\ \A w \in Workers : Len(stack[w]) = 0
  BY EmptySeq DEF Init, Stacks
<1>2. Table(calls)
  BY DEF Init, Table
<1>3. Rest(rng, flag, jail, answers)
  <2>1. [seed |-> <<>>, count |-> 0] \in Promise!Numbers
    BY EmptySeq DEF Promise!Numbers, Promise!Seeds
  <2> QED BY <2>1, EmptySeq DEF Init, Rest, AnyJail, Flags
<1>4. Sound(stack, flag, jail, calls)
  BY <1>1 DEF Init, Sound, Held, Apart, JailsFit, FlagsFit, FlagOver, InForce
<1> QED
  BY <1>1, <1>2, <1>3, <1>4, InvParts

(* A caller calls.                                                         *)
LEMMA CallStep ==
  ASSUME IInv, NEW c \in Callers, NEW j \in AnyJail, Call(c, j)
  PROVE  IInv'
<1>1. TopCall(c) \in Ids
  <2>1. Len(answers[c]) + 1 \in Nat
    BY InvParts, LenProperties DEF Rest
  <2> QED BY <2>1 DEF TopCall, Ids
<1>2. NewCall(Main[c], j, Promise!SeedOf(c)) \in Calls
  <2>1. Main[c] \in Lambdas
    BY ScriptAssumption DEF Promise!Script
  <2>2. <<c>> \in Seq(Callers \cup Nat)
    OBVIOUS
  <2>3. Promise!SeedOf(c) \in Promise!Seeds
    BY <2>2 DEF Promise!SeedOf, Promise!Seeds
  <2> QED BY <2>1, <2>3, NewCallType
<1>3. Table(calls')
  BY <1>1, <1>2, InvParts, TableChanged DEF Call
<1>4. \A v \in Workers : \A k \in 1..Len(stack[v]) :
        stack[v][k].call \in DOMAIN calls' /\ calls'[stack[v][k].call] = calls[stack[v][k].call]
  BY InvParts, NewTakesNothing DEF Call, Sound
<1>5. Sound(stack, flag, jail, calls')
  BY <1>4, InvParts, SameLabels
<1> QED
  BY <1>3, <1>5, InvParts DEF Call, locals

(* A caller is answered.                                                   *)
LEMMA ReturnStep ==
  ASSUME IInv, NEW c \in Callers, Return(c)
  PROVE  IInv'
<1>1. Table(calls')
  BY InvParts, TableChanged DEF Return
<1>2. \A v \in Workers : \A k \in 1..Len(stack[v]) :
        stack[v][k].call \in DOMAIN calls' /\ calls'[stack[v][k].call] = calls[stack[v][k].call]
  BY InvParts, EndedIsNobodys DEF Return, Sound, AllEnded
<1>3. Sound(stack, flag, jail, calls')
  BY <1>2, InvParts, SameLabels
<1>4. Promise!Answer(calls[TopCall(c)].trials) \in [failed : SUBSET Nat, log : Promise!Logs]
  BY InvParts, AnswerType DEF Return, Table, Calls
<1>5. answers' \in [Callers -> Seq([failed : SUBSET Nat, log : Promise!Logs])]
  BY <1>4, InvParts, AppendProperties DEF Return, Rest
<1> QED
  BY <1>1, <1>3, <1>5, InvParts DEF Return, locals, Rest

(* A thread takes up an element.                                           *)
LEMMA ClaimStep ==
  ASSUME IInv, NEW w \in Workers, NEW id \in DOMAIN calls,
         NEW i \in DOMAIN calls[id].trials, Claim(w, id, i)
  PROVE  IInv'
<1> DEFINE f == [call |-> id, at |-> i, pc |-> 1, waits |-> "no", log |-> {},
                 flag |-> flag[w], jail |-> jail[w]]
<1>1. id \in Ids /\ calls[id] \in Calls /\ i \in Nat
  BY InvParts, LenProperties DEF Table, Calls
<1>2. flag[w] \in Flags /\ jail[w] \in AnyJail
  BY InvParts DEF Rest
<1>3. f \in Frames
  BY <1>1, <1>2 DEF Frames, AnyJail, Flags, Promise!Logs
<1>4. /\ f.call = id /\ f.at = i /\ f.flag = flag[w] /\ f.jail = jail[w]
      /\ stack' = [stack EXCEPT ![w] = Append(stack[w], f)]
  BY DEF Claim
<1>5. /\ calls' = [calls EXCEPT ![id].trials[i].state = "running"]
      /\ calls[id].trials[i].state = "todo"
      /\ flag' = [flag EXCEPT ![w] = "set"]
      /\ jail' = [jail EXCEPT ![w] = calls[id].jail]
      /\ answers' = answers
      /\ rng' = [rng EXCEPT ![w] = Seeded(id, i)]
  BY DEF Claim
<1> HIDE DEF f
<1>6. Table(calls')
  BY <1>5, InvParts, TakenUp
<1>7. Stacks(stack') /\ Sound(stack', flag', jail', calls')
  <2>1. /\ calls' = [calls EXCEPT ![f.call].trials[f.at].state = "running"]
        /\ jail' = [jail EXCEPT ![w] = calls[f.call].jail]
        /\ f.call \in DOMAIN calls /\ f.at \in DOMAIN calls[f.call].trials
        /\ calls[f.call].trials[f.at].state = "todo"
    BY <1>4, <1>5
  <2>2. /\ Stacks(stack) /\ Table(calls) /\ Sound(stack, flag, jail, calls)
        /\ flag \in [Workers -> Flags] /\ jail \in [Workers -> AnyJail]
    BY InvParts DEF Rest
  <2>3. Pushing(stack, flag, jail, calls, w, f, stack', flag', jail', calls')
    BY <1>3, <1>4, <1>5, <2>1, Zenon DEF Pushing
  <2> QED BY <2>2, <2>3, Pushed
<1>8. Seeded(id, i) \in Promise!Numbers
  BY <1>1, SeedType DEF Seeded, Calls, Promise!Numbers
<1>9. Rest(rng', flag', jail', answers')
  BY <1>1, <1>5, <1>8, InvParts DEF Rest, Calls, AnyJail, Flags
<1> QED
  BY <1>6, <1>7, <1>9, InvParts

(* A step of the newest task that keeps its label, its scope and the calls *)
(* that frames run in.                                                     *)
LEMMA OnTopStep ==
  ASSUME IInv, NEW w \in Workers, Busy(w), NEW f \in Frames, OnTop(w, f),
         f.call = Top(w).call, f.at = Top(w).at,
         f.flag = Top(w).flag, f.jail = Top(w).jail,
         UNCHANGED <<flag, jail, answers>>, Table(calls'),
         \A v \in Workers : \A k \in 1..Len(stack[v]) :
           stack[v][k].call \in DOMAIN calls' /\ calls'[stack[v][k].call] = calls[stack[v][k].call],
         rng' \in [Workers -> Promise!Numbers]
  PROVE  IInv'
<1>1. /\ Stacks(stack')
      /\ \A v \in Workers :
              /\ Len(stack'[v]) = Len(stack[v])
              /\ \A k \in 1..Len(stack[v]) :
                   /\ stack'[v][k].call = stack[v][k].call /\ stack'[v][k].at = stack[v][k].at
                   /\ stack'[v][k].flag = stack[v][k].flag /\ stack'[v][k].jail = stack[v][k].jail
  <2>1. Stacks(stack) /\ stack[w] # <<>>
    BY InvParts DEF Busy
  <2>2. /\ stack' = [stack EXCEPT ![w][Len(stack[w])] = f]
        /\ f.call = stack[w][Len(stack[w])].call /\ f.at = stack[w][Len(stack[w])].at
        /\ f.flag = stack[w][Len(stack[w])].flag /\ f.jail = stack[w][Len(stack[w])].jail
    BY DEF OnTop, Top
  <2>3. GoingOn(stack, w, f, stack')
    BY <2>1, <2>2, Zenon DEF GoingOn
  <2> QED BY <2>1, <2>3, TopChanged
<1>2. Sound(stack', flag, jail, calls')
  BY <1>1, InvParts, SameLabels
<1> QED
  BY <1>1, <1>2, InvParts DEF Rest

(* A step that ends the newest task, on a table cs that has all the calls  *)
(* frames run in.                                                          *)
LEMMA LeaveStep ==
  ASSUME IInv, NEW w \in Workers, Busy(w), Leave(w), NEW cs, Table(cs),
         \A v \in Workers : \A k \in 1..Len(stack[v]) :
           stack[v][k].call \in DOMAIN cs /\ cs[stack[v][k].call] = calls[stack[v][k].call],
         NEW state \in {"ok", "error"}, NEW log \in Promise!Logs,
         calls' = Marked(cs, Top(w), state, log)
  PROVE  IInv'
<1>1. Sound(stack, flag, jail, cs)
  BY InvParts, SameLabels
<1>2. Top(w) \in Frames
  BY InvParts, TopIsFrame DEF Busy, Top
<1>3. /\ stack' = [stack EXCEPT ![w] = SubSeq(stack[w], 1, Len(stack[w]) - 1)]
      /\ flag' = [flag EXCEPT ![w] = Top(w).flag]
      /\ jail' = [jail EXCEPT ![w] = Top(w).jail]
      /\ rng' = rng /\ answers' = answers
  BY DEF Leave
<1>4. Stacks(stack') /\ Table(calls') /\ Sound(stack', flag', jail', calls')
  <2>1. /\ Stacks(stack) /\ stack[w] # <<>> /\ Top(w) = stack[w][Len(stack[w])]
        /\ flag \in [Workers -> Flags] /\ jail \in [Workers -> AnyJail]
    BY InvParts DEF Rest, Busy, Top
  <2>2. Popping(stack, flag, jail, cs, w, state, log, stack', flag', jail', calls')
    BY <1>3, <2>1, Zenon DEF Popping
  <2> QED BY <1>1, <2>1, <2>2, Popped
<1>5. Rest(rng', flag', jail', answers')
  BY <1>2, <1>3, InvParts DEF Rest, Frames, AnyJail, Flags
<1> QED
  BY <1>4, <1>5, InvParts

(* What the operations keep of the newest task.                            *)
LEMMA BusyTop ==
  ASSUME IInv, NEW w \in Workers, Busy(w)
  PROVE  Top(w) \in Frames
BY InvParts, TopIsFrame DEF Busy, Top

(* The steps of a task that change no call.                                *)
LEMMA DrawStep ==
  ASSUME IInv, NEW w \in Workers, Draw(w)
  PROVE  IInv'
<1> DEFINE f == [Top(w) EXCEPT !.pc = @ + 1,
                   !.log = @ \cup {[place |-> <<Top(w).pc>>, number |-> rng[w]]}]
<1>1. Busy(w) /\ OnTop(w, f) /\ UNCHANGED <<flag, jail, answers, calls>>
  BY DEF Draw, At, locals
<1>2. Top(w) \in Frames /\ rng[w] \in Promise!Numbers
  BY <1>1, BusyTop, InvParts DEF Rest
<1>3. f \in Frames /\ f.call = Top(w).call /\ f.at = Top(w).at
      /\ f.flag = Top(w).flag /\ f.jail = Top(w).jail
  <2> DEFINE log2 == Top(w).log \cup {[place |-> <<Top(w).pc>>, number |-> rng[w]]}
  <2>1. Top(w).pc \in Nat /\ Top(w).log \in Promise!Logs
    BY <1>2 DEF Frames
  <2>2. <<Top(w).pc>> \in Seq(Nat)
    BY <2>1
  <2>3. log2 \in Promise!Logs
    <3> DEFINE p == <<Top(w).pc>>
               d == [place |-> p, number |-> rng[w]]
    <3> HIDE DEF p
    <3>1. d \in [place : Seq(Nat), number : Promise!Numbers]
      BY <1>2, <2>2 DEF p
    <3>2. log2 = Top(w).log \cup {d}
      BY DEF p
    <3> HIDE DEF d, log2
    <3> QED BY <2>1, <3>1, <3>2 DEF Promise!Logs
  <2> DEFINE g == [Top(w) EXCEPT !.pc = @ + 1]
  <2>4. f = [g EXCEPT !.log = log2]
    OBVIOUS
  <2> HIDE DEF f, log2
  <2>5. g \in Frames /\ g.call = Top(w).call /\ g.at = Top(w).at
        /\ g.flag = Top(w).flag /\ g.jail = Top(w).jail
    BY <1>2, <2>1 DEF Frames
  <2> HIDE DEF g
  <2> QED BY <2>3, <2>4, <2>5 DEF Frames
<1>4. rng' \in [Workers -> Promise!Numbers]
  <2>1. [rng[w] EXCEPT !.count = @ + 1] \in Promise!Numbers
    BY <1>2 DEF Promise!Numbers
  <2>2. rng' = [rng EXCEPT ![w] = [rng[w] EXCEPT !.count = @ + 1]]
    BY DEF Draw
  <2> QED BY <2>1, <2>2, InvParts DEF Rest
<1>5. Table(calls') /\ \A v \in Workers : \A k \in 1..Len(stack[v]) :
        stack[v][k].call \in DOMAIN calls' /\ calls'[stack[v][k].call] = calls[stack[v][k].call]
  BY <1>1, InvParts DEF Sound, Held, RunsIn
<1> HIDE DEF f
<1> QED
  BY <1>1, <1>3, <1>4, <1>5, OnTopStep

(* Waiting for an array operation, and going on after it.                  *)
LEMMA WideStep ==
  ASSUME IInv, NEW w \in Workers, Widen(w) \/ Joined(w)
  PROVE  IInv'
<1> DEFINE g == [Top(w) EXCEPT !.waits = "wide"]
           h == [Top(w) EXCEPT !.pc = @ + 1, !.waits = "no"]
<1>0. Busy(w) /\ (OnTop(w, g) \/ OnTop(w, h)) /\ UNCHANGED <<flag, jail, answers, calls, rng>>
  BY DEF Widen, Joined, At, locals
<1>2. Top(w) \in Frames
  BY <1>0, BusyTop
<1>3a. g \in Frames /\ g.call = Top(w).call /\ g.at = Top(w).at
      /\ g.flag = Top(w).flag /\ g.jail = Top(w).jail
  BY <1>2 DEF Frames
<1>3b. h \in Frames /\ h.call = Top(w).call /\ h.at = Top(w).at
      /\ h.flag = Top(w).flag /\ h.jail = Top(w).jail
  <2> DEFINE e == [Top(w) EXCEPT !.pc = @ + 1]
  <2>1. e \in Frames /\ e.call = Top(w).call /\ e.at = Top(w).at
        /\ e.flag = Top(w).flag /\ e.jail = Top(w).jail
    BY <1>2 DEF Frames
  <2>2. h = [e EXCEPT !.waits = "no"]
    OBVIOUS
  <2> HIDE DEF e, h
  <2> QED BY <2>1, <2>2 DEF Frames
<1> HIDE DEF g, h
<1>1. PICK f \in Frames :
        /\ f.call = Top(w).call /\ f.at = Top(w).at
        /\ f.flag = Top(w).flag /\ f.jail = Top(w).jail
        /\ Busy(w) /\ OnTop(w, f) /\ UNCHANGED <<flag, jail, answers, calls, rng>>
  BY <1>0, <1>3a, <1>3b
<1>4. rng' \in [Workers -> Promise!Numbers]
  BY <1>1, InvParts DEF Rest
<1>5. Table(calls') /\ \A v \in Workers : \A k \in 1..Len(stack[v]) :
        stack[v][k].call \in DOMAIN calls' /\ calls'[stack[v][k].call] = calls[stack[v][k].call]
  BY <1>1, InvParts DEF Sound, Held, RunsIn
<1> QED
  BY <1>1, <1>4, <1>5, OnTopStep

(* A nested call.                                                          *)
LEMMA CallNestedStep ==
  ASSUME IInv, NEW w \in Workers, NEW g \in Lambdas, CallNested(w, g)
  PROVE  IInv'
<1> DEFINE f == [Top(w) EXCEPT !.waits = "parmap"]
           c == NewCall(g, jail[w], rng[w].seed)
<1>1. Busy(w) /\ OnTop(w, f) /\ UNCHANGED <<flag, jail, answers, rng>>
  BY DEF CallNested, At, locals
<1>2. Top(w) \in Frames
  BY <1>1, BusyTop
<1>3. f \in Frames /\ f.call = Top(w).call /\ f.at = Top(w).at
      /\ f.flag = Top(w).flag /\ f.jail = Top(w).jail
  BY <1>2 DEF Frames
<1>4. rng' \in [Workers -> Promise!Numbers] /\ rng[w] \in Promise!Numbers /\ jail[w] \in AnyJail
  BY <1>1, InvParts DEF Rest
<1>5. c \in Calls
  BY <1>4, NewCallType DEF Promise!Numbers
<1>6. calls' = WithCall(calls, Nested(Top(w)), c)
  BY DEF CallNested
<1> HIDE DEF f, c
<1>7. Table(calls')
  BY <1>2, <1>5, <1>6, NestedType, InvParts, TableChanged
<1>8. \A v \in Workers : \A k \in 1..Len(stack[v]) :
        stack[v][k].call \in DOMAIN calls' /\ calls'[stack[v][k].call] = calls[stack[v][k].call]
  BY <1>6, InvParts, NewTakesNothing DEF Sound
<1> QED
  BY <1>1, <1>3, <1>4, <1>7, <1>8, OnTopStep

(* The table without the nested call of a task has the calls that frames   *)
(* run in.                                                                 *)
LEMMA NestedGone ==
  ASSUME IInv, NEW w \in Workers, NestedEnded(w)
  PROVE  /\ Busy(w) /\ Top(w) \in Frames
         /\ Table(WithoutCall(calls, Nested(Top(w))))
         /\ \A v \in Workers : \A k \in 1..Len(stack[v]) :
              /\ stack[v][k].call \in DOMAIN WithoutCall(calls, Nested(Top(w)))
              /\ WithoutCall(calls, Nested(Top(w)))[stack[v][k].call] = calls[stack[v][k].call]
         /\ NestedAnswer(w).log \in Promise!Logs
<1>1. Busy(w) /\ Top(w) \in Frames
  BY BusyTop DEF NestedEnded
<1>2. Table(WithoutCall(calls, Nested(Top(w))))
  BY InvParts, TableChanged
<1>3. \A v \in Workers : \A k \in 1..Len(stack[v]) :
              /\ stack[v][k].call \in DOMAIN WithoutCall(calls, Nested(Top(w)))
              /\ WithoutCall(calls, Nested(Top(w)))[stack[v][k].call] = calls[stack[v][k].call]
  BY InvParts, EndedIsNobodys DEF Sound, NestedEnded, AllEnded
<1>4. NestedAnswer(w) \in [failed : SUBSET Nat, log : Promise!Logs]
  BY InvParts, AnswerType DEF NestedEnded, NestedAnswer, Table, Calls
<1> QED
  BY <1>1, <1>2, <1>3, <1>4

(* The end of a nested call.                                               *)
LEMMA ReturnNestedStep ==
  ASSUME IInv, NEW w \in Workers, ReturnNested(w)
  PROVE  IInv'
<1> DEFINE log2 == Top(w).log \cup Promise!Below(Top(w).pc, NestedAnswer(w).log)
           d == [Top(w) EXCEPT !.pc = @ + 1]
           e == [d EXCEPT !.waits = "no"]
           f == [e EXCEPT !.log = log2]
<1>1. NestedEnded(w)
  BY DEF ReturnNested
<1>2. /\ Busy(w) /\ Top(w) \in Frames /\ NestedAnswer(w).log \in Promise!Logs
      /\ Table(WithoutCall(calls, Nested(Top(w))))
      /\ \A v \in Workers : \A k \in 1..Len(stack[v]) :
              /\ stack[v][k].call \in DOMAIN WithoutCall(calls, Nested(Top(w)))
              /\ WithoutCall(calls, Nested(Top(w)))[stack[v][k].call] = calls[stack[v][k].call]
  BY <1>1, NestedGone
<1>3. OnTop(w, f) /\ calls' = WithoutCall(calls, Nested(Top(w)))
      /\ UNCHANGED <<flag, jail, answers, rng>>
  BY DEF ReturnNested, locals
<1>4. log2 \in Promise!Logs
  <2>1. Top(w).pc \in Nat /\ Top(w).log \in Promise!Logs
    BY <1>2 DEF Frames
  <2>2. Promise!Below(Top(w).pc, NestedAnswer(w).log) \in Promise!Logs
    BY <1>2, <2>1, BelowType
  <2> QED BY <2>1, <2>2 DEF Promise!Logs
<1>5. d \in Frames /\ d.call = Top(w).call /\ d.at = Top(w).at
      /\ d.flag = Top(w).flag /\ d.jail = Top(w).jail
  BY <1>2 DEF Frames
<1> HIDE DEF log2, d
<1>6. e \in Frames /\ e.call = d.call /\ e.at = d.at /\ e.flag = d.flag /\ e.jail = d.jail
  BY <1>5 DEF Frames
<1> HIDE DEF e
<1>7. f \in Frames /\ f.call = e.call /\ f.at = e.at /\ f.flag = e.flag /\ f.jail = e.jail
  BY <1>4, <1>6 DEF Frames
<1> HIDE DEF f
<1>8. rng' \in [Workers -> Promise!Numbers]
  BY <1>3, InvParts DEF Rest
<1>9. Table(calls') /\ \A v \in Workers : \A k \in 1..Len(stack[v]) :
        stack[v][k].call \in DOMAIN calls' /\ calls'[stack[v][k].call] = calls[stack[v][k].call]
  BY <1>2, <1>3
<1>10. f \in Frames /\ f.call = Top(w).call /\ f.at = Top(w).at
       /\ f.flag = Top(w).flag /\ f.jail = Top(w).jail
  BY <1>5, <1>6, <1>7
<1> QED
  BY <1>2, <1>3, <1>8, <1>9, <1>10, OnTopStep

(* An element ends: its nested call failed, its builtin was refused, or    *)
(* its script is done.                                                     *)
LEMMA EndStep ==
  ASSUME IInv, NEW w \in Workers, FailNested(w) \/ RunImpure(w) \/ Finish(w)
  PROVE  IInv'
<1>1. {} \in Promise!Logs
  BY DEF Promise!Logs
<1>2. Table(calls) /\ \A v \in Workers : \A k \in 1..Len(stack[v]) :
        stack[v][k].call \in DOMAIN calls
  BY InvParts DEF Sound, Held, RunsIn
<1>3. CASE FailNested(w)
  <2>1. NestedEnded(w) /\ Leave(w)
        /\ calls' = Marked(WithoutCall(calls, Nested(Top(w))), Top(w), "error", {})
    BY <1>3 DEF FailNested
  <2> QED BY <1>1, <2>1, NestedGone, LeaveStep
<1>4. CASE RunImpure(w) /\ flag[w] = "set"
  <2>1. Busy(w) /\ Leave(w) /\ calls' = Marked(calls, Top(w), "error", {})
    BY <1>4 DEF RunImpure, At
  <2> QED BY <1>1, <1>2, <2>1, LeaveStep
<1>5. CASE RunImpure(w) /\ flag[w] # "set"
  <2> DEFINE f == [Top(w) EXCEPT !.pc = @ + 1]
  <2>1. Busy(w) /\ OnTop(w, f) /\ UNCHANGED <<flag, jail, answers, calls, rng>>
    BY <1>5 DEF RunImpure, At, locals
  <2>2. Top(w) \in Frames
    BY <2>1, BusyTop
  <2>3. f \in Frames /\ f.call = Top(w).call /\ f.at = Top(w).at
        /\ f.flag = Top(w).flag /\ f.jail = Top(w).jail
    BY <2>2 DEF Frames
  <2>4. rng' \in [Workers -> Promise!Numbers]
    BY <2>1, InvParts DEF Rest
  <2>5. Table(calls') /\ \A v \in Workers : \A k \in 1..Len(stack[v]) :
          stack[v][k].call \in DOMAIN calls' /\ calls'[stack[v][k].call] = calls[stack[v][k].call]
    BY <1>2, <2>1
  <2> HIDE DEF f
  <2> QED BY <2>1, <2>3, <2>4, <2>5, OnTopStep
<1>6. CASE Finish(w)
  <2>1. Busy(w) /\ Leave(w) /\ calls' = Marked(calls, Top(w), "ok", Top(w).log)
    BY <1>6 DEF Finish
  <2>2. Top(w).log \in Promise!Logs
    BY <2>1, BusyTop DEF Frames
  <2> QED BY <1>2, <2>1, <2>2, LeaveStep
<1> QED
  BY <1>3, <1>4, <1>5, <1>6

(* Every step keeps the invariant.                                         *)
LEMMA StepSound == IInv /\ [Next]_vars => IInv'
<1> SUFFICES ASSUME IInv, [Next]_vars PROVE IInv'
  OBVIOUS
<1>1. ASSUME NEW c \in Callers, Return(c) PROVE IInv'
  BY <1>1, ReturnStep
<1>2. ASSUME NEW c \in Callers, NEW j \in Jails \cup {NoJail}, Call(c, j) PROVE IInv'
  BY <1>2, CallStep DEF AnyJail
<1>3. ASSUME NEW w \in Workers, Work(w) PROVE IInv'
  <2>1. ASSUME NEW id \in DOMAIN calls, NEW i \in DOMAIN calls[id].trials, Claim(w, id, i)
        PROVE  IInv'
    BY <2>1, ClaimStep
  <2>2. CASE Draw(w)
    BY <2>2, DrawStep
  <2>3. CASE Widen(w) \/ Joined(w)
    BY <2>3, WideStep
  <2>4. ASSUME NEW g \in Lambdas, CallNested(w, g) PROVE IInv'
    BY <2>4, CallNestedStep
  <2>5. CASE ReturnNested(w)
    BY <2>5, ReturnNestedStep
  <2>6. CASE FailNested(w) \/ RunImpure(w) \/ Finish(w)
    BY <2>6, EndStep
  <2> QED BY <1>3, <2>1, <2>2, <2>3, <2>4, <2>5, <2>6 DEF Work
<1>4. CASE UNCHANGED vars
  BY <1>4, InvParts DEF vars
<1> QED
  BY <1>1, <1>2, <1>3, <1>4 DEF Next

(* The types of ParMap, that every task in a stack is one its call counts  *)
(* as running included.                                                    *)
THEOREM TasksAreCounted == Spec => []TypeOK
<1>1. IInv => TypeOK
  BY DEF IInv
<1> QED
  BY <1>1, InitSound, StepSound, PTL DEF Spec

(* A pool thread runs under the flag and the jail of the task on top of    *)
(* its stack, and has neither when it is idle (WorkerScope and             *)
(* ParallelContextGuard in eval/parmap.rs), for any pool, callers, scripts *)
(* and jails.                                                              *)
THEOREM ScopeIsTheTasks == Spec => []ScopeOfTask
<1>1. IInv => ScopeOfTask
  <2> SUFFICES ASSUME IInv, NEW w \in Workers
               PROVE  IF Busy(w) THEN flag[w] = "set" /\ jail[w] = calls[Top(w).call].jail
                                 ELSE flag[w] = "clear" /\ jail[w] = NoJail
    BY DEF ScopeOfTask
  <2>1. /\ flag[w] = FlagOver(Len(stack[w]))
        /\ jail[w] = InForce(stack, calls, w, Len(stack[w]))
    BY InvParts DEF Sound, JailsFit, FlagsFit
  <2>2. CASE Busy(w)
    <3>1. Len(stack[w]) # 0
      BY <2>2, InvParts, TopIsFrame DEF Busy
    <3> QED BY <2>1, <2>2, <3>1 DEF FlagOver, InForce, Top
  <2>3. CASE ~Busy(w)
    <3>1. Len(stack[w]) = 0
      BY <2>3, EmptySeq DEF Busy
    <3> QED BY <2>1, <2>3, <3>1 DEF FlagOver, InForce
  <2> QED BY <2>2, <2>3
<1> QED
  BY <1>1, InitSound, StepSound, PTL DEF Spec

-----------------------------------------------------------------------------
(* Where a task may lend its thread, no draw and no nested parmap follows. *)
DrawsFirst ==
  \A f \in Lambdas : \A i \in DOMAIN Body[f] : \A m, n \in DOMAIN Body[f][i] :
    m < n /\ Body[f][i][m] \in {"wide"} \cup Lambdas
      => Body[f][i][n] \notin {"draw"} \cup Lambdas

CodeIn(cs, f) == Body[cs[f.call].fn][f.at]
SeedIn(cs, f) == Derive(cs[f.call].seed, f.at)

(* What the sequential loop has for an element.                            *)
Due(call, i) == Promise!Trial[call.fn][i][Derive(call.seed, i)]

TrialsFit(cs) ==
  \A id \in DOMAIN cs :
    /\ Len(id) > 1 /\ DOMAIN cs[id].trials = DOMAIN Body[cs[id].fn]
    /\ \A i \in DOMAIN cs[id].trials :
         cs[id].trials[i].state \in {"ok", "error"} => cs[id].trials[i] = Due(cs[id], i)

(* The call id is the one c waits for, or the one f waits for.             *)
MadeBy(cs, an, id, c) ==
  /\ id = <<c, Len(an[c]) + 1>> /\ Len(an[c]) < MaxCalls
  /\ cs[id].fn = Main[c] /\ cs[id].seed = Promise!SeedOf(c)

Awaits(f, id) == f.waits = "parmap" /\ id = Nested(f)

CallersFit(st, cs, an) ==
  \A id \in DOMAIN cs :
    \/ \E c \in Callers : MadeBy(cs, an, id, c)
    \/ \E w \in Workers : \E k \in 1..Len(st[w]) : Awaits(st[w][k], id)

FrameFits(cs, f) ==
  LET body == CodeIn(cs, f)
      s == SeedIn(cs, f)
  IN /\ f.pc \in 1..(Len(body) + 1)
     /\ \A n \in 1..(f.pc - 1) : ~Promise!Fails(Promise!Trial, body, s, n)
     /\ f.log = UNION {Promise!Drawn(Promise!Trial, body, s, n) : n \in 1..(f.pc - 1)}
     /\ f.waits = "wide" => f.pc <= Len(body) /\ body[f.pc] = "wide"
     /\ f.waits = "parmap" =>
          /\ f.pc <= Len(body) /\ body[f.pc] \in Lambdas
          /\ Nested(f) \in DOMAIN cs
          /\ cs[Nested(f)].fn = body[f.pc] /\ cs[Nested(f)].seed = s

FramesFit(st, cs) ==
  \A w \in Workers : \A k \in 1..Len(st[w]) :
    /\ FrameFits(cs, st[w][k])
    /\ k < Len(st[w]) => st[w][k].waits # "no"

(* A generator is the task's own until the task waits.                     *)
NumberFits(cs, f, number) ==
  f.waits = "no" /\ (\A n \in 1..(f.pc - 1) : CodeIn(cs, f)[n] \notin {"wide"} \cup Lambdas)
    => number = [seed |-> SeedIn(cs, f), count |-> Promise!DrawsBefore(CodeIn(cs, f), f.pc)]

NumbersFit(st, cs, rn) ==
  \A w \in Workers : Len(st[w]) > 0 => NumberFits(cs, st[w][Len(st[w])], rn[w])

AsLoop(st, cs, rn, an) ==
  TrialsFit(cs) /\ CallersFit(st, cs, an) /\ FramesFit(st, cs) /\ NumbersFit(st, cs, rn)

(* The two modules count in the same way.                                  *)
LEMMA SameCount ==
  ASSUME NEW S
  PROVE  /\ Promise!IsFiniteSet(S) <=> IsFiniteSet(S)
         /\ Promise!Cardinality(S) = Cardinality(S)
BY DEF Promise!IsFiniteSet, IsFiniteSet, Promise!Cardinality, Cardinality

(* A lambda calls parmap on another one.                                   *)
Calling(f, g) == \E i \in DOMAIN Body[f] : \E n \in DOMAIN Body[f][i] : Body[f][i][n] = g

(* A depth of the script, that Nesting says there is.                      *)
Depth == CHOOSE depth \in [Lambdas -> 1..Cardinality(Lambdas)] :
           \A f, g \in Lambdas : Calling(f, g) => depth[f] < depth[g]

(* A call goes deeper.                                                     *)
LEMMA DepthGrows ==
  /\ \A f \in Lambdas : Depth[f] \in Nat
  /\ \A f, g \in Lambdas : Calling(f, g) => Depth[f] < Depth[g]
<1> DEFINE P(depth) == \A f, g \in Lambdas : Calling(f, g) => depth[f] < depth[g]
           All == [Lambdas -> 1..Cardinality(Lambdas)]
<1>1. Cardinality(Lambdas) \in Nat
  BY ScriptAssumption, SameCount, FS_CardinalityType DEF Promise!Script
<1>2. \E depth \in All : P(depth)
  <2>1. PICK depth \in [Lambdas -> 1..Cardinality(Lambdas)] :
          \A f, g \in Lambdas : \A i \in DOMAIN Body[f] : \A n \in DOMAIN Body[f][i] :
            Body[f][i][n] = g => depth[f] < depth[g]
    BY ScriptAssumption, SameCount DEF Promise!Nesting
  <2>2. P(depth)
    BY <2>1 DEF Calling
  <2> QED BY <2>2
<1>3. Depth \in All /\ P(Depth)
  <2>1. Depth = CHOOSE depth \in All : P(depth)
    BY DEF Depth
  <2> HIDE DEF P, All
  <2> QED BY <1>2, <2>1
<1>4. \A f \in Lambdas : Depth[f] \in 1..Cardinality(Lambdas)
  BY <1>3
<1>5. \A f \in Lambdas : Depth[f] \in Nat
  BY <1>1, <1>4
<1> QED BY <1>3, <1>5

(* Of some lambdas one calls none of the others.                           *)
LEMMA DeepestExists ==
  ASSUME NEW S \in SUBSET Lambdas, S # {}
  PROVE  \E f \in S : \A g \in S : ~(Depth[f] < Depth[g])
<1> DEFINE Above(f) == {g \in S : Depth[f] < Depth[g]}
           Aboves == {Above(f) : f \in S}
<1>0. IsFiniteSet(S)
  BY ScriptAssumption, SameCount, FS_Subset DEF Promise!Script
<1>1. Aboves \subseteq FiniteSubsetsOf(S) /\ Aboves # {}
  <2>1. ASSUME NEW f \in S PROVE Above(f) \in FiniteSubsetsOf(S)
    <3>1. Above(f) \in SUBSET S
      OBVIOUS
    <3> HIDE DEF Above
    <3> QED BY <1>0, <3>1, FS_Subset DEF FiniteSubsetsOf
  <2> QED BY <2>1
<1>2. PICK A \in Aboves : \A B \in Aboves : <<B, A>> \notin StrictSubsetOrdering(S)
  <2> HIDE DEF Aboves
  <2> QED BY <1>0, <1>1, FS_StrictSubsetOrderingWellFounded, WFMin
<1>3. PICK f \in S : A = Above(f)
  OBVIOUS
<1>4. ASSUME NEW g \in S, Depth[f] < Depth[g] PROVE FALSE
  <2>1. g \in Above(f) /\ g \notin Above(g)
    BY <1>4, DepthGrows
  <2>2. ASSUME NEW k \in Above(g) PROVE k \in Above(f)
    <3>1. Depth[f] \in Nat /\ Depth[g] \in Nat /\ Depth[k] \in Nat /\ k \in S /\ Depth[g] < Depth[k]
      BY DepthGrows
    <3> QED BY <1>4, <3>1
  <2>3. Above(g) \in Aboves /\ Above(f) \in SUBSET S /\ Above(g) \in SUBSET S
    OBVIOUS
  <2>4. <<Above(g), Above(f)>> \in StrictSubsetOrdering(S)
    <3> HIDE DEF Above
    <3> QED BY <2>1, <2>2, <2>3 DEF StrictSubsetOrdering
  <2> QED BY <1>2, <1>3, <2>3, <2>4
<1> QED BY <1>4

(* The script's types.                                                     *)
LEMMA ScriptTypes ==
  /\ IsFiniteSet(Lambdas) /\ Lambdas \cap {"draw", "wide", "impure"} = {}
  /\ Main \in [Callers -> Lambdas]
  /\ \A f \in Lambdas :
       /\ Len(Body[f]) \in Nat /\ DOMAIN Body[f] = 1..Len(Body[f])
       /\ \A i \in DOMAIN Body[f] :
            /\ Len(Body[f][i]) \in Nat /\ DOMAIN Body[f][i] = 1..Len(Body[f][i])
            /\ \A n \in DOMAIN Body[f][i] :
                 Body[f][i][n] \in {"draw", "wide", "impure"} \cup Lambdas
<1>1. Body \in [Lambdas -> Seq(Seq({"draw", "wide", "impure"} \cup Lambdas))]
  BY ScriptAssumption DEF Promise!Script, Promise!Ops
<1>2. ASSUME NEW f \in Lambdas
      PROVE  /\ Len(Body[f]) \in Nat /\ DOMAIN Body[f] = 1..Len(Body[f])
             /\ \A i \in DOMAIN Body[f] :
                  /\ Len(Body[f][i]) \in Nat /\ DOMAIN Body[f][i] = 1..Len(Body[f][i])
                  /\ \A n \in DOMAIN Body[f][i] :
                       Body[f][i][n] \in {"draw", "wide", "impure"} \cup Lambdas
  <2> DEFINE O == {"draw", "wide", "impure"} \cup Lambdas
  <2>1. Body[f] \in Seq(Seq(O))
    BY <1>1
  <2> HIDE DEF O
  <2>2. Len(Body[f]) \in Nat /\ DOMAIN Body[f] = 1..Len(Body[f])
    BY <2>1, LenProperties
  <2>3. ASSUME NEW i \in DOMAIN Body[f]
        PROVE  /\ Len(Body[f][i]) \in Nat /\ DOMAIN Body[f][i] = 1..Len(Body[f][i])
               /\ \A n \in DOMAIN Body[f][i] : Body[f][i][n] \in O
    <3>1. Body[f][i] \in Seq(O)
      BY <2>1, <2>2, ElementOfSeq
    <3> QED BY <3>1, LenProperties, ElementOfSeq
  <2> QED BY <2>2, <2>3 DEF O
<1> QED BY <1>2, ScriptAssumption, SameCount DEF Promise!Script, Promise!Ops

-----------------------------------------------------------------------------
(* The recursion of the sequential loop: what f's elements come to if t    *)
(* has what the lambdas they map come to.                                  *)
Row(t, f) ==
  [i \in DOMAIN Body[f] |-> [s \in Promise!Seeds |-> Promise!Ran(t, Body[f][i], s)]]

(* A table of trials for the lambdas of S.                                 *)
Solves(S, t) == t = [f \in S |-> Row(t, f)]

(* A row of it looks only at deeper rows.                                  *)
LEMMA RowLooksDown ==
  ASSUME NEW f \in Lambdas, NEW t, NEW u,
         \A g \in Lambdas : Depth[f] < Depth[g] => t[g] = u[g]
  PROVE  Row(t, f) = Row(u, f)
<1>1. ASSUME NEW i \in DOMAIN Body[f], NEW s \in Promise!Seeds
      PROVE  Promise!Ran(t, Body[f][i], s) = Promise!Ran(u, Body[f][i], s)
  <2> DEFINE body == Body[f][i]
  <2>1. ASSUME NEW n \in DOMAIN body, body[n] \in Lambdas
        PROVE  Promise!InTurn(t, body[n], s) = Promise!InTurn(u, body[n], s)
    <3>1. t[body[n]] = u[body[n]]
      BY <2>1, DepthGrows DEF Calling
    <3> QED BY <3>1 DEF Promise!InTurn
  <2>2. ASSUME NEW n \in DOMAIN body
        PROVE  /\ Promise!Fails(t, body, s, n) = Promise!Fails(u, body, s, n)
               /\ Promise!Drawn(t, body, s, n) = Promise!Drawn(u, body, s, n)
    <3> HIDE DEF body
    <3>1. CASE body[n] \in Lambdas
      BY <2>1, <3>1 DEF Promise!Fails, Promise!Drawn
    <3>2. CASE body[n] \notin Lambdas
      BY <3>2 DEF Promise!Fails, Promise!Drawn
    <3> QED BY <3>1, <3>2
  <2>3. (\E n \in DOMAIN body : Promise!Fails(t, body, s, n))
          = (\E n \in DOMAIN body : Promise!Fails(u, body, s, n))
    <3> HIDE DEF body
    <3> QED BY <2>2
  <2>4. {Promise!Drawn(t, body, s, n) : n \in DOMAIN body}
          = {Promise!Drawn(u, body, s, n) : n \in DOMAIN body}
    <3> HIDE DEF body
    <3> QED BY <2>2
  <2> HIDE DEF body
  <2>5. Promise!Ran(t, body, s) = Promise!Ran(u, body, s)
    BY <2>3, <2>4 DEF Promise!Ran
  <2> QED BY <2>5 DEF body
<1> QED BY <1>1 DEF Row

(* The lambdas as deep as f, or deeper.                                    *)
From(f) == {g \in Lambdas : ~(Depth[g] < Depth[f])}

(* Two solutions agree where both are defined.                             *)
LEMMA SolutionsAgree ==
  ASSUME NEW S \in SUBSET Lambdas, NEW T \in SUBSET Lambdas,
         NEW t, Solves(S, t), NEW u, Solves(T, u),
         NEW f \in Lambdas, From(f) \subseteq S, From(f) \subseteq T
  PROVE  t[f] = u[f]
<1> SUFFICES ASSUME t[f] # u[f] PROVE FALSE
  OBVIOUS
<1> DEFINE Bad == {h \in From(f) : t[h] # u[h]}
<1>2. Bad \in SUBSET Lambdas /\ f \in Bad
  BY DepthGrows DEF From
<1>3. PICK g \in Bad : \A h \in Bad : ~(Depth[g] < Depth[h])
  <2> HIDE DEF Bad
  <2> QED BY <1>2, DeepestExists
<1>4. g \in Lambdas /\ ~(Depth[g] < Depth[f]) /\ g \in S /\ g \in T /\ t[g] # u[g]
  BY <1>3 DEF From
<1>5. ASSUME NEW h \in Lambdas, Depth[g] < Depth[h] PROVE t[h] = u[h]
  <2>1. Depth[h] \in Nat /\ Depth[g] \in Nat /\ Depth[f] \in Nat
    BY <1>4, DepthGrows
  <2>2. ~(Depth[h] < Depth[f])
    BY <1>4, <1>5, <2>1
  <2>3. h \in From(f)
    BY <2>2 DEF From
  <2> QED BY <1>3, <1>5, <2>3
<1>6. t[g] = Row(t, g) /\ u[g] = Row(u, g)
  BY <1>4 DEF Solves
<1> QED BY <1>4, <1>5, <1>6, RowLooksDown

(* Solutions for what lies deeper make one for all of a set.               *)
LEMMA SolutionGrows ==
  ASSUME NEW S \in SUBSET Lambdas,
         \A f \in S : \A h \in Lambdas : Depth[f] < Depth[h] =>
           h \in S /\ \E t : Solves(From(h), t)
  PROVE  \E t : Solves(S, t)
<1> DEFINE Sel(h) == CHOOSE t : Solves(From(h), t)
           deep == [h \in Lambdas |-> Sel(h)[h]]
           all == [f \in S |-> Row(deep, f)]
<1>2. ASSUME NEW f \in S, NEW h \in Lambdas, Depth[f] < Depth[h]
      PROVE  all[h] = deep[h]
  <2>1. h \in S /\ Solves(From(h), Sel(h))
    BY <1>2
  <2>2. ASSUME NEW g \in Lambdas, Depth[h] < Depth[g] PROVE deep[g] = Sel(h)[g]
    <3>1. Depth[g] \in Nat /\ Depth[h] \in Nat /\ Depth[f] \in Nat /\ Depth[f] < Depth[g]
      BY <1>2, <2>2, DepthGrows
    <3>2. Solves(From(g), Sel(g))
      BY <3>1
    <3>3. From(g) \subseteq From(h) /\ From(g) \in SUBSET Lambdas /\ From(h) \in SUBSET Lambdas
      <4>1. ASSUME NEW k \in Lambdas, ~(Depth[k] < Depth[g]) PROVE ~(Depth[k] < Depth[h])
        BY <2>2, <3>1, <4>1, DepthGrows
      <4> QED BY <4>1 DEF From
    <3> DEFINE U == From(g)
               V == From(h)
               t == Sel(g)
               u == Sel(h)
    <3>4. /\ U \in SUBSET Lambdas /\ V \in SUBSET Lambdas
          /\ From(g) \subseteq U /\ From(g) \subseteq V
          /\ Solves(U, t) /\ Solves(V, u)
      BY <2>1, <3>2, <3>3
    <3> HIDE DEF U, V, t, u
    <3>5. \A k \in Lambdas : From(k) \subseteq U /\ From(k) \subseteq V => t[k] = u[k]
      BY <3>4, SolutionsAgree
    <3>6. t[g] = u[g]
      BY <3>4, <3>5
    <3> QED BY <3>6 DEF t, u
  <2>3. Row(deep, h) = Row(Sel(h), h)
    <3> HIDE DEF deep, Sel
    <3> QED BY <2>2, RowLooksDown
  <2>4. h \in From(h)
    BY DepthGrows DEF From
  <2>5. Sel(h)[h] = Row(Sel(h), h)
    <3> HIDE DEF Sel
    <3> QED BY <2>1, <2>4 DEF Solves
  <2>6. all[h] = Row(deep, h)
    <3> HIDE DEF deep
    <3> QED BY <2>1
  <2>7. deep[h] = Sel(h)[h]
    <3> HIDE DEF Sel
    <3> QED OBVIOUS
  <2> HIDE DEF all, deep, Sel
  <2> QED BY <2>3, <2>5, <2>6, <2>7
<1>3. ASSUME NEW f \in S PROVE Row(deep, f) = Row(all, f)
  <2>1. f \in Lambdas /\ \A h \in Lambdas : Depth[f] < Depth[h] => deep[h] = all[h]
    <3> HIDE DEF all, deep
    <3> QED BY <1>2
  <2> HIDE DEF all, deep
  <2> QED BY <2>1, RowLooksDown
<1>4. all = [f \in S |-> Row(all, f)]
  <2> HIDE DEF deep
  <2>1. all = [f \in S |-> Row(deep, f)]
    OBVIOUS
  <2> HIDE DEF all
  <2> QED BY <1>3, <2>1
<1> HIDE DEF all
<1> QED BY <1>4 DEF Solves

(* So the sequential loop has a value for every element, and its recursion *)
(* holds of that.                                                          *)
LEMMA TrialUnfolds == \A f \in Lambdas : Promise!Trial[f] = Row(Promise!Trial, f)
<1> DEFINE Bad == {f \in Lambdas : ~ \E t : Solves(From(f), t)}
<1>1. Bad = {}
  <2> SUFFICES ASSUME Bad # {} PROVE FALSE
    OBVIOUS
  <2>1. PICK f \in Bad : \A g \in Bad : ~(Depth[f] < Depth[g])
    <3>1. Bad \in SUBSET Lambdas
      OBVIOUS
    <3> HIDE DEF Bad
    <3> QED BY <3>1, DeepestExists
  <2>2. f \in Lambdas /\ ~ \E t : Solves(From(f), t)
    BY <2>1
  <2>3. ASSUME NEW g \in From(f), NEW h \in Lambdas, Depth[g] < Depth[h]
        PROVE  h \in From(f) /\ \E t : Solves(From(h), t)
    <3>1. g \in Lambdas /\ ~(Depth[g] < Depth[f])
      BY DEF From
    <3>2. Depth[f] < Depth[h]
      BY <2>2, <2>3, <3>1, DepthGrows
    <3>3. h \notin Bad
      <4> HIDE DEF Bad
      <4> QED BY <2>1, <3>2
    <3>4. ~(Depth[h] < Depth[f])
      BY <2>2, <3>2, DepthGrows
    <3> QED BY <3>3, <3>4 DEF From
  <2>4. From(f) \in SUBSET Lambdas
    BY DEF From
  <2>5. \E t : Solves(From(f), t)
    <3> DEFINE S == From(f)
    <3>1. \A g \in S : \A h \in Lambdas : Depth[g] < Depth[h] =>
            h \in S /\ \E t : Solves(From(h), t)
      BY <2>3
    <3>2. S \in SUBSET Lambdas
      BY <2>4
    <3> HIDE DEF S
    <3>3. \E t : Solves(S, t)
      BY <3>1, <3>2, SolutionGrows
    <3> QED BY <3>3 DEF S
  <2> QED BY <2>2, <2>5
<1>2. \A f \in Lambdas : \E t : Solves(From(f), t)
  BY <1>1
<1>3. \E t : Solves(Lambdas, t)
  BY <1>2, SolutionGrows
<1>4. Promise!Trial = CHOOSE t : Solves(Lambdas, t)
  BY DEF Promise!Trial, Solves, Row
<1>5. Solves(Lambdas, Promise!Trial)
  BY <1>3, <1>4
<1> QED BY <1>5 DEF Solves

(* What the loop has for an element: an error if one of its operations     *)
(* fails, else what they drew.                                             *)
LEMMA DueIs ==
  ASSUME NEW call \in Calls, NEW i \in DOMAIN Body[call.fn]
  PROVE  Due(call, i) = Promise!Ran(Promise!Trial, Body[call.fn][i], Derive(call.seed, i))
<1> DEFINE f == call.fn
           s == Derive(call.seed, i)
<1>1. f \in Lambdas /\ call.seed \in Promise!Seeds /\ i \in Nat
  BY ScriptTypes DEF Calls
<1>2. s \in Promise!Seeds
  BY <1>1, SeedType
<1>3. Promise!Trial[f] = Row(Promise!Trial, f)
  BY <1>1, TrialUnfolds
<1> HIDE DEF s
<1>4. Row(Promise!Trial, f)[i][s] = Promise!Ran(Promise!Trial, Body[f][i], s)
  BY <1>2 DEF Row
<1> QED BY <1>3, <1>4 DEF Due, s

(* A call whose trials have all ended has what the loop has for them.      *)
LEMMA AnswerIs ==
  ASSUME NEW cs, Table(cs), TrialsFit(cs), NEW id \in DOMAIN cs,
         \A i \in DOMAIN cs[id].trials : cs[id].trials[i].state \in {"ok", "error"}
  PROVE  Promise!Answer(cs[id].trials)
           = Promise!InTurn(Promise!Trial, cs[id].fn, cs[id].seed)
<1> DEFINE ts == cs[id].trials
           us == [k \in DOMAIN Body[cs[id].fn] |-> Due(cs[id], k)]
<1>1. ts \in Seq(Trials) /\ DOMAIN ts = DOMAIN Body[cs[id].fn]
  BY DEF Table, Calls, TrialsFit
<1>2. ts = [k \in DOMAIN ts |-> ts[k]]
  BY <1>1
<1>3. \A k \in DOMAIN ts : ts[k] = Due(cs[id], k)
  BY DEF TrialsFit
<1>4. ts = us
  <2> HIDE DEF ts
  <2> QED BY <1>1, <1>2, <1>3
<1>5. us = [k \in DOMAIN Body[cs[id].fn] |->
              Promise!Trial[cs[id].fn][k][Promise!Derive(cs[id].seed, k)]]
  BY DEF Due, Derive
<1> HIDE DEF us, ts
<1>6. Promise!Answer(ts) = Promise!InTurn(Promise!Trial, cs[id].fn, cs[id].seed)
  BY <1>4, <1>5 DEF Promise!InTurn
<1> QED BY <1>6 DEF ts

(* One more operation of a body: one more draw, if it is one.              *)
LEMMA OneMoreDraw ==
  ASSUME NEW body, NEW n \in Nat, n > 0
  PROVE  /\ Promise!DrawsBefore(body, n) \in Nat
         /\ Promise!DrawsBefore(body, n + 1) =
              IF body[n] = "draw" THEN Promise!DrawsBefore(body, n) + 1
                                  ELSE Promise!DrawsBefore(body, n)
<1> DEFINE D == {m \in 1..(n - 1) : body[m] = "draw"}
           E == {m \in 1..(n + 1 - 1) : body[m] = "draw"}
<1>1. IsFiniteSet(D) /\ Cardinality(D) \in Nat
  <2>1. IsFiniteSet(1..(n - 1))
    BY FS_Interval
  <2>2. D \in SUBSET (1..(n - 1))
    OBVIOUS
  <2> HIDE DEF D
  <2> QED BY <2>1, <2>2, FS_Subset, FS_CardinalityType
<1>2. E = IF body[n] = "draw" THEN D \cup {n} ELSE D
  <2>1. \A m : m \in 1..(n + 1 - 1) <=> m \in 1..(n - 1) \/ m = n
    OBVIOUS
  <2> QED BY <2>1
<1>3. n \notin D
  OBVIOUS
<1>4. Promise!DrawsBefore(body, n) = Promise!Cardinality(D)
      /\ Promise!DrawsBefore(body, n + 1) = Promise!Cardinality(E)
  BY DEF Promise!DrawsBefore
<1> HIDE DEF D, E
<1>5. Cardinality(D \cup {n}) = Cardinality(D) + 1
  BY <1>1, <1>3, FS_AddElement
<1> QED BY <1>1, <1>2, <1>4, <1>5, SameCount

(* Nothing is drawn before the first operation.                            *)
LEMMA NoDrawYet ==
  ASSUME NEW body
  PROVE  Promise!DrawsBefore(body, 1) = 0
<1>1. {m \in 1..(1 - 1) : body[m] = "draw"} = {}
  OBVIOUS
<1> QED BY <1>1, FS_EmptySet, SameCount DEF Promise!DrawsBefore

(* What a frame is about.                                                  *)
LEMMA FrameCode ==
  ASSUME NEW cs, Table(cs), TrialsFit(cs), NEW f \in Frames, RunsIn(cs, f)
  PROVE  /\ f.call \in DOMAIN cs /\ cs[f.call] \in Calls /\ cs[f.call].fn \in Lambdas
         /\ f.at \in DOMAIN Body[cs[f.call].fn] /\ f.at \in Nat /\ f.pc \in Nat
         /\ SeedIn(cs, f) \in Promise!Seeds
         /\ Len(CodeIn(cs, f)) \in Nat /\ DOMAIN CodeIn(cs, f) = 1..Len(CodeIn(cs, f))
         /\ \A n \in DOMAIN CodeIn(cs, f) :
              CodeIn(cs, f)[n] \in {"draw", "wide", "impure"} \cup Lambdas
<1>1. f.call \in DOMAIN cs /\ cs[f.call] \in Calls /\ cs[f.call].fn \in Lambdas
      /\ cs[f.call].seed \in Promise!Seeds
  BY DEF RunsIn, Table, Calls
<1>2. f.at \in DOMAIN Body[cs[f.call].fn] /\ f.at \in Nat /\ f.pc \in Nat
  BY DEF RunsIn, TrialsFit, Frames
<1>3. SeedIn(cs, f) \in Promise!Seeds
  BY <1>1, <1>2, SeedType DEF SeedIn
<1> QED BY <1>1, <1>2, <1>3, ScriptTypes DEF CodeIn

(* A table that has the call of f and the one f waits for as they were.    *)
LEMMA FrameKept ==
  ASSUME NEW cs, NEW cs2, NEW f, FrameFits(cs, f), f.call \in DOMAIN cs,
         cs2[f.call].fn = cs[f.call].fn, cs2[f.call].seed = cs[f.call].seed,
         f.waits = "parmap" =>
           /\ Nested(f) \in DOMAIN cs2
           /\ cs2[Nested(f)].fn = cs[Nested(f)].fn /\ cs2[Nested(f)].seed = cs[Nested(f)].seed
  PROVE  /\ FrameFits(cs2, f)
         /\ \A number : NumberFits(cs, f, number) => NumberFits(cs2, f, number)
<1>1. CodeIn(cs2, f) = CodeIn(cs, f) /\ SeedIn(cs2, f) = SeedIn(cs, f)
  BY DEF CodeIn, SeedIn
<1>2. FrameFits(cs2, f)
  BY <1>1 DEF FrameFits
<1>3. \A number : NumberFits(cs, f, number) => NumberFits(cs2, f, number)
  BY <1>1 DEF NumberFits
<1> QED BY <1>2, <1>3

(* A task that did its operation without an error.                         *)
LEMMA FrameMoves ==
  ASSUME NEW cs, NEW f, FrameFits(cs, f), f.pc \in Nat, Len(CodeIn(cs, f)) \in Nat,
         f.pc <= Len(CodeIn(cs, f)),
         ~Promise!Fails(Promise!Trial, CodeIn(cs, f), SeedIn(cs, f), f.pc),
         NEW g, g.call = f.call, g.at = f.at, g.pc = f.pc + 1, g.waits = "no",
         g.log = f.log \cup Promise!Drawn(Promise!Trial, CodeIn(cs, f), SeedIn(cs, f), f.pc)
  PROVE  FrameFits(cs, g)
<1> DEFINE body == CodeIn(cs, f)
           s == SeedIn(cs, f)
           Fail(n) == Promise!Fails(Promise!Trial, body, s, n)
           Draws(n) == Promise!Drawn(Promise!Trial, body, s, n)
           n == f.pc
<1>1. CodeIn(cs, g) = body /\ SeedIn(cs, g) = s
  BY DEF CodeIn, SeedIn
<1>2. /\ n \in 1..(Len(body) + 1) /\ \A m \in 1..(n - 1) : ~Fail(m)
      /\ f.log = UNION {Draws(m) : m \in 1..(n - 1)}
  BY DEF FrameFits
<1>3. n + 1 \in 1..(Len(body) + 1)
  <2> HIDE DEF body
  <2> QED BY <1>2 DEF body
<1>4. n + 1 - 1 = n /\ \A m : m \in 1..n <=> m \in 1..(n - 1) \/ m = n
  BY <1>2
<1>5. \A m \in 1..(g.pc - 1) : ~Fail(m)
  <2> HIDE DEF Fail
  <2>1. ~Fail(n)
    BY DEF Fail
  <2> QED BY <1>2, <1>4, <2>1
<1>6. g.log = UNION {Draws(m) : m \in 1..(g.pc - 1)}
  <2>1. g.log = f.log \cup Draws(n)
    OBVIOUS
  <2> HIDE DEF Draws
  <2>2. g.log = UNION {Draws(m) : m \in 1..n}
    BY <1>2, <1>4, <2>1
  <2> QED BY <1>4, <2>2
<1> QED BY <1>1, <1>3, <1>5, <1>6 DEF FrameFits

(* How a task ends: with the loop's value.                                 *)
LEMMA FrameEnds ==
  ASSUME NEW cs, Table(cs), TrialsFit(cs), NEW f \in Frames, RunsIn(cs, f), FrameFits(cs, f)
  PROVE  /\ f.pc > Len(CodeIn(cs, f)) =>
              Due(cs[f.call], f.at) = [state |-> "ok", log |-> f.log]
         /\ f.pc <= Len(CodeIn(cs, f))
              /\ Promise!Fails(Promise!Trial, CodeIn(cs, f), SeedIn(cs, f), f.pc) =>
              Due(cs[f.call], f.at) = [state |-> "error", log |-> {}]
<1> DEFINE body == CodeIn(cs, f)
           s == SeedIn(cs, f)
           N == Len(body)
<1>1. N \in Nat /\ DOMAIN body = 1..N /\ f.pc \in Nat
      /\ cs[f.call] \in Calls /\ f.at \in DOMAIN Body[cs[f.call].fn]
  BY FrameCode
<1>2. Due(cs[f.call], f.at) = Promise!Ran(Promise!Trial, body, s)
  BY <1>1, DueIs DEF CodeIn, SeedIn
<1>3. /\ f.pc \in 1..(N + 1) /\ \A n \in 1..(f.pc - 1) : ~Promise!Fails(Promise!Trial, body, s, n)
      /\ f.log = UNION {Promise!Drawn(Promise!Trial, body, s, n) : n \in 1..(f.pc - 1)}
  BY DEF FrameFits
<1> HIDE DEF body, s
<1>4. ASSUME f.pc > N PROVE Due(cs[f.call], f.at) = [state |-> "ok", log |-> f.log]
  <2>1. f.pc - 1 = N
    BY <1>1, <1>3, <1>4
  <2>2. ~ \E n \in DOMAIN body : Promise!Fails(Promise!Trial, body, s, n)
    BY <1>1, <1>3, <2>1
  <2>3. f.log = UNION {Promise!Drawn(Promise!Trial, body, s, n) : n \in DOMAIN body}
    BY <1>1, <1>3, <2>1
  <2> QED BY <1>2, <2>2, <2>3 DEF Promise!Ran
<1>5. ASSUME f.pc <= N, Promise!Fails(Promise!Trial, body, s, f.pc)
      PROVE Due(cs[f.call], f.at) = [state |-> "error", log |-> {}]
  <2>1. f.pc \in DOMAIN body
    BY <1>1, <1>3, <1>5
  <2> QED BY <1>2, <1>5, <2>1 DEF Promise!Ran
<1> QED BY <1>4, <1>5 DEF body, s

(* What ties the calls and the tasks to the loop, in this state.           *)
LInv == AsLoop(stack, calls, rng, answers)

(* The name of a nested call tells the task and the operation.             *)
LEMMA NestedTells ==
  ASSUME NEW f \in Frames, NEW g \in Frames
  PROVE  /\ Len(Nested(f)) = Len(f.call) + 2
         /\ Nested(f) = Nested(g) => f.call = g.call /\ f.at = g.at /\ f.pc = g.pc
<1> DEFINE S == Callers \cup Nat
           p == <<f.at, f.pc>>
           q == <<g.at, g.pc>>
<1>1. f.call \in Seq(S) /\ g.call \in Seq(S) /\ p \in Seq(S) /\ q \in Seq(S)
  BY DEF Frames, Ids
<1>2. Len(p) = 2 /\ Len(q) = 2 /\ p[1] = f.at /\ p[2] = f.pc /\ q[1] = g.at /\ q[2] = g.pc
  OBVIOUS
<1> DEFINE n == Len(f.call)
           m == Len(g.call)
<1>3. n \in Nat /\ m \in Nat
  BY <1>1, LenProperties
<1> HIDE DEF p, q, S
<1>4. ASSUME NEW s \in Seq(S), NEW r \in Seq(S), Len(r) = 2
      PROVE  /\ Len(s \o r) = Len(s) + 2 /\ \A i \in 1..Len(s) : (s \o r)[i] = s[i]
             /\ (s \o r)[Len(s) + 1] = r[1] /\ (s \o r)[Len(s) + 2] = r[2]
  <2> DEFINE l == Len(s)
  <2>1. l \in Nat
    BY LenProperties
  <2>20. /\ Len(s \o r) = Len(s) + Len(r)
         /\ \A i \in 1..Len(s) + Len(r) : (s \o r)[i] = IF i <= Len(s) THEN s[i] ELSE r[i - Len(s)]
    BY ConcatProperties
  <2> HIDE DEF l
  <2>2. Len(s \o r) = l + 2
        /\ \A i \in 1..(l + 2) : (s \o r)[i] = IF i <= l THEN s[i] ELSE r[i - l]
    BY <1>4, <2>20 DEF l
  <2>3. \A i \in 1..l : i \in 1..(l + 2) /\ i <= l
    BY <2>1
  <2>4. l + 1 \in 1..(l + 2) /\ l + 2 \in 1..(l + 2) /\ ~(l + 1 <= l) /\ ~(l + 2 <= l)
        /\ l + 1 - l = 1 /\ l + 2 - l = 2
    BY <2>1
  <2>5. \A i \in 1..l : (s \o r)[i] = s[i]
    BY <1>4, <2>2, <2>3
  <2>55. \A i \in 1..(l + 2) : \A j : ~(i <= l) /\ i - l = j => (s \o r)[i] = r[j]
    BY <2>2
  <2> DEFINE x == l + 1
             y == l + 2
  <2>56. x \in 1..(l + 2) /\ ~(x <= l) /\ x - l = 1 /\ y \in 1..(l + 2) /\ ~(y <= l) /\ y - l = 2
    BY <2>1
  <2> HIDE DEF x, y
  <2>6. (s \o r)[x] = r[1]
    BY <2>55, <2>56
  <2>7. (s \o r)[y] = r[2]
    BY <2>55, <2>56
  <2> QED BY <2>2, <2>5, <2>6, <2>7 DEF l, x, y
<1>5. Nested(f) = f.call \o p /\ Nested(g) = g.call \o q
  BY DEF Nested, p, q
<1>51. /\ Len(f.call \o p) = n + 2 /\ \A i \in 1..n : (f.call \o p)[i] = f.call[i]
       /\ (f.call \o p)[n + 1] = p[1] /\ (f.call \o p)[n + 2] = p[2]
  BY <1>1, <1>2, <1>4
<1>52. /\ Len(g.call \o q) = m + 2 /\ \A i \in 1..m : (g.call \o q)[i] = g.call[i]
       /\ (g.call \o q)[m + 1] = q[1] /\ (g.call \o q)[m + 2] = q[2]
  BY <1>1, <1>2, <1>4
<1>6. ASSUME Nested(f) = Nested(g)
      PROVE  f.call = g.call /\ f.at = g.at /\ f.pc = g.pc
  <2>1. n = m
    BY <1>3, <1>5, <1>51, <1>52, <1>6
  <2>2. \A i \in 1..n : f.call[i] = g.call[i]
    BY <1>5, <1>51, <1>52, <1>6, <2>1
  <2>3. f.call = g.call
    <3> HIDE DEF n
    <3> QED BY <1>1, <2>1, <2>2, SeqEqual DEF n
  <2>4. p[1] = q[1] /\ p[2] = q[2]
    BY <1>5, <1>51, <1>52, <1>6, <2>1
  <2> QED BY <1>2, <2>3, <2>4
<1> QED BY <1>5, <1>51, <1>52, <1>6

(* No caller waits for a nested call, and no two tasks for the same.       *)
LEMMA NamesApart ==
  ASSUME NEW st, Stacks(st), NEW cs, Held(st, cs), Apart(st), TrialsFit(cs),
         NEW v \in Workers, NEW k \in 1..Len(st[v])
  PROVE  /\ st[v][k] \in Frames
         /\ \A c, n : Nested(st[v][k]) # <<c, n>>
         /\ Len(Nested(st[v][k])) > 1
         /\ \A w \in Workers : \A l \in 1..Len(st[w]) :
              Nested(st[v][k]) = Nested(st[w][l]) => v = w /\ k = l
<1>1. \A w \in Workers : \A l \in 1..Len(st[w]) : st[w][l] \in Frames
  BY ElementOfSeq DEF Stacks
<1>2. st[v][k].call \in DOMAIN cs
  BY DEF Held, RunsIn
<1>3. Len(st[v][k].call) > 1
  BY <1>2 DEF TrialsFit
<1>4. Len(st[v][k].call) \in Nat
  BY <1>1, LenProperties DEF Frames, Ids
<1>5. Len(Nested(st[v][k])) > 2
  BY <1>1, <1>3, <1>4, NestedTells
<1>6. \A c, n : Len(<<c, n>>) = 2
  OBVIOUS
<1>7. \A w \in Workers : \A l \in 1..Len(st[w]) :
              Nested(st[v][k]) = Nested(st[w][l]) => v = w /\ k = l
  <2> SUFFICES ASSUME NEW w \in Workers, NEW l \in 1..Len(st[w]),
                      Nested(st[v][k]) = Nested(st[w][l])
               PROVE  v = w /\ k = l
    OBVIOUS
  <2>1. st[v][k] \in Frames /\ st[w][l] \in Frames
    BY <1>1
  <2>2. st[v][k].call = st[w][l].call /\ st[v][k].at = st[w][l].at
    BY <2>1, NestedTells
  <2> QED BY <2>2 DEF Apart
<1>8. Len(Nested(st[v][k])) > 1
  BY <1>1, <1>4, <1>5, NestedTells
<1>9. \A c, n : Nested(st[v][k]) # <<c, n>>
  <2> SUFFICES ASSUME NEW c, NEW n, Nested(st[v][k]) = <<c, n>> PROVE FALSE
    OBVIOUS
  <2>1. Len(Nested(st[v][k])) = 2
    BY <1>6
  <2> QED BY <1>5, <2>1
<1> QED BY <1>1, <1>7, <1>8, <1>9

(* cs2 has what the frame f reads of cs.                                   *)
Keeps(cs, cs2, f) ==
  /\ cs2[f.call].fn = cs[f.call].fn /\ cs2[f.call].seed = cs[f.call].seed
  /\ f.waits = "parmap" =>
       /\ Nested(f) \in DOMAIN cs2
       /\ cs2[Nested(f)].fn = cs[Nested(f)].fn /\ cs2[Nested(f)].seed = cs[Nested(f)].seed

(* Such a frame fits the table cs2.                                        *)
LEMMA KeptFits ==
  ASSUME NEW st, NEW cs, Held(st, cs), FramesFit(st, cs), NEW v \in Workers,
         NEW k \in 1..Len(st[v]), NEW cs2, Keeps(cs, cs2, st[v][k])
  PROVE  /\ FrameFits(cs2, st[v][k])
         /\ \A number : NumberFits(cs, st[v][k], number) => NumberFits(cs2, st[v][k], number)
<1> DEFINE f == st[v][k]
<1>1. FrameFits(cs, f) /\ f.call \in DOMAIN cs
  BY DEF FramesFit, Held, RunsIn
<1>2. Keeps(cs, cs2, f)
  OBVIOUS
<1> HIDE DEF f
<1>3. FrameFits(cs2, f) /\ \A number : NumberFits(cs, f, number) => NumberFits(cs2, f, number)
  BY <1>1, <1>2, FrameKept DEF Keeps
<1> QED BY <1>3 DEF f

(* A call that begins owes nothing yet.                                    *)
LEMMA NewFits ==
  ASSUME NEW cs, TrialsFit(cs), NEW id, id \notin DOMAIN cs, Len(id) > 1,
         NEW g \in Lambdas, NEW j, NEW s
  PROVE  TrialsFit(WithCall(cs, id, NewCall(g, j, s)))
<1> DEFINE call == NewCall(g, j, s)
           cs2 == WithCall(cs, id, call)
<1>1. /\ call.fn = g /\ DOMAIN call.trials = DOMAIN Body[g]
      /\ \A i \in DOMAIN call.trials : call.trials[i].state = "todo"
  BY ScriptTypes DEF NewCall
<1> HIDE DEF call
<1>2. DOMAIN cs2 = DOMAIN cs \cup {id} /\ cs2[id] = call /\ \A k \in DOMAIN cs : cs2[k] = cs[k]
  BY DEF WithCall
<1> HIDE DEF cs2
<1>3. ASSUME NEW k \in DOMAIN cs2
      PROVE  /\ Len(k) > 1 /\ DOMAIN cs2[k].trials = DOMAIN Body[cs2[k].fn]
             /\ \A i \in DOMAIN cs2[k].trials :
                  cs2[k].trials[i].state \in {"ok", "error"} => cs2[k].trials[i] = Due(cs2[k], i)
  <2>1. CASE k = id
    BY <1>1, <1>2, <2>1
  <2>2. CASE k \in DOMAIN cs
    BY <1>2, <2>2 DEF TrialsFit
  <2> QED BY <1>2, <2>1, <2>2
<1>4. TrialsFit(cs2)
  BY <1>3 DEF TrialsFit
<1> QED BY <1>4 DEF cs2, call

(* Removing a call.                                                        *)
LEMMA LessFits ==
  ASSUME NEW cs, TrialsFit(cs), NEW id
  PROVE  TrialsFit(WithoutCall(cs, id))
<1> DEFINE cs2 == WithoutCall(cs, id)
<1>1. DOMAIN cs2 = DOMAIN cs \ {id} /\ \A k \in DOMAIN cs2 : cs2[k] = cs[k]
  BY DEF WithoutCall
<1> HIDE DEF cs2
<1>2. TrialsFit(cs2)
  BY <1>1 DEF TrialsFit
<1> QED BY <1>2 DEF cs2

(* A trial that changes its state, to what the loop has when it ends.      *)
LEMMA TrialFits ==
  ASSUME NEW cs, Table(cs), TrialsFit(cs), NEW cs2, NEW id \in DOMAIN cs,
         NEW i \in DOMAIN cs[id].trials, NEW state, OnlyTrial(cs, cs2, id, i, state),
         state \in {"ok", "error"} => cs2[id].trials[i] = Due(cs[id], i)
  PROVE  TrialsFit(cs2)
<1> SUFFICES ASSUME NEW k \in DOMAIN cs2
             PROVE  /\ Len(k) > 1 /\ DOMAIN cs2[k].trials = DOMAIN Body[cs2[k].fn]
                    /\ \A j \in DOMAIN cs2[k].trials :
                         cs2[k].trials[j].state \in {"ok", "error"}
                           => cs2[k].trials[j] = Due(cs2[k], j)
  BY DEF TrialsFit
<1>1. k \in DOMAIN cs /\ cs2[k].fn = cs[k].fn /\ cs2[k].seed = cs[k].seed
      /\ DOMAIN cs2[k].trials = DOMAIN cs[k].trials
  BY DEF OnlyTrial
<1>2. Len(k) > 1 /\ DOMAIN cs2[k].trials = DOMAIN Body[cs2[k].fn]
  BY <1>1 DEF TrialsFit
<1>3. \A j : Due(cs2[k], j) = Due(cs[k], j)
  BY <1>1 DEF Due
<1>4. ASSUME NEW j \in DOMAIN cs2[k].trials, cs2[k].trials[j].state \in {"ok", "error"}
      PROVE  cs2[k].trials[j] = Due(cs2[k], j)
  <2>1. CASE k = id /\ j = i
    <3>1. cs2[id].trials[i].state = state
      BY DEF OnlyTrial
    <3> QED BY <1>3, <1>4, <2>1, <3>1
  <2>2. CASE ~(k = id /\ j = i)
    <3>1. j \in DOMAIN cs[k].trials /\ cs2[k].trials[j] = cs[k].trials[j]
      BY <1>1, <2>2 DEF OnlyTrial
    <3>2. cs[k].trials[j] = Due(cs[k], j)
      BY <1>1, <1>4, <3>1 DEF TrialsFit
    <3> QED BY <1>3, <3>1, <3>2
  <2> QED BY <2>1, <2>2
<1> QED BY <1>2, <1>4

(* LInv in its parts, in this state and in the next.                       *)
LEMMA LoopParts ==
  /\ LInv <=> TrialsFit(calls) /\ CallersFit(stack, calls, answers)
              /\ FramesFit(stack, calls) /\ NumbersFit(stack, calls, rng)
  /\ LInv' <=> TrialsFit(calls') /\ CallersFit(stack', calls', answers')
               /\ FramesFit(stack', calls') /\ NumbersFit(stack', calls', rng')
BY DEF LInv, AsLoop

(* What the two invariants say of the newest task.                         *)
LEMMA TopFits ==
  ASSUME IInv, LInv, NEW w \in Workers, Busy(w)
  PROVE  /\ Top(w) = stack[w][Len(stack[w])] /\ Len(stack[w]) \in 1..Len(stack[w])
         /\ Top(w) \in Frames /\ RunsIn(calls, Top(w)) /\ FrameFits(calls, Top(w))
         /\ NumberFits(calls, Top(w), rng[w])
         /\ Code(w) = CodeIn(calls, Top(w))
<1>1. /\ Len(stack[w]) \in Nat /\ Len(stack[w]) > 0 /\ Len(stack[w]) \in 1..Len(stack[w])
      /\ Top(w) = stack[w][Len(stack[w])] /\ Top(w) \in Frames
  BY InvParts, TopIsFrame DEF Busy, Top
<1>2. RunsIn(calls, Top(w)) /\ FrameFits(calls, Top(w))
  BY <1>1, InvParts, LoopParts DEF Sound, Held, FramesFit
<1>3. NumberFits(calls, Top(w), rng[w])
  BY <1>1, LoopParts DEF NumbersFit
<1> QED BY <1>1, <1>2, <1>3 DEF Code, CodeIn

(* Steps that change no stack.                                             *)
LEMMA SameStackStep ==
  ASSUME IInv, LInv, UNCHANGED <<stack, rng>>, TrialsFit(calls'),
         CallersFit(stack, calls', answers'),
         \A v \in Workers : \A k \in 1..Len(stack[v]) : Keeps(calls, calls', stack[v][k])
  PROVE  LInv'
<1>1. Held(stack, calls) /\ FramesFit(stack, calls) /\ NumbersFit(stack, calls, rng)
  BY InvParts, LoopParts DEF Sound
<1>2. \A v \in Workers : \A k \in 1..Len(stack[v]) :
        /\ FrameFits(calls', stack[v][k])
        /\ \A number : NumberFits(calls, stack[v][k], number)
                         => NumberFits(calls', stack[v][k], number)
  BY <1>1, KeptFits
<1>3. FramesFit(stack, calls')
  BY <1>1, <1>2 DEF FramesFit
<1>4. NumbersFit(stack, calls', rng)
  <2> SUFFICES ASSUME NEW v \in Workers, Len(stack[v]) > 0
               PROVE  NumberFits(calls', stack[v][Len(stack[v])], rng[v])
    BY DEF NumbersFit
  <2>1. Len(stack[v]) \in 1..Len(stack[v])
    BY InvParts, LenProperties DEF Stacks
  <2>2. NumberFits(calls, stack[v][Len(stack[v])], rng[v])
    BY <1>1 DEF NumbersFit
  <2> QED BY <1>2, <2>1, <2>2
<1> QED BY <1>3, <1>4, LoopParts

(* A caller calls.                                                         *)
LEMMA CallLoops ==
  ASSUME IInv, LInv, NEW c \in Callers, NEW j \in AnyJail, Call(c, j)
  PROVE  LInv'
<1> DEFINE id == TopCall(c)
           call == NewCall(Main[c], j, Promise!SeedOf(c))
<1>1. id \notin DOMAIN calls /\ calls' = WithCall(calls, id, call) /\ Len(answers[c]) < MaxCalls
      /\ UNCHANGED <<stack, rng, answers>>
  BY DEF Call
<1>2. Main[c] \in Lambdas /\ Len(id) > 1
  BY ScriptTypes DEF TopCall
<1>3. TrialsFit(calls')
  BY <1>1, <1>2, NewFits, LoopParts
<1>4. DOMAIN calls' = DOMAIN calls \cup {id} /\ calls'[id] = call
      /\ \A k \in DOMAIN calls : calls'[k] = calls[k]
  <2> HIDE DEF id, call
  <2> QED BY <1>1 DEF WithCall
<1>5. CallersFit(stack, calls', answers')
  <2> SUFFICES ASSUME NEW k \in DOMAIN calls'
               PROVE  \/ \E b \in Callers : MadeBy(calls', answers', k, b)
                      \/ \E w \in Workers : \E l \in 1..Len(stack[w]) : Awaits(stack[w][l], k)
    BY DEF CallersFit
  <2>1. CASE k = id
    <3>1. call.fn = Main[c] /\ call.seed = Promise!SeedOf(c)
      BY DEF NewCall
    <3>2. MadeBy(calls', answers', k, c)
      BY <1>1, <1>4, <2>1, <3>1 DEF MadeBy, TopCall
    <3> QED BY <3>2
  <2>2. CASE k \in DOMAIN calls
    <3>1. \/ \E b \in Callers : MadeBy(calls, answers, k, b)
          \/ \E w \in Workers : \E l \in 1..Len(stack[w]) : Awaits(stack[w][l], k)
      BY <2>2, LoopParts DEF CallersFit
    <3>2. \A b \in Callers : MadeBy(calls, answers, k, b) => MadeBy(calls', answers', k, b)
      BY <1>1, <1>4, <2>2 DEF MadeBy
    <3> QED BY <3>1, <3>2
  <2> QED BY <1>4, <2>1, <2>2
<1>6. \A v \in Workers : \A k \in 1..Len(stack[v]) : Keeps(calls, calls', stack[v][k])
  BY <1>4, InvParts, LoopParts DEF Sound, Held, RunsIn, FramesFit, FrameFits, Keeps
<1> QED BY <1>1, <1>3, <1>5, <1>6, SameStackStep

(* What a caller's call is, and what it answers: what the loop does.       *)
LEMMA CallIsMain ==
  ASSUME IInv, LInv, NEW c \in Callers, TopCall(c) \in DOMAIN calls
  PROVE  MadeBy(calls, answers, TopCall(c), c)
<1>1. \/ \E b \in Callers : MadeBy(calls, answers, TopCall(c), b)
      \/ \E w \in Workers : \E l \in 1..Len(stack[w]) : Awaits(stack[w][l], TopCall(c))
  BY LoopParts DEF CallersFit
<1>2. ASSUME NEW w \in Workers, NEW l \in 1..Len(stack[w]), Awaits(stack[w][l], TopCall(c))
      PROVE  FALSE
  <2>1. \A b, n : Nested(stack[w][l]) # <<b, n>>
    BY InvParts, LoopParts, NamesApart DEF Sound
  <2> QED BY <1>2, <2>1 DEF Awaits, TopCall
<1>3. ASSUME NEW b \in Callers, MadeBy(calls, answers, TopCall(c), b) PROVE b = c
  BY <1>3 DEF MadeBy, TopCall
<1> QED BY <1>1, <1>2, <1>3

(* The answer a caller gets is the one of its loop.                        *)
LEMMA ReturnAnswers ==
  ASSUME IInv, LInv, NEW c \in Callers, Return(c)
  PROVE  Promise!Return(c)
<1>1. /\ TopCall(c) \in DOMAIN calls
      /\ \A i \in DOMAIN calls[TopCall(c)].trials :
           calls[TopCall(c)].trials[i].state \in {"ok", "error"}
      /\ answers' = [answers EXCEPT ![c] = Append(@, Promise!Answer(calls[TopCall(c)].trials))]
  BY DEF Return, AllEnded
<1>2. MadeBy(calls, answers, TopCall(c), c)
  BY <1>1, CallIsMain
<1> DEFINE id == TopCall(c)
<1>3. Table(calls) /\ TrialsFit(calls) /\ id \in DOMAIN calls
      /\ \A i \in DOMAIN calls[id].trials : calls[id].trials[i].state \in {"ok", "error"}
  BY <1>1, InvParts, LoopParts
<1> HIDE DEF id
<1>4. Promise!Answer(calls[id].trials)
        = Promise!InTurn(Promise!Trial, calls[id].fn, calls[id].seed)
  BY <1>3, AnswerIs
<1>5. Promise!Answer(calls[id].trials) = Promise!Loop(c)
  BY <1>2, <1>4 DEF MadeBy, Promise!Loop, id
<1> QED BY <1>1, <1>2, <1>5 DEF MadeBy, Promise!Return, id

(* A caller is answered.                                                   *)
LEMMA ReturnLoops ==
  ASSUME IInv, LInv, NEW c \in Callers, Return(c)
  PROVE  LInv'
<1> DEFINE id == TopCall(c)
<1>1. id \in DOMAIN calls /\ AllEnded(id) /\ calls' = WithoutCall(calls, id)
      /\ UNCHANGED <<stack, rng>> /\ \A b \in Callers : b # c => answers'[b] = answers[b]
  BY InvParts DEF Return, Rest
<1>2. TrialsFit(calls')
  BY <1>1, LessFits, LoopParts
<1>3. DOMAIN calls' = DOMAIN calls \ {id} /\ \A k \in DOMAIN calls' : calls'[k] = calls[k]
  <2> HIDE DEF id
  <2> QED BY <1>1 DEF WithoutCall
<1>4. CallersFit(stack, calls', answers')
  <2> SUFFICES ASSUME NEW k \in DOMAIN calls'
               PROVE  \/ \E b \in Callers : MadeBy(calls', answers', k, b)
                      \/ \E w \in Workers : \E l \in 1..Len(stack[w]) : Awaits(stack[w][l], k)
    BY DEF CallersFit
  <2>1. k \in DOMAIN calls /\ k # id /\ calls'[k] = calls[k]
    BY <1>3
  <2>2. \/ \E b \in Callers : MadeBy(calls, answers, k, b)
        \/ \E w \in Workers : \E l \in 1..Len(stack[w]) : Awaits(stack[w][l], k)
    BY <2>1, LoopParts DEF CallersFit
  <2>3. ASSUME NEW b \in Callers, MadeBy(calls, answers, k, b)
        PROVE  MadeBy(calls', answers', k, b)
    <3>1. b # c
      BY <2>1, <2>3 DEF MadeBy, TopCall
    <3> QED BY <1>1, <2>1, <2>3, <3>1 DEF MadeBy
  <2> QED BY <2>2, <2>3
<1>5. \A v \in Workers : \A k \in 1..Len(stack[v]) :
        calls'[stack[v][k].call] = calls[stack[v][k].call]
  BY <1>1, InvParts, EndedIsNobodys DEF Sound, AllEnded
<1>6. ASSUME NEW v \in Workers, NEW k \in 1..Len(stack[v])
      PROVE  Keeps(calls, calls', stack[v][k])
  <2>1. \A b, n : Nested(stack[v][k]) # <<b, n>>
    BY InvParts, LoopParts, NamesApart DEF Sound
  <2>2. Nested(stack[v][k]) # id
    BY <2>1 DEF TopCall
  <2>3. stack[v][k].waits = "parmap" => Nested(stack[v][k]) \in DOMAIN calls
    BY LoopParts DEF FramesFit, FrameFits
  <2> HIDE DEF id
  <2> QED BY <1>3, <1>5, <2>2, <2>3 DEF Keeps
<1> HIDE DEF id
<1> QED BY <1>1, <1>2, <1>4, <1>6, SameStackStep

(* The frames of a table that go on as they were, those of the stack st    *)
(* but the newest of w.                                                    *)
OthersKept(w) ==
  \A v \in Workers : \A k \in 1..Len(stack[v]) :
    ~(v = w /\ k = Len(stack[w])) => Keeps(calls, calls', stack[v][k])

(* They fit the next table as they fitted this one.                        *)
LEMMA OthersFit ==
  ASSUME IInv, LInv, NEW w, OthersKept(w), NEW v \in Workers, NEW k \in 1..Len(stack[v]),
         ~(v = w /\ k = Len(stack[w]))
  PROVE  /\ FrameFits(calls', stack[v][k])
         /\ k = Len(stack[v]) => NumberFits(calls', stack[v][k], rng[v])
         /\ k < Len(stack[v]) => stack[v][k].waits # "no"
<1>1. Held(stack, calls) /\ FramesFit(stack, calls) /\ NumbersFit(stack, calls, rng)
  BY InvParts, LoopParts DEF Sound
<1>2. Keeps(calls, calls', stack[v][k])
  BY DEF OthersKept
<1>3. /\ FrameFits(calls', stack[v][k])
      /\ \A number : NumberFits(calls, stack[v][k], number)
                       => NumberFits(calls', stack[v][k], number)
  BY <1>1, <1>2, KeptFits
<1>4. Len(stack[v]) \in Nat
  BY InvParts, LenProperties DEF Stacks
<1>5. k = Len(stack[v]) => NumberFits(calls, stack[v][k], rng[v])
  BY <1>1, <1>4 DEF NumbersFit
<1>6. k < Len(stack[v]) => stack[v][k].waits # "no"
  BY <1>1 DEF FramesFit
<1> QED BY <1>3, <1>5, <1>6

(* A call that stays, and that the newest task of w does not wait for.     *)
LEMMA StillMade ==
  ASSUME LInv, NEW id \in DOMAIN calls, id \in DOMAIN calls', answers' = answers,
         calls'[id].fn = calls[id].fn, calls'[id].seed = calls[id].seed,
         NEW w, ~Awaits(Top(w), id)
  PROVE  \/ \E b \in Callers : MadeBy(calls', answers', id, b)
         \/ \E v \in Workers : \E l \in 1..Len(stack[v]) :
              Awaits(stack[v][l], id) /\ ~(v = w /\ l = Len(stack[w]))
<1>1. \/ \E b \in Callers : MadeBy(calls, answers, id, b)
      \/ \E v \in Workers : \E l \in 1..Len(stack[v]) : Awaits(stack[v][l], id)
  BY LoopParts DEF CallersFit
<1>2. \A b \in Callers : MadeBy(calls, answers, id, b) => MadeBy(calls', answers', id, b)
  BY DEF MadeBy
<1>3. ASSUME NEW v \in Workers, NEW l \in 1..Len(stack[v]), Awaits(stack[v][l], id)
      PROVE  ~(v = w /\ l = Len(stack[w]))
  BY <1>3 DEF Top
<1> QED BY <1>1, <1>2, <1>3

(* The newest task goes on as f.                                           *)
LEMMA TopStep ==
  ASSUME IInv, LInv, NEW w \in Workers, Busy(w), NEW f \in Frames, OnTop(w, f),
         f.call = Top(w).call, f.at = Top(w).at, answers' = answers,
         \A v \in Workers : v # w => rng'[v] = rng[v],
         OthersKept(w), TrialsFit(calls'), FrameFits(calls', f), NumberFits(calls', f, rng'[w]),
         \A id \in DOMAIN calls' :
           \/ Awaits(f, id)
           \/ /\ id \in DOMAIN calls /\ ~Awaits(Top(w), id)
              /\ calls'[id].fn = calls[id].fn /\ calls'[id].seed = calls[id].seed
  PROVE  LInv'
<1> DEFINE n == Len(stack[w])
<1>1. /\ n \in Nat /\ n > 0 /\ n \in 1..n /\ DOMAIN stack[w] = 1..n
      /\ stack \in [Workers -> Seq(Frames)] /\ stack[w] \in Seq(Frames)
      /\ \A v \in Workers : Len(stack[v]) \in Nat
  BY InvParts, TopIsFrame, LenProperties DEF Busy, Stacks
<1>2. /\ \A v \in Workers : Len(stack'[v]) = Len(stack[v])
      /\ \A v \in Workers : \A k \in 1..Len(stack[v]) :
           stack'[v][k] = IF v = w /\ k = n THEN f ELSE stack[v][k]
  <2> DEFINE q == [stack[w] EXCEPT ![n] = f]
  <2>1. Len(q) = n /\ \A k \in 1..n : q[k] = IF k = n THEN f ELSE stack[w][k]
    BY <1>1, ExceptSeq
  <2>2. stack' = [stack EXCEPT ![w] = q]
    BY DEF OnTop
  <2> HIDE DEF q, n
  <2>3. \A v \in Workers : stack'[v] = IF v = w THEN q ELSE stack[v]
    BY <1>1, <2>2
  <2> QED BY <2>1, <2>3 DEF n
<1>25. Len(stack[w]) = n
  OBVIOUS
<1> HIDE DEF n
<1>3. FramesFit(stack', calls')
  <2> SUFFICES ASSUME NEW v \in Workers, NEW k \in 1..Len(stack'[v])
               PROVE  /\ FrameFits(calls', stack'[v][k])
                      /\ k < Len(stack'[v]) => stack'[v][k].waits # "no"
    BY DEF FramesFit
  <2>1. CASE v = w /\ k = n
    <3>1. stack'[w][n] = f /\ Len(stack'[w]) = n /\ n \in Nat
      BY <1>1, <1>2, <1>25
    <3> QED BY <2>1, <3>1
  <2>2. CASE ~(v = w /\ k = n)
    <3>1. k \in 1..Len(stack[v]) /\ stack'[v][k] = stack[v][k] /\ Len(stack'[v]) = Len(stack[v])
      BY <1>2, <2>2
    <3>2. ~(v = w /\ k = Len(stack[w]))
      BY <2>2 DEF n
    <3> QED BY <3>1, <3>2, OthersFit
  <2> QED BY <2>1, <2>2
<1>4. NumbersFit(stack', calls', rng')
  <2> SUFFICES ASSUME NEW v \in Workers, Len(stack'[v]) > 0
               PROVE  NumberFits(calls', stack'[v][Len(stack'[v])], rng'[v])
    BY DEF NumbersFit
  <2>1. Len(stack[v]) \in 1..Len(stack[v]) /\ Len(stack'[v]) = Len(stack[v])
    BY <1>1, <1>2
  <2>2. CASE v = w
    BY <1>1, <1>2, <2>1, <2>2 DEF n
  <2>3. CASE v # w
    BY <1>2, <2>1, <2>3, OthersFit
  <2> QED BY <2>2, <2>3
<1>5. CallersFit(stack', calls', answers')
  <2> SUFFICES ASSUME NEW id \in DOMAIN calls'
               PROVE  \/ \E b \in Callers : MadeBy(calls', answers', id, b)
                      \/ \E v \in Workers : \E l \in 1..Len(stack'[v]) : Awaits(stack'[v][l], id)
    BY DEF CallersFit
  <2>1. CASE Awaits(f, id)
    BY <1>1, <1>2, <2>1
  <2>2. CASE ~Awaits(f, id)
    <3>1. \/ \E b \in Callers : MadeBy(calls', answers', id, b)
          \/ \E v \in Workers : \E l \in 1..Len(stack[v]) :
               Awaits(stack[v][l], id) /\ ~(v = w /\ l = Len(stack[w]))
      BY <2>2, StillMade
    <3> QED BY <1>2, <3>1 DEF n
  <2> QED BY <2>1, <2>2
<1> QED BY <1>3, <1>4, <1>5, LoopParts

(* A stack without its newest frame.                                       *)
LEMMA AllButLast ==
  ASSUME NEW S, NEW s \in Seq(S), NEW n \in Nat, n > 0, Len(s) = n
  PROVE  /\ Len(SubSeq(s, 1, n - 1)) = n - 1
         /\ \A k \in 1..(n - 1) : SubSeq(s, 1, n - 1)[k] = s[k]
<1>1. 1 \in 1..(Len(s) + 1) /\ n - 1 \in 0..Len(s) /\ n - 1 - 1 + 1 = n - 1
  OBVIOUS
<1> DEFINE m == n - 1
<1>2. m \in Nat /\ m \in (1 - 1)..Len(s) /\ m - 1 + 1 = m
  OBVIOUS
<1> HIDE DEF m
<1>3. Len(SubSeq(s, 1, m)) = m /\ \A k \in 1..m : SubSeq(s, 1, m)[k] = s[1 + k - 1]
  BY <1>1, <1>2, SubSeqProperties
<1>4. \A k \in 1..m : 1 + k - 1 = k
  BY <1>2
<1>5. \A k \in 1..m : SubSeq(s, 1, m)[k] = s[k]
  BY <1>3, <1>4
<1> QED BY <1>3, <1>5 DEF m

(* The newest task ends, in a table cs that lost no more than the call it  *)
(* waited for.                                                             *)
LEMMA EndLoops ==
  ASSUME IInv, LInv, NEW w \in Workers, Busy(w), Leave(w),
         NEW cs, Table(cs), TrialsFit(cs), RunsIn(cs, Top(w)),
         \A id \in DOMAIN cs : id \in DOMAIN calls /\ cs[id] = calls[id] /\ ~Awaits(Top(w), id),
         \A v \in Workers : \A k \in 1..Len(stack[v]) :
           ~(v = w /\ k = Len(stack[w])) =>
             /\ stack[v][k].call \in DOMAIN cs
             /\ stack[v][k].waits = "parmap" => Nested(stack[v][k]) \in DOMAIN cs,
         NEW state \in {"ok", "error"}, NEW log \in Promise!Logs,
         Due(cs[Top(w).call], Top(w).at) = [state |-> state, log |-> log],
         calls' = Marked(cs, Top(w), state, log)
  PROVE  LInv'
<1> DEFINE n == Len(stack[w])
           f == Top(w)
<1>1. /\ n \in Nat /\ n > 0 /\ n \in 1..n /\ DOMAIN stack[w] = 1..n
      /\ stack \in [Workers -> Seq(Frames)] /\ stack[w] \in Seq(Frames)
      /\ \A v \in Workers : Len(stack[v]) \in Nat
      /\ f \in Frames
  BY InvParts, TopIsFrame, LenProperties DEF Busy, Stacks, Top
<1>2. /\ \A v \in Workers : v # w => stack'[v] = stack[v] /\ rng'[v] = rng[v]
      /\ Len(stack'[w]) = n - 1 /\ \A k \in 1..(n - 1) : stack'[w][k] = stack[w][k]
      /\ rng' = rng /\ answers' = answers
  <2>1. stack' = [stack EXCEPT ![w] = SubSeq(stack[w], 1, n - 1)] /\ rng' = rng /\ answers' = answers
    BY DEF Leave
  <2>4. /\ Len(SubSeq(stack[w], 1, n - 1)) = n - 1
        /\ \A k \in 1..(n - 1) : SubSeq(stack[w], 1, n - 1)[k] = stack[w][k]
    BY <1>1, AllButLast
  <2> HIDE DEF n
  <2> QED BY <1>1, <2>1, <2>4
<1>3. OnlyTrial(cs, calls', f.call, f.at, state) /\ OfLog(calls', f, log) /\ Table(calls')
  <2> HIDE DEF f
  <2> QED BY <1>1, Ended DEF f
<1>4. calls'[f.call].trials[f.at] = [state |-> state, log |-> log]
  <2>1. f.call \in DOMAIN calls' /\ f.at \in DOMAIN calls'[f.call].trials
    BY <1>3 DEF OnlyTrial, RunsIn
  <2>2. calls'[f.call].trials \in Seq(Trials)
    BY <1>3, <2>1 DEF Table, Calls
  <2>3. calls'[f.call].trials[f.at] \in Trials
    BY <2>1, <2>2, LenProperties, ElementOfSeq
  <2>4. calls'[f.call].trials[f.at].state = state /\ calls'[f.call].trials[f.at].log = log
    BY <1>3 DEF OnlyTrial, OfLog
  <2> DEFINE t == calls'[f.call].trials[f.at]
  <2> HIDE DEF t, f
  <2>5. t = [state |-> state, log |-> log]
    BY <2>3, <2>4 DEF Trials, t
  <2> QED BY <2>5 DEF t
<1>5. TrialsFit(calls')
  <2> DEFINE id == f.call
             i == f.at
  <2>1. id \in DOMAIN cs /\ i \in DOMAIN cs[id].trials
    BY DEF RunsIn
  <2>2. OnlyTrial(cs, calls', id, i, state) /\ calls'[id].trials[i] = Due(cs[id], i)
    BY <1>3, <1>4
  <2> HIDE DEF id, i
  <2> QED BY <2>1, <2>2, TrialFits
<1>6. /\ DOMAIN calls' = DOMAIN cs
      /\ \A id \in DOMAIN calls' :
           /\ id \in DOMAIN calls /\ ~Awaits(Top(w), id)
           /\ calls'[id].fn = calls[id].fn /\ calls'[id].seed = calls[id].seed
  BY <1>3 DEF OnlyTrial
<1>65. Len(stack[w]) = n
  OBVIOUS
<1> HIDE DEF n, f
<1>7. OthersKept(w)
  BY <1>6 DEF OthersKept, Keeps
<1>8. \A v \in Workers : \A k \in 1..Len(stack'[v]) :
        /\ k \in 1..Len(stack[v]) /\ stack'[v][k] = stack[v][k] /\ ~(v = w /\ k = Len(stack[w]))
        /\ v = w => k < Len(stack[v])
        /\ v # w => Len(stack'[v]) = Len(stack[v])
  <2> SUFFICES ASSUME NEW v \in Workers, NEW k \in 1..Len(stack'[v])
               PROVE  /\ k \in 1..Len(stack[v]) /\ stack'[v][k] = stack[v][k]
                      /\ ~(v = w /\ k = Len(stack[w]))
                      /\ v = w => k < Len(stack[v])
                      /\ v # w => Len(stack'[v]) = Len(stack[v])
    OBVIOUS
  <2>1. CASE v = w
    <3>1. k \in 1..(n - 1)
      BY <1>2, <2>1
    <3>2. k \in 1..n /\ k < n
      BY <1>1, <3>1
    <3> QED BY <1>2, <1>65, <2>1, <3>1, <3>2
  <2>2. CASE v # w
    BY <1>2, <2>2
  <2> QED BY <2>1, <2>2
<1>9. FramesFit(stack', calls')
  <2> SUFFICES ASSUME NEW v \in Workers, NEW k \in 1..Len(stack'[v])
               PROVE  /\ FrameFits(calls', stack'[v][k])
                      /\ k < Len(stack'[v]) => stack'[v][k].waits # "no"
    BY DEF FramesFit
  <2>1. /\ k \in 1..Len(stack[v]) /\ stack'[v][k] = stack[v][k] /\ ~(v = w /\ k = Len(stack[w]))
        /\ v = w => k < Len(stack[v])
        /\ v # w => Len(stack'[v]) = Len(stack[v])
    BY <1>8
  <2> QED BY <1>7, <2>1, OthersFit
<1>10. NumbersFit(stack', calls', rng')
  <2> SUFFICES ASSUME NEW v \in Workers, Len(stack'[v]) > 0
               PROVE  NumberFits(calls', stack'[v][Len(stack'[v])], rng'[v])
    BY DEF NumbersFit
  <2> DEFINE k == Len(stack'[v])
  <2>1. k \in 1..Len(stack'[v])
    <3>1. Len(stack'[v]) \in Nat
      <4>1. CASE v = w
        BY <1>1, <1>2, <4>1
      <4>2. CASE v # w
        BY <1>1, <1>2, <4>2
      <4> QED BY <4>1, <4>2
    <3> QED BY <3>1
  <2> HIDE DEF k
  <2>2. /\ k \in 1..Len(stack[v]) /\ stack'[v][k] = stack[v][k] /\ ~(v = w /\ k = Len(stack[w]))
        /\ v = w => k < Len(stack[v])
        /\ v # w => Len(stack'[v]) = Len(stack[v])
    BY <1>8, <2>1
  <2>3. ASSUME v = w PROVE NumberFits(calls', stack'[v][k], rng'[v])
    <3>1. stack'[v][k].waits # "no"
      BY <1>7, <2>2, <2>3, OthersFit
    <3> QED BY <3>1 DEF NumberFits
  <2>4. ASSUME v # w PROVE NumberFits(calls', stack'[v][k], rng'[v])
    <3>1. k = Len(stack[v]) /\ rng'[v] = rng[v]
      BY <1>2, <2>2, <2>4 DEF k
    <3> QED BY <1>7, <2>2, <3>1, OthersFit
  <2>5. NumberFits(calls', stack'[v][k], rng'[v])
    BY <2>3, <2>4
  <2> QED BY <2>5 DEF k
<1>11. CallersFit(stack', calls', answers')
  <2> SUFFICES ASSUME NEW id \in DOMAIN calls'
               PROVE  \/ \E b \in Callers : MadeBy(calls', answers', id, b)
                      \/ \E v \in Workers : \E l \in 1..Len(stack'[v]) : Awaits(stack'[v][l], id)
    BY DEF CallersFit
  <2>1. \/ \E b \in Callers : MadeBy(calls', answers', id, b)
        \/ \E v \in Workers : \E l \in 1..Len(stack[v]) :
             Awaits(stack[v][l], id) /\ ~(v = w /\ l = Len(stack[w]))
    BY <1>2, <1>6, StillMade
  <2>2. ASSUME NEW v \in Workers, NEW l \in 1..Len(stack[v]), ~(v = w /\ l = Len(stack[w]))
        PROVE  l \in 1..Len(stack'[v]) /\ stack'[v][l] = stack[v][l]
    <3>1. CASE v = w
      <4>1. l \in 1..n /\ l # n
        BY <1>65, <2>2, <3>1
      <4>2. l \in 1..(n - 1)
        BY <1>1, <4>1
      <4> QED BY <1>2, <3>1, <4>2
    <3>2. CASE v # w
      BY <1>2, <3>2
    <3> QED BY <3>1, <3>2
  <2> QED BY <2>1, <2>2
<1> QED BY <1>5, <1>9, <1>10, <1>11, LoopParts

(* A thread takes up an element.                                           *)
LEMMA ClaimLoops ==
  ASSUME IInv, LInv, NEW w \in Workers, NEW id \in DOMAIN calls,
         NEW i \in DOMAIN calls[id].trials, Claim(w, id, i)
  PROVE  LInv'
<1> DEFINE n == Len(stack[w])
           f == [call |-> id, at |-> i, pc |-> 1, waits |-> "no", log |-> {},
                 flag |-> flag[w], jail |-> jail[w]]
<1>1. /\ stack' = [stack EXCEPT ![w] = Append(stack[w], f)] /\ Free(w)
      /\ calls' = [calls EXCEPT ![id].trials[i].state = "running"]
      /\ rng' = [rng EXCEPT ![w] = Seeded(id, i)] /\ answers' = answers
  BY DEF Claim
<1>2. /\ n \in Nat /\ stack \in [Workers -> Seq(Frames)] /\ stack[w] \in Seq(Frames)
      /\ \A v \in Workers : Len(stack[v]) \in Nat
      /\ rng \in [Workers -> Promise!Numbers]
  BY InvParts, LenProperties DEF Stacks, Rest
<1>3. id \in Ids /\ calls[id] \in Calls /\ i \in Nat /\ flag[w] \in Flags /\ jail[w] \in AnyJail
  BY InvParts, LenProperties DEF Table, Calls, Rest
<1>4. f \in Frames
  BY <1>3 DEF Frames, AnyJail, Flags, Promise!Logs
<1>5. /\ f.call = id /\ f.at = i /\ f.pc = 1 /\ f.waits = "no" /\ f.log = {}
  OBVIOUS
<1> HIDE DEF f
<1>6. /\ \A v \in Workers : v # w => stack'[v] = stack[v] /\ rng'[v] = rng[v]
      /\ Len(stack'[w]) = n + 1 /\ stack'[w][n + 1] = f
      /\ \A k \in 1..n : stack'[w][k] = stack[w][k]
      /\ rng'[w] = Seeded(id, i)
  <2>1. /\ Len(Append(stack[w], f)) = n + 1 /\ Append(stack[w], f)[n + 1] = f
        /\ \A k \in 1..n : Append(stack[w], f)[k] = stack[w][k]
    BY <1>2, <1>4, AppendProperties
  <2> HIDE DEF n
  <2> QED BY <1>1, <1>2, <2>1
<1>7. OnlyTrial(calls, calls', id, i, "running")
  BY <1>1, InvParts, TakenUp
<1>8. TrialsFit(calls')
  BY <1>7, InvParts, LoopParts, TrialFits
<1>9. /\ DOMAIN calls' = DOMAIN calls
      /\ \A k \in DOMAIN calls : calls'[k].fn = calls[k].fn /\ calls'[k].seed = calls[k].seed
  BY <1>7 DEF OnlyTrial
<1>10. \A v \in Workers : \A k \in 1..Len(stack[v]) :
         /\ Keeps(calls, calls', stack[v][k]) /\ FrameFits(calls', stack[v][k])
         /\ k = Len(stack[v]) => NumberFits(calls', stack[v][k], rng[v])
         /\ k < Len(stack[v]) => stack[v][k].waits # "no"
  <2>1. \A v \in Workers : \A k \in 1..Len(stack[v]) : Keeps(calls, calls', stack[v][k])
    BY <1>9, InvParts, LoopParts DEF Sound, Held, RunsIn, FramesFit, FrameFits, Keeps
  <2>2. Held(stack, calls) /\ FramesFit(stack, calls) /\ NumbersFit(stack, calls, rng)
    BY InvParts, LoopParts DEF Sound
  <2>3. \A v \in Workers : \A k \in 1..Len(stack[v]) :
          /\ FrameFits(calls', stack[v][k])
          /\ \A number : NumberFits(calls, stack[v][k], number)
                           => NumberFits(calls', stack[v][k], number)
    BY <2>1, <2>2, KeptFits
  <2>4. \A v \in Workers : \A k \in 1..Len(stack[v]) :
          /\ k = Len(stack[v]) => NumberFits(calls, stack[v][k], rng[v])
          /\ k < Len(stack[v]) => stack[v][k].waits # "no"
    BY <1>2, <2>2 DEF NumbersFit, FramesFit
  <2> QED BY <2>1, <2>3, <2>4
<1>11. n > 0 => stack[w][n].waits # "no"
  BY <1>1, <1>2, EmptySeq DEF Free, Busy, Top
<1>12. FrameFits(calls', f)
  <2>1. Len(CodeIn(calls', f)) \in Nat
    BY <1>3, <1>5, <1>9, LoopParts, ScriptTypes DEF CodeIn, TrialsFit, Calls
  <2>2. 1 \in 1..(Len(CodeIn(calls', f)) + 1) /\ \A m : m \notin 1..(1 - 1)
    BY <2>1
  <2>3. {} = UNION {Promise!Drawn(Promise!Trial, CodeIn(calls', f), SeedIn(calls', f), m) :
                      m \in 1..(f.pc - 1)}
    BY <1>5, <2>2
  <2> QED BY <1>5, <2>2, <2>3 DEF FrameFits
<1>13. NumberFits(calls', f, rng'[w])
  <2>1. Seeded(id, i) = [seed |-> SeedIn(calls', f), count |-> 0]
    BY <1>5, <1>9 DEF Seeded, SeedIn
  <2> QED BY <1>5, <1>6, <2>1, NoDrawYet DEF NumberFits
<1>14. \A v \in Workers : \A k \in 1..Len(stack'[v]) :
         \/ v = w /\ k = n + 1 /\ stack'[v][k] = f
         \/ /\ k \in 1..Len(stack[v]) /\ stack'[v][k] = stack[v][k]
            /\ v # w => Len(stack'[v]) = Len(stack[v])
            /\ v = w => k <= n
  BY <1>2, <1>6
<1>15. FramesFit(stack', calls')
  <2> SUFFICES ASSUME NEW v \in Workers, NEW k \in 1..Len(stack'[v])
               PROVE  /\ FrameFits(calls', stack'[v][k])
                      /\ k < Len(stack'[v]) => stack'[v][k].waits # "no"
    BY DEF FramesFit
  <2>1. CASE v = w /\ k = n + 1 /\ stack'[v][k] = f
    BY <1>2, <1>6, <1>12, <2>1
  <2>2. CASE /\ k \in 1..Len(stack[v]) /\ stack'[v][k] = stack[v][k]
             /\ v # w => Len(stack'[v]) = Len(stack[v])
             /\ v = w => k <= n
    <3>1. FrameFits(calls', stack'[v][k])
      BY <1>10, <2>2
    <3>2. CASE v # w
      BY <1>10, <2>2, <3>1, <3>2
    <3>3. CASE v = w /\ k < n
      BY <1>10, <2>2, <3>1, <3>3
    <3>4. CASE v = w /\ k = n
      BY <1>2, <1>11, <2>2, <3>1, <3>4
    <3>5. v = w => k < n \/ k = n
      BY <1>2, <2>2
    <3> QED BY <3>2, <3>3, <3>4, <3>5
  <2> QED BY <1>14, <2>1, <2>2
<1>16. NumbersFit(stack', calls', rng')
  <2> SUFFICES ASSUME NEW v \in Workers, Len(stack'[v]) > 0
               PROVE  NumberFits(calls', stack'[v][Len(stack'[v])], rng'[v])
    BY DEF NumbersFit
  <2>1. CASE v = w
    BY <1>6, <1>13, <2>1
  <2>2. CASE v # w
    <3>1. stack'[v] = stack[v] /\ rng'[v] = rng[v] /\ Len(stack[v]) \in 1..Len(stack[v])
      BY <1>2, <1>6, <2>2
    <3> QED BY <1>10, <3>1
  <2> QED BY <2>1, <2>2
<1>17. CallersFit(stack', calls', answers')
  <2> SUFFICES ASSUME NEW k \in DOMAIN calls'
               PROVE  \/ \E b \in Callers : MadeBy(calls', answers', k, b)
                      \/ \E v \in Workers : \E l \in 1..Len(stack'[v]) : Awaits(stack'[v][l], k)
    BY DEF CallersFit
  <2>1. \/ \E b \in Callers : MadeBy(calls, answers, k, b)
        \/ \E v \in Workers : \E l \in 1..Len(stack[v]) : Awaits(stack[v][l], k)
    BY <1>9, LoopParts DEF CallersFit
  <2>2. \A b \in Callers : MadeBy(calls, answers, k, b) => MadeBy(calls', answers', k, b)
    BY <1>1, <1>9 DEF MadeBy
  <2>3. ASSUME NEW v \in Workers, NEW l \in 1..Len(stack[v])
        PROVE  l \in 1..Len(stack'[v]) /\ stack'[v][l] = stack[v][l]
    BY <1>2, <1>6
  <2> QED BY <2>1, <2>2, <2>3
<1> QED BY <1>8, <1>15, <1>16, <1>17, LoopParts

(* A frame that goes on: what its task did is in the log.                  *)
LEMMA Advanced ==
  ASSUME NEW g \in Frames, NEW log \in Promise!Logs, NEW waits \in {"no", "wide", "parmap"},
         NEW pc \in Nat, NEW f,
         f = [call |-> g.call, at |-> g.at, pc |-> pc, waits |-> waits, log |-> log,
              flag |-> g.flag, jail |-> g.jail]
  PROVE  /\ f \in Frames /\ f.call = g.call /\ f.at = g.at /\ f.pc = pc
         /\ f.waits = waits /\ f.log = log
BY DEF Frames

(* The ways the steps write such a frame.                                  *)
LEMMA Spelled ==
  ASSUME NEW g \in Frames, NEW log, NEW waits
  PROVE  /\ [g EXCEPT !.pc = @ + 1, !.log = log] =
              [call |-> g.call, at |-> g.at, pc |-> g.pc + 1, waits |-> g.waits, log |-> log,
               flag |-> g.flag, jail |-> g.jail]
         /\ [g EXCEPT !.pc = @ + 1, !.waits = waits] =
              [call |-> g.call, at |-> g.at, pc |-> g.pc + 1, waits |-> waits, log |-> g.log,
               flag |-> g.flag, jail |-> g.jail]
         /\ [g EXCEPT !.waits = waits] =
              [call |-> g.call, at |-> g.at, pc |-> g.pc, waits |-> waits, log |-> g.log,
               flag |-> g.flag, jail |-> g.jail]
<1> DEFINE Rec(pc, waits2, log2) ==
             [call |-> g.call, at |-> g.at, pc |-> pc, waits |-> waits2, log |-> log2,
              flag |-> g.flag, jail |-> g.jail]
<1>1. g = Rec(g.pc, g.waits, g.log)
  BY DEF Frames
<1>2. \A p, u, l : /\ [Rec(p, u, l) EXCEPT !.pc = p + 1] = Rec(p + 1, u, l)
                  /\ [Rec(p, u, l) EXCEPT !.waits = waits] = Rec(p, waits, l)
                  /\ [Rec(p, u, l) EXCEPT !.log = log] = Rec(p, u, log)
                  /\ Rec(p, u, l).pc = p
  OBVIOUS
<1> DEFINE d == [g EXCEPT !.pc = @ + 1]
<1> HIDE DEF Rec
<1>3. d = Rec(g.pc + 1, g.waits, g.log) /\ [g EXCEPT !.waits = waits] = Rec(g.pc, waits, g.log)
  BY <1>1, <1>2
<1> HIDE DEF d
<1>4. /\ [d EXCEPT !.waits = waits] = Rec(g.pc + 1, waits, g.log)
      /\ [d EXCEPT !.log = log] = Rec(g.pc + 1, g.waits, log)
  BY <1>2, <1>3
<1>5. /\ [g EXCEPT !.pc = @ + 1, !.log = log] = Rec(g.pc + 1, g.waits, log)
      /\ [g EXCEPT !.pc = @ + 1, !.waits = waits] = Rec(g.pc + 1, waits, g.log)
  BY <1>4 DEF d
<1> QED BY <1>3, <1>5 DEF Rec

(* A step of the newest task that touches no call.                         *)
LEMMA QuietStep ==
  ASSUME IInv, LInv, NEW w \in Workers, Busy(w), NEW f \in Frames, OnTop(w, f),
         f.call = Top(w).call, f.at = Top(w).at, answers' = answers, calls' = calls,
         Top(w).waits # "parmap", \A v \in Workers : v # w => rng'[v] = rng[v],
         FrameFits(calls, f), NumberFits(calls, f, rng'[w])
  PROVE  LInv'
<1>1. TrialsFit(calls') /\ FrameFits(calls', f) /\ NumberFits(calls', f, rng'[w])
  BY LoopParts
<1>2. OthersKept(w)
  BY LoopParts DEF OthersKept, Keeps, FramesFit, FrameFits
<1>3. \A id \in DOMAIN calls' :
           \/ Awaits(f, id)
           \/ /\ id \in DOMAIN calls /\ ~Awaits(Top(w), id)
              /\ calls'[id].fn = calls[id].fn /\ calls'[id].seed = calls[id].seed
  BY DEF Awaits
<1> QED BY <1>1, <1>2, <1>3, TopStep

(* A task that may draw, or call parmap, has its thread's generator.       *)
LEMMA OwnGenerator ==
  ASSUME DrawsFirst, IInv, LInv, NEW w \in Workers, Busy(w), Top(w).waits = "no",
         Top(w).pc <= Len(Code(w)), Code(w)[Top(w).pc] \in {"draw"} \cup Lambdas
  PROVE  rng[w] = [seed |-> SeedIn(calls, Top(w)),
                   count |-> Promise!DrawsBefore(CodeIn(calls, Top(w)), Top(w).pc)]
<1> DEFINE f == Top(w)
           body == CodeIn(calls, f)
<1>1. /\ f \in Frames /\ RunsIn(calls, f) /\ FrameFits(calls, f)
      /\ NumberFits(calls, f, rng[w]) /\ Code(w) = body
  BY TopFits
<1>2. /\ calls[f.call].fn \in Lambdas /\ f.at \in DOMAIN Body[calls[f.call].fn]
      /\ f.pc \in Nat /\ Len(body) \in Nat /\ DOMAIN body = 1..Len(body)
  BY <1>1, InvParts, LoopParts, FrameCode
<1>3. f.pc \in 1..(Len(body) + 1) /\ f.pc <= Len(body)
  BY <1>1 DEF FrameFits
<1> HIDE DEF f
<1>4. ASSUME NEW n \in 1..(f.pc - 1) PROVE body[n] \notin {"wide"} \cup Lambdas
  <2>1. n \in DOMAIN body /\ f.pc \in DOMAIN body /\ n < f.pc
    <3> HIDE DEF body
    <3> QED BY <1>2, <1>3
  <2>2. body[f.pc] \in {"draw"} \cup Lambdas
    BY <1>1 DEF f
  <2> QED BY <1>2, <2>1, <2>2 DEF DrawsFirst, CodeIn
<1>5. f.waits = "no"
  BY DEF f
<1>6. rng[w] = [seed |-> SeedIn(calls, f), count |-> Promise!DrawsBefore(body, f.pc)]
  BY <1>1, <1>4, <1>5 DEF NumberFits
<1> QED BY <1>6 DEF f

(* One draw more is a log.                                                 *)
LEMMA OneDraw ==
  ASSUME NEW log \in Promise!Logs, NEW n \in Nat, NEW number \in Promise!Numbers
  PROVE  log \cup {[place |-> <<n>>, number |-> number]} \in Promise!Logs
<1> DEFINE p == <<n>>
           d == [place |-> p, number |-> number]
<1>1. p \in Seq(Nat)
  OBVIOUS
<1> HIDE DEF p
<1>2. d \in [place : Seq(Nat), number : Promise!Numbers]
  BY <1>1
<1> HIDE DEF d
<1>3. log \cup {d} \in Promise!Logs
  BY <1>2 DEF Promise!Logs
<1> QED BY <1>3 DEF d, p

(* A draw: the number the loop draws there.                                *)
LEMMA DrawLoops ==
  ASSUME DrawsFirst, IInv, LInv, NEW w \in Workers, Draw(w)
  PROVE  LInv'
<1> DEFINE g == Top(w)
           body == CodeIn(calls, g)
           s == SeedIn(calls, g)
           log2 == g.log \cup {[place |-> <<g.pc>>, number |-> rng[w]]}
           f == [g EXCEPT !.pc = @ + 1, !.log = log2]
           k == Promise!DrawsBefore(body, g.pc)
<1>1. /\ Busy(w) /\ g.waits = "no" /\ g.pc <= Len(Code(w)) /\ Code(w)[g.pc] = "draw"
      /\ OnTop(w, f) /\ calls' = calls /\ answers' = answers
      /\ rng' = [rng EXCEPT ![w].count = @ + 1]
  BY DEF Draw, At
<1>2. /\ g \in Frames /\ RunsIn(calls, g) /\ FrameFits(calls, g) /\ Code(w) = body
  BY <1>1, TopFits
<1>3. /\ g.pc \in Nat /\ Len(body) \in Nat /\ s \in Promise!Seeds
  BY <1>2, InvParts, LoopParts, FrameCode
<1>4. rng[w] = [seed |-> s, count |-> k]
  BY <1>1, OwnGenerator
<1>5. g.pc > 0 /\ g.pc <= Len(body) /\ body[g.pc] = "draw" /\ "draw" \notin Lambdas
  <2>1. "draw" \notin Lambdas
    BY ScriptTypes
  <2>2. g.pc \in 1..(Len(body) + 1)
    BY <1>2 DEF FrameFits
  <2> HIDE DEF g, body
  <2> QED BY <1>1, <1>2, <1>3, <2>1, <2>2 DEF g
<1>6. f.call = g.call /\ f.at = g.at /\ f.pc = g.pc + 1 /\ f.waits = "no" /\ f.log = log2
  <2> HIDE DEF log2, g
  <2> QED BY <1>1, <1>2, Spelled DEF g
<1>7. Promise!Drawn(Promise!Trial, body, s, g.pc)
        = {[place |-> <<g.pc>>, number |-> [seed |-> s, count |-> k]]}
  <2> HIDE DEF body, s, g
  <2> QED BY <1>5 DEF Promise!Drawn
<1>8. ~Promise!Fails(Promise!Trial, body, s, g.pc)
  <2> HIDE DEF body, s, g
  <2> QED BY <1>5 DEF Promise!Fails
<1>9. FrameFits(calls, f)
  <2> HIDE DEF f, g
  <2> QED BY <1>2, <1>3, <1>4, <1>5, <1>6, <1>7, <1>8, FrameMoves
<1>10. k \in Nat /\ Promise!DrawsBefore(body, g.pc + 1) = k + 1
  <2> HIDE DEF body, g
  <2> QED BY <1>3, <1>5, OneMoreDraw
<1>11. /\ rng'[w] = [seed |-> s, count |-> k + 1]
       /\ \A v \in Workers : v # w => rng'[v] = rng[v]
  <2>1. rng \in [Workers -> Promise!Numbers]
    BY InvParts DEF Rest
  <2>2. rng'[w] = [rng[w] EXCEPT !.count = @ + 1]
    BY <1>1, <2>1
  <2> HIDE DEF s, k
  <2>3. [[seed |-> s, count |-> k] EXCEPT !.count = @ + 1] = [seed |-> s, count |-> k + 1]
    OBVIOUS
  <2> QED BY <1>1, <1>4, <2>1, <2>2, <2>3
<1>12. NumberFits(calls, f, rng'[w])
  <2>1. CodeIn(calls, f) = body /\ SeedIn(calls, f) = s
    BY <1>6 DEF CodeIn, SeedIn
  <2> HIDE DEF f, body, s, k, g
  <2> QED BY <1>6, <1>10, <1>11, <2>1 DEF NumberFits
<1>13. f \in Frames
  <2>1. rng[w] \in Promise!Numbers
    BY InvParts DEF Rest
  <2>2. log2 \in Promise!Logs
    BY <1>2, <1>3, <2>1, OneDraw DEF Frames
  <2> HIDE DEF log2, g, f
  <2>3. f = [call |-> g.call, at |-> g.at, pc |-> g.pc + 1, waits |-> g.waits, log |-> log2,
             flag |-> g.flag, jail |-> g.jail]
    BY <1>2, Spelled DEF f
  <2>4. g.waits \in {"no", "wide", "parmap"} /\ g.pc + 1 \in Nat
    BY <1>2, <1>3 DEF Frames
  <2> QED BY <1>2, <2>2, <2>3, <2>4, Advanced
<1> HIDE DEF f
<1> QED BY <1>1, <1>6, <1>9, <1>11, <1>12, <1>13, QuietStep

(* A task that waits for an array operation, and goes on after it.         *)
LEMMA WidenLoops ==
  ASSUME IInv, LInv, NEW w \in Workers, Widen(w)
  PROVE  LInv'
<1> DEFINE g == Top(w)
           f == [g EXCEPT !.waits = "wide"]
<1>1. /\ Busy(w) /\ g.waits = "no" /\ g.pc <= Len(Code(w)) /\ Code(w)[g.pc] = "wide"
      /\ OnTop(w, f) /\ calls' = calls /\ answers' = answers /\ rng' = rng
  BY DEF Widen, At
<1>2. g \in Frames /\ FrameFits(calls, g) /\ Code(w) = CodeIn(calls, g)
  BY <1>1, TopFits
<1>3. f \in Frames /\ f.call = g.call /\ f.at = g.at /\ f.pc = g.pc /\ f.waits = "wide"
      /\ f.log = g.log
  <2> HIDE DEF g, f
  <2>1. f = [call |-> g.call, at |-> g.at, pc |-> g.pc, waits |-> "wide", log |-> g.log,
             flag |-> g.flag, jail |-> g.jail]
    BY <1>2, Spelled DEF f
  <2>2. g.pc \in Nat /\ g.log \in Promise!Logs
    BY <1>2 DEF Frames
  <2> QED BY <1>2, <2>1, <2>2, Advanced
<1> HIDE DEF f
<1>4. CodeIn(calls, f) = CodeIn(calls, g) /\ SeedIn(calls, f) = SeedIn(calls, g)
  BY <1>3 DEF CodeIn, SeedIn
<1>5. FrameFits(calls, f)
  BY <1>1, <1>2, <1>3, <1>4 DEF FrameFits
<1>6. NumberFits(calls, f, rng'[w])
  BY <1>3 DEF NumberFits
<1> QED BY <1>1, <1>3, <1>5, <1>6, QuietStep

(* The array operation is done: the loop drew nothing for it.              *)
LEMMA JoinedLoops ==
  ASSUME IInv, LInv, NEW w \in Workers, Joined(w)
  PROVE  LInv'
<1> DEFINE g == Top(w)
           f == [g EXCEPT !.pc = @ + 1, !.waits = "no"]
           body == CodeIn(calls, g)
           s == SeedIn(calls, g)
<1>1. /\ Busy(w) /\ g.waits = "wide"
      /\ OnTop(w, f) /\ calls' = calls /\ answers' = answers /\ rng' = rng
  BY DEF Joined
<1>2. g \in Frames /\ RunsIn(calls, g) /\ FrameFits(calls, g)
  BY <1>1, TopFits
<1>3. g.pc \in Nat /\ Len(body) \in Nat
  BY <1>2, InvParts, LoopParts, FrameCode
<1>4. g.pc \in 1..(Len(body) + 1) /\ g.pc <= Len(body) /\ body[g.pc] = "wide"
  BY <1>1, <1>2 DEF FrameFits
<1>5. "wide" \notin Lambdas
  BY ScriptTypes
<1>6. f \in Frames /\ f.call = g.call /\ f.at = g.at /\ f.pc = g.pc + 1 /\ f.waits = "no"
      /\ f.log = g.log
  <2> HIDE DEF g, f
  <2>1. f = [call |-> g.call, at |-> g.at, pc |-> g.pc + 1, waits |-> "no", log |-> g.log,
             flag |-> g.flag, jail |-> g.jail]
    BY <1>2, Spelled DEF f
  <2>2. g.pc + 1 \in Nat /\ g.log \in Promise!Logs
    BY <1>2, <1>3 DEF Frames
  <2> QED BY <1>2, <2>1, <2>2, Advanced
<1> HIDE DEF f
<1>7. /\ Promise!Drawn(Promise!Trial, body, s, g.pc) = {}
      /\ ~Promise!Fails(Promise!Trial, body, s, g.pc)
  <2> HIDE DEF body, s, g
  <2> QED BY <1>4, <1>5 DEF Promise!Drawn, Promise!Fails
<1>8. FrameFits(calls, f)
  <2> HIDE DEF g
  <2>1. f.log = g.log \cup {}
    BY <1>6
  <2> QED BY <1>2, <1>3, <1>4, <1>6, <1>7, <2>1, FrameMoves
<1>9. NumberFits(calls, f, rng'[w])
  <2>1. CodeIn(calls, f) = body
    BY <1>6 DEF CodeIn
  <2> HIDE DEF g, body
  <2>2. g.pc \in 1..(f.pc - 1)
    BY <1>3, <1>4, <1>6
  <2> QED BY <1>4, <2>1, <2>2 DEF NumberFits
<1>10. g.waits # "parmap"
  BY <1>1
<1> QED BY <1>1, <1>6, <1>8, <1>9, <1>10, QuietStep

(* The newest task of w does not wait: no call has the name of the one it  *)
(* is about to make.                                                       *)
LEMMA NestedIsNew ==
  ASSUME IInv, LInv, NEW w \in Workers, Busy(w), Top(w).waits = "no"
  PROVE  Nested(Top(w)) \notin DOMAIN calls /\ Len(Nested(Top(w))) > 1
<1>1. Top(w) = stack[w][Len(stack[w])] /\ Len(stack[w]) \in 1..Len(stack[w])
  BY TopFits
<1>2. Stacks(stack) /\ Held(stack, calls) /\ Apart(stack) /\ TrialsFit(calls)
  BY InvParts, LoopParts DEF Sound
<1>3. /\ \A c, n : Nested(Top(w)) # <<c, n>>
      /\ Len(Nested(Top(w))) > 1
      /\ \A v \in Workers : \A l \in 1..Len(stack[v]) :
           Nested(Top(w)) = Nested(stack[v][l]) => w = v /\ Len(stack[w]) = l
  BY <1>1, <1>2, NamesApart
<1>4. ASSUME Nested(Top(w)) \in DOMAIN calls PROVE FALSE
  <2>1. \/ \E b \in Callers : MadeBy(calls, answers, Nested(Top(w)), b)
        \/ \E v \in Workers : \E l \in 1..Len(stack[v]) : Awaits(stack[v][l], Nested(Top(w)))
    BY <1>4, LoopParts DEF CallersFit
  <2>2. ASSUME NEW b \in Callers, MadeBy(calls, answers, Nested(Top(w)), b) PROVE FALSE
    BY <1>3, <2>2 DEF MadeBy
  <2>3. ASSUME NEW v \in Workers, NEW l \in 1..Len(stack[v]), Awaits(stack[v][l], Nested(Top(w)))
        PROVE  FALSE
    <3>1. w = v /\ Len(stack[w]) = l /\ stack[v][l].waits = "parmap"
      BY <1>3, <2>3 DEF Awaits
    <3> QED BY <1>1, <3>1
  <2> QED BY <2>1, <2>2, <2>3
<1> QED BY <1>3, <1>4

(* A nested call, under the seed the loop has for it.                      *)
LEMMA CallNestedLoops ==
  ASSUME DrawsFirst, IInv, LInv, NEW w \in Workers, NEW h \in Lambdas, CallNested(w, h)
  PROVE  LInv'
<1> DEFINE g == Top(w)
           f == [g EXCEPT !.waits = "parmap"]
           id == Nested(g)
           call == NewCall(h, jail[w], rng[w].seed)
<1>1. /\ Busy(w) /\ g.waits = "no" /\ g.pc <= Len(Code(w)) /\ Code(w)[g.pc] = h
      /\ OnTop(w, f) /\ calls' = WithCall(calls, id, call) /\ answers' = answers /\ rng' = rng
  BY DEF CallNested, At
<1>2. g \in Frames /\ FrameFits(calls, g) /\ Code(w) = CodeIn(calls, g) /\ RunsIn(calls, g)
  BY <1>1, TopFits
<1>3. /\ f \in Frames /\ f.call = g.call /\ f.at = g.at /\ f.pc = g.pc /\ f.waits = "parmap"
      /\ f.log = g.log
  <2> HIDE DEF g, f
  <2>1. f = [call |-> g.call, at |-> g.at, pc |-> g.pc, waits |-> "parmap", log |-> g.log,
             flag |-> g.flag, jail |-> g.jail]
    BY <1>2, Spelled DEF f
  <2>2. g.pc \in Nat /\ g.log \in Promise!Logs
    BY <1>2 DEF Frames
  <2> QED BY <1>2, <2>1, <2>2, Advanced
<1>4. id \notin DOMAIN calls /\ Len(id) > 1
  BY <1>1, NestedIsNew
<1>5. rng[w].seed = SeedIn(calls, g)
  <2>1. Code(w)[g.pc] \in {"draw"} \cup Lambdas
    BY <1>1
  <2>2. rng[w] = [seed |-> SeedIn(calls, Top(w)),
                  count |-> Promise!DrawsBefore(CodeIn(calls, Top(w)), Top(w).pc)]
    BY <1>1, <2>1, OwnGenerator
  <2> QED BY <2>2
<1>6. TrialsFit(calls')
  BY <1>1, <1>4, LoopParts, NewFits
<1>7. call.fn = h /\ call.seed = SeedIn(calls, g)
  BY <1>5 DEF NewCall
<1> HIDE DEF f, call
<1>8. /\ DOMAIN calls' = DOMAIN calls \cup {id} /\ calls'[id] = call
      /\ \A k \in DOMAIN calls : calls'[k] = calls[k]
  <2> HIDE DEF id
  <2> QED BY <1>1, <1>4 DEF WithCall
<1>9. Nested(f) = id
  BY <1>3 DEF Nested
<1>10. g.call \in DOMAIN calls
  BY <1>2 DEF RunsIn
<1>11. CodeIn(calls', f) = CodeIn(calls, g) /\ SeedIn(calls', f) = SeedIn(calls, g)
  BY <1>3, <1>8, <1>10 DEF CodeIn, SeedIn
<1>12. FrameFits(calls', f)
  <2> HIDE DEF g, id
  <2>1. f.pc <= Len(CodeIn(calls', f)) /\ CodeIn(calls', f)[f.pc] = h
    BY <1>1, <1>2, <1>3, <1>11 DEF g
  <2>2. /\ Nested(f) \in DOMAIN calls' /\ calls'[Nested(f)].fn = CodeIn(calls', f)[f.pc]
        /\ calls'[Nested(f)].seed = SeedIn(calls', f)
    BY <1>7, <1>8, <1>9, <1>11, <2>1
  <2> QED BY <1>2, <1>3, <1>11, <2>1, <2>2 DEF FrameFits
<1>13. NumberFits(calls', f, rng'[w])
  BY <1>3 DEF NumberFits
<1>14. OthersKept(w)
  <2> HIDE DEF id
  <2> QED BY <1>8, InvParts, LoopParts
             DEF OthersKept, Keeps, FramesFit, FrameFits, Sound, Held, RunsIn
<1>15. \A k \in DOMAIN calls' :
           \/ Awaits(f, k)
           \/ /\ k \in DOMAIN calls /\ ~Awaits(Top(w), k)
              /\ calls'[k].fn = calls[k].fn /\ calls'[k].seed = calls[k].seed
  <2> HIDE DEF id
  <2> QED BY <1>1, <1>3, <1>8, <1>9 DEF Awaits
<1> HIDE DEF id
<1> QED BY <1>1, <1>3, <1>6, <1>12, <1>13, <1>14, <1>15, TopStep

(* What the newest task gets from its nested call is what the loop has.    *)
LEMMA NestedIsDue ==
  ASSUME IInv, LInv, NEW w \in Workers, NestedEnded(w)
  PROVE  /\ Busy(w) /\ Top(w) \in Frames /\ FrameFits(calls, Top(w)) /\ RunsIn(calls, Top(w))
         /\ Top(w).pc \in Nat /\ Len(CodeIn(calls, Top(w))) \in Nat
         /\ Top(w).pc <= Len(CodeIn(calls, Top(w)))
         /\ CodeIn(calls, Top(w))[Top(w).pc] \in Lambdas
         /\ NestedAnswer(w) = Promise!InTurn(Promise!Trial, CodeIn(calls, Top(w))[Top(w).pc],
                                             SeedIn(calls, Top(w)))
<1> DEFINE g == Top(w)
           id == Nested(g)
<1>1. /\ Busy(w) /\ g.waits = "parmap" /\ id \in DOMAIN calls
      /\ \A i \in DOMAIN calls[id].trials : calls[id].trials[i].state \in {"ok", "error"}
      /\ NestedAnswer(w) = Promise!Answer(calls[id].trials)
  BY DEF NestedEnded, AllEnded, NestedAnswer
<1>2. g \in Frames /\ FrameFits(calls, g) /\ RunsIn(calls, g)
  BY <1>1, TopFits
<1>3. g.pc \in Nat /\ Len(CodeIn(calls, g)) \in Nat
  BY <1>2, InvParts, LoopParts, FrameCode
<1>4. /\ g.pc <= Len(CodeIn(calls, g)) /\ CodeIn(calls, g)[g.pc] \in Lambdas
      /\ calls[id].fn = CodeIn(calls, g)[g.pc] /\ calls[id].seed = SeedIn(calls, g)
  BY <1>1, <1>2 DEF FrameFits
<1>5. Promise!Answer(calls[id].trials)
        = Promise!InTurn(Promise!Trial, calls[id].fn, calls[id].seed)
  <2> HIDE DEF id
  <2> QED BY <1>1, InvParts, LoopParts, AnswerIs
<1> QED BY <1>1, <1>2, <1>3, <1>4, <1>5

(* The table without the nested call of the newest task of w.              *)
LEMMA NestedLeft ==
  ASSUME IInv, LInv, NEW w \in Workers, NestedEnded(w),
         NEW cs, cs = WithoutCall(calls, Nested(Top(w)))
  PROVE  /\ Table(cs) /\ TrialsFit(cs)
         /\ \A id \in DOMAIN cs : id \in DOMAIN calls /\ cs[id] = calls[id] /\ ~Awaits(Top(w), id)
         /\ \A v \in Workers : \A k \in 1..Len(stack[v]) :
              /\ stack[v][k].call \in DOMAIN cs /\ cs[stack[v][k].call] = calls[stack[v][k].call]
              /\ ~(v = w /\ k = Len(stack[w])) /\ stack[v][k].waits = "parmap" =>
                   Nested(stack[v][k]) \in DOMAIN cs
<1>1. /\ Table(cs) /\ \A v \in Workers : \A k \in 1..Len(stack[v]) :
           stack[v][k].call \in DOMAIN cs /\ cs[stack[v][k].call] = calls[stack[v][k].call]
  BY NestedGone
<1>2. TrialsFit(cs)
  BY LoopParts, LessFits
<1>3. DOMAIN cs = DOMAIN calls \ {Nested(Top(w))} /\ \A id \in DOMAIN cs : cs[id] = calls[id]
  BY DEF WithoutCall
<1>4. \A id \in DOMAIN cs : id \in DOMAIN calls /\ cs[id] = calls[id] /\ ~Awaits(Top(w), id)
  BY <1>3 DEF Awaits
<1>5. Top(w) = stack[w][Len(stack[w])] /\ Len(stack[w]) \in 1..Len(stack[w])
  BY TopFits DEF NestedEnded
<1>6. \A v \in Workers : \A k \in 1..Len(stack[v]) :
        Nested(Top(w)) = Nested(stack[v][k]) => w = v /\ Len(stack[w]) = k
  BY <1>5, InvParts, LoopParts, NamesApart DEF Sound
<1>7. \A v \in Workers : \A k \in 1..Len(stack[v]) :
        stack[v][k].waits = "parmap" => Nested(stack[v][k]) \in DOMAIN calls
  BY LoopParts DEF FramesFit, FrameFits
<1> QED BY <1>1, <1>2, <1>3, <1>4, <1>6, <1>7

(* The frame after a nested call.                                          *)
LEMMA SpelledOut ==
  ASSUME NEW g \in Frames, NEW log
  PROVE  [g EXCEPT !.pc = @ + 1, !.waits = "no", !.log = log] =
              [call |-> g.call, at |-> g.at, pc |-> g.pc + 1, waits |-> "no", log |-> log,
               flag |-> g.flag, jail |-> g.jail]
<1> DEFINE d == [g EXCEPT !.pc = @ + 1, !.waits = "no"]
<1>1. d = [call |-> g.call, at |-> g.at, pc |-> g.pc + 1, waits |-> "no", log |-> g.log,
           flag |-> g.flag, jail |-> g.jail]
  BY Spelled
<1>2. [g EXCEPT !.pc = @ + 1, !.waits = "no", !.log = log] = [d EXCEPT !.log = log]
  OBVIOUS
<1> HIDE DEF d
<1> QED BY <1>1, <1>2

(* A nested call that ended well: its draws are the ones of the loop.      *)
LEMMA ReturnNestedLoops ==
  ASSUME IInv, LInv, NEW w \in Workers, ReturnNested(w)
  PROVE  LInv'
<1> DEFINE g == Top(w)
           body == CodeIn(calls, g)
           s == SeedIn(calls, g)
           log2 == g.log \cup Promise!Below(g.pc, NestedAnswer(w).log)
           f == [g EXCEPT !.pc = @ + 1, !.waits = "no", !.log = log2]
<1>1. /\ NestedEnded(w) /\ NestedAnswer(w).failed = {} /\ OnTop(w, f)
      /\ calls' = WithoutCall(calls, Nested(Top(w))) /\ answers' = answers /\ rng' = rng
  BY DEF ReturnNested
<1>2. /\ Busy(w) /\ g \in Frames /\ FrameFits(calls, g) /\ RunsIn(calls, g)
      /\ g.pc \in Nat /\ Len(body) \in Nat /\ g.pc <= Len(body) /\ body[g.pc] \in Lambdas
      /\ NestedAnswer(w) = Promise!InTurn(Promise!Trial, body[g.pc], s)
  BY <1>1, NestedIsDue
<1>3. body[g.pc] # "impure" /\ body[g.pc] # "draw"
  BY <1>2, ScriptTypes
<1>4. /\ Promise!Drawn(Promise!Trial, body, s, g.pc) = Promise!Below(g.pc, NestedAnswer(w).log)
      /\ ~Promise!Fails(Promise!Trial, body, s, g.pc)
  <2> HIDE DEF body, s, g
  <2> QED BY <1>1, <1>2, <1>3 DEF Promise!Drawn, Promise!Fails
<1>5. log2 \in Promise!Logs
  <2>1. NestedAnswer(w).log \in Promise!Logs
    BY <1>1, NestedGone
  <2>2. Promise!Below(g.pc, NestedAnswer(w).log) \in Promise!Logs /\ g.log \in Promise!Logs
    BY <1>2, <2>1, BelowType DEF Frames
  <2> QED BY <2>2 DEF Promise!Logs
<1>6. /\ f \in Frames /\ f.call = g.call /\ f.at = g.at /\ f.pc = g.pc + 1 /\ f.waits = "no"
      /\ f.log = log2
  <2> HIDE DEF g, f, log2
  <2>1. f = [call |-> g.call, at |-> g.at, pc |-> g.pc + 1, waits |-> "no", log |-> log2,
             flag |-> g.flag, jail |-> g.jail]
    <3>1. [g EXCEPT !.pc = @ + 1, !.waits = "no", !.log = log2] =
            [call |-> g.call, at |-> g.at, pc |-> g.pc + 1, waits |-> "no", log |-> log2,
             flag |-> g.flag, jail |-> g.jail]
      BY <1>2, SpelledOut
    <3> QED BY <3>1 DEF f
  <2>2. g.pc + 1 \in Nat
    BY <1>2
  <2> QED BY <1>2, <1>5, <2>1, <2>2, Advanced
<1> HIDE DEF f
<1>7. FrameFits(calls, f)
  <2> HIDE DEF g
  <2> QED BY <1>2, <1>4, <1>6, FrameMoves
<1>8. /\ TrialsFit(calls')
      /\ \A id \in DOMAIN calls' :
           id \in DOMAIN calls /\ calls'[id] = calls[id] /\ ~Awaits(Top(w), id)
      /\ \A v \in Workers : \A k \in 1..Len(stack[v]) :
           /\ stack[v][k].call \in DOMAIN calls' /\ calls'[stack[v][k].call] = calls[stack[v][k].call]
           /\ ~(v = w /\ k = Len(stack[w])) /\ stack[v][k].waits = "parmap" =>
                Nested(stack[v][k]) \in DOMAIN calls'
  BY <1>1, NestedLeft
<1>9. calls'[g.call] = calls[g.call] /\ g.call \in DOMAIN calls
  <2>1. g = stack[w][Len(stack[w])] /\ Len(stack[w]) \in 1..Len(stack[w])
    BY <1>2, TopFits
  <2> HIDE DEF g
  <2> QED BY <1>2, <1>8, <2>1 DEF RunsIn
<1>10. FrameFits(calls', f)
  <2>1. f.waits # "parmap"
    BY <1>6
  <2> QED BY <1>6, <1>7, <1>9, <2>1, FrameKept
<1>11. NumberFits(calls', f, rng'[w])
  <2>1. CodeIn(calls', f) = body
    BY <1>6, <1>9 DEF CodeIn
  <2>2. g.pc \in 1..(Len(body) + 1)
    BY <1>2 DEF FrameFits
  <2> HIDE DEF g, body
  <2>3. g.pc \in 1..(f.pc - 1)
    BY <1>2, <1>6, <2>2
  <2> QED BY <1>2, <2>1, <2>3 DEF NumberFits
<1>12. OthersKept(w)
  BY <1>8 DEF OthersKept, Keeps
<1> QED BY <1>1, <1>2, <1>6, <1>8, <1>10, <1>11, <1>12, TopStep

(* A task ends as its element ends in the loop: its nested call failed, a  *)
(* builtin was refused, or its script is done.                             *)
LEMMA FailNestedLoops ==
  ASSUME IInv, LInv, NEW w \in Workers, FailNested(w)
  PROVE  LInv'
<1> DEFINE g == Top(w)
           body == CodeIn(calls, g)
           s == SeedIn(calls, g)
           cs == WithoutCall(calls, Nested(Top(w)))
<1>1. /\ NestedEnded(w) /\ NestedAnswer(w).failed # {} /\ Leave(w)
      /\ calls' = Marked(cs, Top(w), "error", {})
  BY DEF FailNested
<1>2. /\ Busy(w) /\ g \in Frames /\ FrameFits(calls, g) /\ RunsIn(calls, g)
      /\ g.pc <= Len(body) /\ body[g.pc] \in Lambdas
      /\ NestedAnswer(w) = Promise!InTurn(Promise!Trial, body[g.pc], s)
  BY <1>1, NestedIsDue
<1>3. Promise!Fails(Promise!Trial, body, s, g.pc)
  <2> HIDE DEF body, s, g
  <2> QED BY <1>1, <1>2 DEF Promise!Fails
<1>4. Due(calls[g.call], g.at) = [state |-> "error", log |-> {}]
  BY <1>2, <1>3, InvParts, LoopParts, FrameEnds
<1> HIDE DEF cs
<1>5. /\ Table(cs) /\ TrialsFit(cs)
      /\ \A id \in DOMAIN cs : id \in DOMAIN calls /\ cs[id] = calls[id] /\ ~Awaits(Top(w), id)
      /\ \A v \in Workers : \A k \in 1..Len(stack[v]) :
           /\ stack[v][k].call \in DOMAIN cs /\ cs[stack[v][k].call] = calls[stack[v][k].call]
           /\ ~(v = w /\ k = Len(stack[w])) /\ stack[v][k].waits = "parmap" =>
                Nested(stack[v][k]) \in DOMAIN cs
  BY <1>1, NestedLeft DEF cs
<1>6. g.call \in DOMAIN cs /\ cs[g.call] = calls[g.call]
  <2>1. g = stack[w][Len(stack[w])] /\ Len(stack[w]) \in 1..Len(stack[w])
    BY <1>2, TopFits
  <2> HIDE DEF g
  <2> QED BY <1>5, <2>1
<1>7. RunsIn(cs, Top(w)) /\ Due(cs[Top(w).call], Top(w).at) = [state |-> "error", log |-> {}]
  BY <1>2, <1>4, <1>6 DEF RunsIn
<1>8. {} \in Promise!Logs
  BY DEF Promise!Logs
<1>9. \A v \in Workers : \A k \in 1..Len(stack[v]) :
        ~(v = w /\ k = Len(stack[w])) =>
          /\ stack[v][k].call \in DOMAIN cs
          /\ stack[v][k].waits = "parmap" => Nested(stack[v][k]) \in DOMAIN cs
  BY <1>5
<1> QED BY <1>1, <1>2, <1>5, <1>7, <1>8, <1>9, EndLoops

(* A task that did not wait ends.                                          *)
LEMMA EndsHere ==
  ASSUME IInv, LInv, NEW w \in Workers, Busy(w), Leave(w), Top(w).waits = "no",
         NEW state \in {"ok", "error"}, NEW log \in Promise!Logs,
         Due(calls[Top(w).call], Top(w).at) = [state |-> state, log |-> log],
         calls' = Marked(calls, Top(w), state, log)
  PROVE  LInv'
<1>1. Table(calls) /\ TrialsFit(calls) /\ RunsIn(calls, Top(w))
  BY InvParts, LoopParts, TopFits
<1>2. \A id \in DOMAIN calls : ~Awaits(Top(w), id)
  BY DEF Awaits
<1>3. \A v \in Workers : \A k \in 1..Len(stack[v]) :
        /\ stack[v][k].call \in DOMAIN calls
        /\ stack[v][k].waits = "parmap" => Nested(stack[v][k]) \in DOMAIN calls
  BY InvParts, LoopParts DEF Sound, Held, RunsIn, FramesFit, FrameFits
<1> QED BY <1>1, <1>2, <1>3, EndLoops

(* A builtin of the denylist, which the flag always refuses here.          *)
LEMMA ImpureLoops ==
  ASSUME IInv, LInv, NEW w \in Workers, RunImpure(w)
  PROVE  LInv'
<1> DEFINE g == Top(w)
           body == CodeIn(calls, g)
           s == SeedIn(calls, g)
<1>1. /\ Busy(w) /\ g.waits = "no" /\ g.pc <= Len(Code(w)) /\ Code(w)[g.pc] = "impure"
  BY DEF RunImpure, At
<1>2. /\ g \in Frames /\ FrameFits(calls, g) /\ RunsIn(calls, g) /\ Code(w) = body
  BY <1>1, TopFits
<1>3. flag[w] = "set"
  <2>1. flag[w] = FlagOver(Len(stack[w])) /\ Len(stack[w]) # 0
    BY <1>1, InvParts, TopIsFrame DEF Sound, FlagsFit, Busy
  <2> QED BY <2>1 DEF FlagOver
<1>4. Leave(w) /\ calls' = Marked(calls, Top(w), "error", {})
  BY <1>3 DEF RunImpure
<1>5. Promise!Fails(Promise!Trial, body, s, g.pc)
  <2> HIDE DEF s, g
  <2> QED BY <1>1, <1>2 DEF Promise!Fails, g
<1>6. Due(calls[g.call], g.at) = [state |-> "error", log |-> {}]
  BY <1>1, <1>2, <1>5, InvParts, LoopParts, FrameEnds
<1>7. {} \in Promise!Logs
  BY DEF Promise!Logs
<1> QED BY <1>1, <1>4, <1>6, <1>7, EndsHere

(* The script of an element is done.                                       *)
LEMMA FinishLoops ==
  ASSUME IInv, LInv, NEW w \in Workers, Finish(w)
  PROVE  LInv'
<1>1. /\ Busy(w) /\ Top(w).waits = "no" /\ Top(w).pc > Len(Code(w)) /\ Leave(w)
      /\ calls' = Marked(calls, Top(w), "ok", Top(w).log)
  BY DEF Finish
<1>2. /\ Top(w) \in Frames /\ FrameFits(calls, Top(w)) /\ RunsIn(calls, Top(w))
      /\ Code(w) = CodeIn(calls, Top(w))
  BY <1>1, TopFits
<1>3. Due(calls[Top(w).call], Top(w).at) = [state |-> "ok", log |-> Top(w).log]
  BY <1>1, <1>2, InvParts, LoopParts, FrameEnds
<1>4. Top(w).log \in Promise!Logs
  BY <1>2 DEF Frames
<1> QED BY <1>1, <1>3, <1>4, EndsHere

(* Initially there is no call and no task.                                 *)
LEMMA InitLoops == Init => LInv
<1> SUFFICES ASSUME Init PROVE LInv
  OBVIOUS
<1>1. DOMAIN calls = {} /\ \A w \in Workers : stack[w] = <<>>
  BY DEF Init
<1>2. \A w \in Workers : Len(stack[w]) = 0
  BY <1>1, EmptySeq
<1>3. TrialsFit(calls) /\ CallersFit(stack, calls, answers)
  BY <1>1 DEF TrialsFit, CallersFit
<1>4. FramesFit(stack, calls) /\ NumbersFit(stack, calls, rng)
  BY <1>2 DEF FramesFit, NumbersFit
<1> QED BY <1>3, <1>4, LoopParts

(* Every step keeps what ties the trials to the loop.                      *)
LEMMA StepLoops == DrawsFirst /\ IInv /\ LInv /\ [Next]_vars => LInv'
<1> SUFFICES ASSUME DrawsFirst, IInv, LInv, [Next]_vars PROVE LInv'
  OBVIOUS
<1>1. ASSUME NEW c \in Callers, Return(c) PROVE LInv'
  BY <1>1, ReturnLoops
<1>2. ASSUME NEW c \in Callers, NEW j \in Jails \cup {NoJail}, Call(c, j) PROVE LInv'
  BY <1>2, CallLoops DEF AnyJail
<1>3. ASSUME NEW w \in Workers, Work(w) PROVE LInv'
  <2>1. ASSUME NEW id \in DOMAIN calls, NEW i \in DOMAIN calls[id].trials, Claim(w, id, i)
        PROVE  LInv'
    BY <2>1, ClaimLoops
  <2>2. CASE Draw(w)
    BY <2>2, DrawLoops
  <2>3. CASE Widen(w)
    BY <2>3, WidenLoops
  <2>4. CASE Joined(w)
    BY <2>4, JoinedLoops
  <2>5. ASSUME NEW g \in Lambdas, CallNested(w, g) PROVE LInv'
    BY <2>5, CallNestedLoops
  <2>6. CASE ReturnNested(w)
    BY <2>6, ReturnNestedLoops
  <2>7. CASE FailNested(w)
    BY <2>7, FailNestedLoops
  <2>8. CASE RunImpure(w)
    BY <2>8, ImpureLoops
  <2>9. CASE Finish(w)
    BY <2>9, FinishLoops
  <2> QED BY <1>3, <2>1, <2>2, <2>3, <2>4, <2>5, <2>6, <2>7, <2>8, <2>9 DEF Work
<1>4. CASE UNCHANGED vars
  BY <1>4, LoopParts DEF vars
<1> QED
  BY <1>1, <1>2, <1>3, <1>4 DEF Next

(* Only Return changes an answer, and it appends what the loop answers.    *)
LEMMA StepAnswers == IInv /\ LInv /\ [Next]_vars => [Promise!Next]_answers
<1> SUFFICES ASSUME IInv, LInv, [Next]_vars, answers' # answers PROVE Promise!Next
  OBVIOUS
<1>1. ASSUME NEW c \in Callers, Return(c) PROVE Promise!Next
  BY <1>1, ReturnAnswers DEF Promise!Next
<1>2. ASSUME NEW c \in Callers, NEW j \in Jails \cup {NoJail}, Call(c, j) PROVE FALSE
  BY <1>2 DEF Call
<1>3. ASSUME NEW w \in Workers, Work(w) PROVE FALSE
  BY <1>3 DEF Work, Claim, Draw, Widen, Joined, CallNested, ReturnNested, FailNested,
              RunImpure, Finish, Leave
<1>4. CASE UNCHANGED vars
  BY <1>4 DEF vars
<1> QED
  BY <1>1, <1>2, <1>3, <1>4 DEF Next

(* Where no task that may have lent its thread draws or calls parmap, every *)
(* answer is the one of the sequential loop, whatever the pool, the callers,*)
(* the script and the schedule (LocalRayonBackend::run in eval/parmap.rs).  *)
THEOREM AnswersAreTheLoops == DrawsFirst => (Spec => ImplementsLoop)
<1> SUFFICES ASSUME DrawsFirst PROVE Spec => ImplementsLoop
  OBVIOUS
<1>1. Init => IInv /\ LInv
  BY InitSound, InitLoops
<1>2. IInv /\ LInv /\ [Next]_vars => (IInv /\ LInv)'
  BY StepSound, StepLoops
<1>3. Init => Promise!Init
  BY DEF Init, Promise!Init
<1>4. IInv /\ LInv /\ [Next]_vars => [Promise!Next]_answers
  BY StepAnswers
<1> QED
  BY <1>1, <1>2, <1>3, <1>4, PTL DEF Spec, ImplementsLoop, Promise!Spec

(* All answers of a caller are the one of its loop.                        *)
Repeats ==
  \A c \in Callers : \A m \in DOMAIN answers[c] : answers[c][m] = Promise!Loop(c)

(* One more answer of the loop is the same answer once more.               *)
LEMMA StepRepeats == IInv /\ Repeats /\ [Promise!Next]_answers => Repeats'
<1> SUFFICES ASSUME IInv, Repeats, [Promise!Next]_answers,
                    NEW c \in Callers, NEW m \in DOMAIN answers'[c]
             PROVE  answers'[c][m] = Promise!Loop(c)
  BY DEF Repeats
<1> DEFINE A == [failed : SUBSET Nat, log : Promise!Logs]
<1>1. answers \in [Callers -> Seq(A)]
  BY InvParts DEF Rest
<1>2. ASSUME NEW b \in Callers, Promise!Return(b)
      PROVE  answers'[c][m] = Promise!Loop(c)
  <2>1. answers' = [answers EXCEPT ![b] = Append(answers[b], Promise!Loop(b))]
    BY <1>2 DEF Promise!Return
  <2>2. CASE c # b
    <3>1. answers'[c] = answers[c]
      BY <1>1, <2>1, <2>2
    <3> QED BY <3>1 DEF Repeats
  <2>3. CASE c = b
    <3>1. answers'[c] = Append(answers[c], Promise!Loop(c)) /\ answers[c] \in Seq(A)
      BY <1>1, <2>1, <2>3
    <3> DEFINE s == answers[c]
               a == Promise!Loop(c)
               n == Len(s)
    <3> HIDE DEF A, a
    <3>2. n \in Nat /\ DOMAIN s = 1..n /\ s \in Seq(A \cup {a})
      BY <3>1, LenProperties, SeqMonotonic
    <3>3. /\ DOMAIN Append(s, a) = 1..(n + 1) /\ Append(s, a)[n + 1] = a
          /\ \A k \in 1..n : Append(s, a)[k] = s[k]
      <4>1. a \in A \cup {a}
        OBVIOUS
      <4>2. Append(s, a) \in Seq(A \cup {a}) /\ Len(Append(s, a)) = n + 1
            /\ Append(s, a)[n + 1] = a /\ \A k \in 1..n : Append(s, a)[k] = s[k]
        BY <3>2, <4>1, AppendProperties
      <4> QED BY <4>2, LenProperties
    <3>4. \A k \in 1..n : s[k] = a
      BY <3>2 DEF Repeats, a
    <3> HIDE DEF s, n
    <3>5. m \in 1..(n + 1) /\ answers'[c][m] = Append(s, a)[m]
      BY <3>1, <3>3 DEF s, a
    <3>6. m \in 1..n \/ m = n + 1
      BY <3>2, <3>5
    <3> QED BY <3>3, <3>4, <3>5, <3>6 DEF a
  <2> QED BY <2>2, <2>3
<1>3. CASE answers' = answers
  BY <1>3 DEF Repeats
<1> QED BY <1>2, <1>3 DEF Promise!Next

(* Where AnswersAreTheLoops holds, the comment of LocalRayonBackend::run    *)
(* (eval/parmap.rs) is right: the same seed gives the same answer.         *)
THEOREM SameSeedRepeats == DrawsFirst => (Spec => []SameSeedSameAnswer)
<1> SUFFICES ASSUME DrawsFirst PROVE Spec => []SameSeedSameAnswer
  OBVIOUS
<1>1. Init => IInv /\ LInv
  BY InitSound, InitLoops
<1>2. Init => Repeats
  <2> SUFFICES ASSUME Init, NEW c \in Callers, NEW m \in DOMAIN answers[c]
               PROVE  answers[c][m] = Promise!Loop(c)
    BY DEF Repeats
  <2>1. answers[c] = << >>
    BY DEF Init
  <2> QED BY <2>1
<1>3. IInv /\ LInv /\ [Next]_vars => (IInv /\ LInv)'
  BY StepSound, StepLoops
<1>4. IInv /\ LInv /\ Repeats /\ [Next]_vars => Repeats'
  BY StepAnswers, StepRepeats
<1>5. Repeats => SameSeedSameAnswer
  BY DEF Repeats, SameSeedSameAnswer
<1> QED
  BY <1>1, <1>2, <1>3, <1>4, <1>5, PTL DEF Spec
=============================================================================
